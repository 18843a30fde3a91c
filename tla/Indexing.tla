------------------------------- MODULE Indexing -------------------------------
(***************************************************************************)
(* What an index run computes: the steps of runLSPIndex and                *)
(* runOnSaveLSPIndex (build-with-me/src/features/indexing/lspBridge.ts)    *)
(* and the daemon's handlers they call                                     *)
(* (server/pkg/api/handlers_index_lsp.go), over the tables of IndexStore.  *)
(*                                                                         *)
(* One run at a time; IndexScheduler has the overlaps.  Files are saved,   *)
(* and edges drawn and erased in the graph, between any two steps.  The    *)
(* language server shows the files as they are on disk, or throws.         *)
(***************************************************************************)
EXTENDS IndexStore, FiniteSets

CONSTANTS
    Contents,   \* the versions of a file that may be saved, as sets of rows
    BatchSize,  \* EDGE_BATCH_SIZE
    Drawn,      \* edges a user may draw, as <<source, target>>
    MaxSaves    \* bound: how often files are saved

\* In one version of a file an id names one row, and no two rows start in the
\* same line; a row ends where it starts or later.
WellFormed(f, rows) ==
    /\ rows \subseteq Row
    /\ \A r \in rows : FileOf[r.id] = f /\ 0 < r.line /\ r.line <= r.end
    /\ \A r, q \in rows : r.id = q.id \/ r.line = q.line => r = q

ASSUME ContentsAssumption ==
    /\ DOMAIN Contents = Files
    /\ \A f \in Files : Contents[f] # {} /\ \A rows \in Contents[f] : WellFormed(f, rows)
\* A row that starts inside another ends inside it, as rows come from nodes of
\* one syntax tree.  A symbol that starts in the line where another ends would
\* be resolved to that one.
ASSUME NestingAssumption ==
    \A f \in Files : \A rows \in Contents[f] : \A r, q \in rows :
        r.line < q.line /\ q.line <= r.end => q.end <= r.end
ASSUME BatchAssumption == BatchSize \in Nat \ {0}
ASSUME DrawnAssumption == Drawn \subseteq Symbols \X Symbols
ASSUME SavesAssumption == MaxSaves \in Nat

VARIABLES
    disk,       \* the rows of each file as saved last
    saves,      \* how often files were saved
    dirty,      \* files saved since the last run that served them scanned them
    \* The daemon's tables.
    table,      \* symbols
    calls,      \* method_calls
    \* The run in progress.
    at,         \* where it is
    file,       \* filePath of an on-save run
    rebuild,    \* the flag of a full run
    scanned,    \* symbols of index.scan or index.scanFile
    changed,    \* changedCallerIds
    removed,    \* removedCallerIds
    todo,       \* symbols whose calls are still to be collected
    edges,      \* resolved edges that are still to be stored
    risky,      \* callers whose edges of this run are suspect
    \* History.
    taken,      \* what the run in progress took out of dirty and did not store
    suspect     \* callers whose edges were resolved by outdated positions or not
                \* at all, or whose callees came or went unnoticed

diskVars == <<disk, saves, dirty>>
runVars == <<at, file, rebuild, scanned, changed, removed, todo, edges, risky, taken>>
vars == <<diskVars, table, calls, runVars, suspect>>

RunStates == {"idle", "fullCollect", "fullAppend", "collect"}
OnDisk == UNION {disk[f] : f \in Files}
\* A resolved edge; the mutant stores it as one the user drew.
IndexedAsManual(caller, callee) == [caller |-> caller, callee |-> callee, manual |-> TRUE]
Indexed(caller, callee) == [caller |-> caller, callee |-> callee, manual |-> FALSE]
Callers(es) == {e.caller : e \in es}

\* A run that ended leaves nothing but what it stored.
RunOver ==
    /\ at' = "idle"
    /\ scanned' = {} /\ changed' = {} /\ removed' = {} /\ todo' = {}
    /\ edges' = {} /\ risky' = {} /\ taken' = {}
    /\ UNCHANGED <<file, rebuild>>

Init ==
    /\ disk \in [Files -> UNION {Contents[f] : f \in Files}]
    /\ \A f \in Files : disk[f] \in Contents[f]
    /\ saves = 0 /\ dirty = Files
    /\ table = {} /\ calls = {}
    /\ at = "idle" /\ file \in Files /\ rebuild = FALSE
    /\ scanned = {} /\ changed = {} /\ removed = {} /\ todo = {}
    /\ edges = {} /\ risky = {} /\ taken = {}
    /\ suspect = {}

Save(f) ==
    /\ saves < MaxSaves
    /\ \E rows \in Contents[f] \ {disk[f]} : disk' = [disk EXCEPT ![f] = rows]
    /\ saves' = saves + 1
    /\ dirty' = dirty \cup {f}
    /\ UNCHANGED <<table, calls, runVars, suspect>>

-----------------------------------------------------------------------------
(* collectOutgoingCallLocations asks for the call hierarchy of what now    *)
(* stands at the position a symbol was scanned at.                         *)

\* Where the callees of that are, on disk.
CalleesNow(r) ==
    {m \in OnDisk : \E d \in disk[FileOf[r.id]] : d.line = r.line /\ m.id \in d.body}

\* The same symbols in the same lines, whatever they call.
Layout(rows) == {<<r.id, r.line, r.end>> : r \in rows}

\* The file of the caller changed since the scan, or the file of a callee is
\* not laid out as in the rows positions are resolved by.
Uncertain(r, view) ==
    \/ disk[FileOf[r.id]] # RowsOf(scanned, FileOf[r.id])
    \/ \E id \in r.body : Layout(RowsOf(view, FileOf[id])) # Layout(disk[FileOf[id]])

\* The calls of r were resolved to callees by the positions in view.
Collected(r, callees, view) ==
    /\ todo' = todo \ {r}
    /\ edges' = edges \cup {Indexed(r.id, id) : id \in callees}
    /\ risky' = IF Uncertain(r, view) THEN risky \cup {r.id} ELSE risky

\* The language server throws: the symbol has no calls, and the run goes on.
CollectNothing ==
    /\ at \in {"fullCollect", "collect"}
    /\ \E r \in todo :
        /\ todo' = todo \ {r}
        /\ risky' = risky \cup {r.id}
    /\ UNCHANGED <<diskVars, table, calls, at, file, rebuild, scanned, changed, removed,
                   edges, taken, suspect>>

-----------------------------------------------------------------------------
(* runLSPIndex.                                                            *)

FullScan ==
    /\ at = "idle"
    /\ at' = "fullCollect"
    /\ rebuild' \in BOOLEAN
    /\ scanned' = OnDisk /\ todo' = OnDisk
    /\ dirty' = {} /\ taken' = dirty
    /\ UNCHANGED <<disk, saves, table, calls, file, changed, removed, edges, risky, suspect>>

FullCollect ==
    /\ at = "fullCollect"
    /\ \E r \in todo :
        Collected(r, UNION {ResolveByInterval(scanned, FileOf[m.id], m.line) :
                            m \in CalleesNow(r)}, scanned)
    /\ UNCHANGED <<diskVars, table, calls, at, file, rebuild, scanned, changed, removed, taken,
                   suspect>>

\* Up to BatchSize of the edges that are left.
NextBatches ==
    IF Cardinality(edges) <= BatchSize
    THEN {edges}
    ELSE {batch \in SUBSET edges : Cardinality(batch) = BatchSize}

\* What remains after a batch, or the end of the run.
AfterBatch(batch) ==
    IF batch = edges
    THEN RunOver
    ELSE /\ at' = "fullAppend" /\ edges' = edges \ batch /\ taken' = {}
         /\ UNCHANGED <<file, rebuild, scanned, changed, removed, todo, risky>>

\* index.storeEdges.
Replaced(batch) ==
    /\ table' = scanned
    /\ calls' = ReplaceCalls(calls, batch, rebuild)

FullStore ==
    /\ at = "fullCollect" /\ todo = {}
    /\ \E batch \in NextBatches : Replaced(batch) /\ AfterBatch(batch)
    /\ suspect' = risky
    /\ UNCHANGED diskVars

\* index.appendEdges.
FullAppend ==
    /\ at = "fullAppend"
    /\ \E batch \in NextBatches :
        /\ calls' = calls \cup batch
        /\ AfterBatch(batch)
    /\ UNCHANGED <<diskVars, table, suspect>>

\* The run is cancelled or a request fails, and may have been carried out.
\* Without index.storeEdges nothing happened; after it edges are missing.
FullFails ==
    /\ RunOver
    /\ \/ /\ at = "fullCollect"
          /\ dirty' = dirty \cup taken
          /\ UNCHANGED <<table, calls, suspect>>
       \/ /\ at = "fullCollect" /\ todo = {}
          /\ \E batch \in NextBatches :
                Replaced(batch) /\ suspect' = risky \cup Callers(edges \ batch)
          /\ UNCHANGED dirty
       \/ /\ at = "fullAppend"
          /\ \E batch \in {{}} \cup NextBatches :
                /\ calls' = calls \cup batch
                /\ suspect' = suspect \cup Callers(edges \ batch)
          /\ UNCHANGED <<table, dirty>>
    /\ UNCHANGED <<disk, saves>>

-----------------------------------------------------------------------------
(* runOnSaveLSPIndex.                                                      *)

\* index.scanFile, of a file that was saved; what was saved may be what it was.
OnSaveScan(f) ==
    /\ at = "idle"
    /\ at' = "collect" /\ file' = f
    /\ scanned' = disk[f]
    /\ changed' = ChangedIds(table, f, disk[f])
    /\ removed' = RemovedIds(table, f, disk[f])
    /\ todo' = {r \in disk[f] : r.id \in changed'}
    /\ dirty' = dirty \ {f} /\ taken' = dirty \cap {f}
    /\ UNCHANGED <<disk, saves, table, calls, rebuild, edges, risky, suspect>>

\* The calls of one changed symbol; index.resolveSymbolsByLocation, which
\* follows when all are collected, reads the same table.
OnSaveCollect ==
    /\ at = "collect"
    /\ \E r \in todo :
        Collected(r, UNION {ResolveByQuery(table, FileOf[m.id], m.line) :
                            m \in CalleesNow(r)}, table)
    /\ UNCHANGED <<diskVars, table, calls, at, file, rebuild, scanned, changed, removed, taken,
                   suspect>>

\* Symbols that came with the delta, and functions that went: the edges of
\* callers that did not change do not follow.
Unnoticed ==
    LET old == Ids(RowsOf(table, file)) IN
    (Ids(scanned) \ old) \cup ((old \ Ids(scanned)) \ removed)

\* index.storeFileDelta.
Delta ==
    /\ table' = DeltaSymbols(table, file, scanned)
    /\ calls' = DeltaCalls(calls, changed, removed, edges)
    /\ suspect' = (suspect \ changed) \cup risky
                    \cup {r.id : r \in {r \in table' : r.body \cap Unnoticed # {}}}

OnSaveStore ==
    /\ at = "collect" /\ todo = {}
    /\ Delta
    /\ RunOver
    /\ UNCHANGED diskVars

\* It throws: the file waits for its next save.  A delta whose answer was
\* lost is stored nevertheless.
OnSaveFails ==
    /\ at = "collect"
    /\ (todo = {} /\ Delta) \/ UNCHANGED <<table, calls, suspect>>
    /\ RunOver
    /\ dirty' = dirty \cup taken
    /\ UNCHANGED <<disk, saves>>

-----------------------------------------------------------------------------
(* Requests of the user.                                                   *)

\* index.clearSymbols.
ClearSymbols ==
    /\ at = "idle"
    /\ table' = {} /\ calls' = ReplaceCalls(calls, {}, TRUE)
    /\ suspect' = {} /\ dirty' = Files
    /\ UNCHANGED <<disk, saves, runVars>>

\* edges.create: both ends must be nodes of the graph.
CreateEdge ==
    /\ \E p \in Drawn :
        /\ p[1] \in Ids(table) /\ p[2] \in Ids(table)
        /\ calls' = calls \cup {[caller |-> p[1], callee |-> p[2], manual |-> TRUE]}
    /\ UNCHANGED <<diskVars, table, runVars, suspect>>

\* edges.delete.
DeleteEdge ==
    /\ \E e \in Manual(calls) : calls' = calls \ {e}
    /\ UNCHANGED <<diskVars, table, runVars, suspect>>

-----------------------------------------------------------------------------
FullStep == FullScan \/ FullCollect \/ FullStore \/ FullAppend \/ FullFails

OnSaveStep ==
    \/ \E f \in Files : OnSaveScan(f)
    \/ OnSaveCollect \/ OnSaveStore \/ OnSaveFails

Next ==
    \/ \E f \in Files : Save(f)
    \/ FullStep \/ OnSaveStep \/ CollectNothing
    \/ ClearSymbols \/ CreateEdge \/ DeleteEdge

Spec == Init /\ [][Next]_vars

-----------------------------------------------------------------------------
TypeOK ==
    /\ \A f \in Files : disk[f] \in Contents[f]
    /\ saves \in 0 .. MaxSaves /\ dirty \subseteq Files
    /\ table \subseteq Row /\ calls \subseteq Edge
    /\ at \in RunStates /\ file \in Files /\ rebuild \in BOOLEAN
    /\ scanned \subseteq Row /\ todo \subseteq scanned
    /\ changed \subseteq Symbols /\ removed \subseteq Symbols
    /\ edges \subseteq Edge /\ Manual(edges) = {}
    /\ risky \subseteq Symbols /\ suspect \subseteq Symbols /\ taken \subseteq Files

\* The daemon has exactly the symbols of every file as saved last, each id
\* once and where it stands, unless the file still waits for its run or the run
\* that serves it has not stored it.
SymbolsMatch ==
    \A f \in Files \ (dirty \cup taken) : RowsOf(table, f) = disk[f]

\* Between runs, the indexed edges out of a symbol are the calls in its body
\* to symbols the index knows, however full and on-save runs came before,
\* unless the symbol is suspect.
CallsMatchSource ==
    at = "idle" =>
        \A r \in table :
            \/ r.id \in suspect
            \/ {e.callee : e \in {e \in calls : ~e.manual /\ e.caller = r.id}}
                 = r.body \cap Ids(table)

\* No indexed edge starts at a method that is gone; only functions leave
\* theirs behind.
NoOrphans ==
    \A e \in calls :
        e.manual \/ e.caller \in Ids(table) \/ KindOf[e.caller] = "function"

\* An edge the user drew disappears only when it is erased, the index is
\* rebuilt or the symbols are cleared, never by indexing what was saved.
ManualKept ==
    [][\/ Manual(calls) \subseteq calls'
       \/ DeleteEdge \/ ClearSymbols
       \/ rebuild /\ at = "fullCollect"]_vars

\* docs/INDEXING.md: on-save indexing replaces "affected symbols/edges", and
\* the call hierarchy "gives compiler-level symbol resolution"; so indexing
\* one saved file after the other, each call between known symbols is shown.
CallGraphIsExact ==
    at = "idle" =>
        \A r \in table : \A id \in r.body \cap Ids(table) : Indexed(r.id, id) \in calls
=============================================================================
