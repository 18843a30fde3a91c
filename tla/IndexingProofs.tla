----------------------------- MODULE IndexingProofs -----------------------------
(***************************************************************************)
(* Proofs about Indexing, for every set of files, every well-formed        *)
(* versions of them, every batch size and any number of saves.             *)
(***************************************************************************)
EXTENDS Indexing, TLAPS

\* What the run in progress knows of the files it did not see saved since, and
\* the deltas it will store.
ScanInv ==
    /\ at = "fullCollect" => \A f \in Files \ dirty : RowsOf(scanned, f) = disk[f]
    /\ at = "collect" =>
          /\ \A r \in scanned : FileOf[r.id] = file
          /\ file \notin dirty => scanned = disk[file]
          /\ removed = RemovedIds(table, file, scanned)
          /\ taken \subseteq {file}
    /\ at \in {"fullCollect", "collect"} => Callers(edges) \subseteq Ids(scanned)
    /\ at = "fullAppend" => Callers(edges) \subseteq Ids(table)
    /\ at = "idle" => edges = {}
    /\ at \in {"idle", "fullAppend"} => taken = {}

IInv ==
    /\ disk \in [Files -> UNION {Contents[f] : f \in Files}]
    /\ TypeOK /\ SymbolsMatch /\ NoOrphans /\ ScanInv

\* What ManualKept says of a step.
KeepsManual ==
    \/ Manual(calls) \subseteq calls'
    \/ DeleteEdge \/ ClearSymbols
    \/ rebuild /\ at = "fullCollect"

-----------------------------------------------------------------------------
(* Rows and tables.                                                        *)

LEMMA DiskRows ==
  ASSUME TypeOK
  PROVE  /\ \A f \in Files : disk[f] \subseteq Row /\ \A r \in disk[f] : FileOf[r.id] = f
         /\ OnDisk \subseteq Row
         /\ \A f \in Files : RowsOf(OnDisk, f) = disk[f]
  <1>1. ASSUME NEW f \in Files
        PROVE  disk[f] \subseteq Row /\ \A r \in disk[f] : FileOf[r.id] = f
    BY <1>1, ContentsAssumption DEF TypeOK, WellFormed
  <1>2. OnDisk \subseteq Row  BY <1>1 DEF OnDisk
  <1>3. \A f \in Files : RowsOf(OnDisk, f) = disk[f]  BY <1>1 DEF OnDisk, RowsOf
  <1> QED  BY <1>1, <1>2, <1>3

LEMMA IdsOfRows ==
  ASSUME NEW rows \in SUBSET Row PROVE Ids(rows) \subseteq Symbols
  BY DEF Ids, Row

\* A position resolves to symbols of the rows it is looked up in.
LEMMA ResolvedAreKnown ==
  ASSUME NEW rows \in SUBSET Row, NEW f, NEW line
  PROVE  /\ ResolveByInterval(rows, f, line) \subseteq Symbols
         /\ ResolveByQuery(rows, f, line) \subseteq Symbols
  BY DEF ResolveByInterval, ResolveByQuery, Around, Spanning, RowsOf, Row

\* A delta replaces the rows of its file and leaves those of the others.
RowsIn(rows, f) == rows \subseteq Row /\ \A r \in rows : FileOf[r.id] = f
AreRows(rows) == rows \subseteq Row

LEMMA DeltaOfOneFile ==
  ASSUME NEW f \in Files, NEW rows, RowsIn(rows, f), NEW old, AreRows(old)
  PROVE  /\ DeltaSymbols(old, f, rows) \subseteq Row /\ rows \subseteq DeltaSymbols(old, f, rows)
         /\ RowsOf(DeltaSymbols(old, f, rows), f) = rows
         /\ \A g \in Files : g # f => RowsOf(DeltaSymbols(old, f, rows), g) = RowsOf(old, g)
         /\ \A r \in old : FileOf[r.id] # f => r \in DeltaSymbols(old, f, rows)
  <1> USE DEF RowsIn, AreRows
  <1>1. /\ DeltaSymbols(old, f, rows) \subseteq Row /\ rows \subseteq DeltaSymbols(old, f, rows)
    BY DEF DeltaSymbols, Upsert, Ids
  <1>2. RowsOf(DeltaSymbols(old, f, rows), f) = rows
    <2>1. ASSUME NEW r \in DeltaSymbols(old, f, rows), FileOf[r.id] = f PROVE r \in rows
      BY <2>1 DEF DeltaSymbols, Upsert
    <2> QED  BY <2>1, <1>1 DEF RowsOf
  <1>3. \A r \in old : FileOf[r.id] # f => r \in DeltaSymbols(old, f, rows)
    <2> SUFFICES ASSUME NEW r \in old, FileOf[r.id] # f PROVE r \in DeltaSymbols(old, f, rows)
      OBVIOUS
    <2>1. r.id \notin Ids(rows)  BY DEF Ids
    <2> QED  BY <2>1 DEF DeltaSymbols, Upsert
  <1>4. \A r \in DeltaSymbols(old, f, rows) : FileOf[r.id] # f => r \in old
    BY DEF DeltaSymbols, Upsert
  <1>5. \A g \in Files : g # f => RowsOf(DeltaSymbols(old, f, rows), g) = RowsOf(old, g)
    BY <1>3, <1>4 DEF RowsOf
  <1> QED  BY <1>1, <1>2, <1>3, <1>5

LEMMA BatchesAreEdges ==
  ASSUME NEW batch \in NextBatches PROVE batch \subseteq edges
  BY DEF NextBatches

LEMMA ManualReplaced ==
  ASSUME NEW old, NEW new, NEW flag
  PROVE  flag \/ Manual(old) \subseteq ReplaceCalls(old, new, flag)
  BY DEF ReplaceCalls, KeptByReplace

-----------------------------------------------------------------------------
LEMMA InitIInv == Init => IInv
  <1> SUFFICES ASSUME Init PROVE IInv  OBVIOUS
  <1>1. TypeOK
    <2>1. \A f \in Files : disk[f] \in Contents[f]  BY DEF Init
    <2>2. /\ saves \in 0 .. MaxSaves /\ at \in RunStates /\ rebuild \in BOOLEAN
      <3>1. saves = 0 /\ at = "idle" /\ rebuild = FALSE  BY DEF Init
      <3>2. saves \in 0 .. MaxSaves  BY <3>1, SavesAssumption
      <3>3. at \in RunStates  BY <3>1 DEF RunStates
      <3>4. rebuild \in BOOLEAN  BY <3>1
      <3> QED  BY <3>2, <3>3, <3>4
    <2>3. Manual(edges) = {}  BY DEF Init, Manual
    <2>4. /\ dirty \subseteq Files /\ table \subseteq Row /\ calls \subseteq Edge
          /\ file \in Files /\ scanned \subseteq Row /\ todo \subseteq scanned
      BY DEF Init
    <2>5. /\ changed \subseteq Symbols /\ removed \subseteq Symbols
          /\ edges \subseteq Edge /\ risky \subseteq Symbols /\ suspect \subseteq Symbols
          /\ taken \subseteq Files
      BY DEF Init
    <2> QED  BY <2>1, <2>2, <2>3, <2>4, <2>5 DEF TypeOK
  <1>2. SymbolsMatch /\ NoOrphans /\ ScanInv
    BY DEF Init, SymbolsMatch, NoOrphans, ScanInv
  <1> QED  BY <1>1, <1>2 DEF IInv, Init

LEMMA SaveStep ==
  ASSUME IInv, NEW f \in Files, Save(f) PROVE IInv' /\ KeepsManual
  <1>1. PICK rows \in Contents[f] : disk' = [disk EXCEPT ![f] = rows]
    BY DEF Save
  <1>2. /\ saves' = saves + 1 /\ saves < MaxSaves /\ dirty' = dirty \cup {f}
        /\ UNCHANGED <<table, calls, suspect>> /\ UNCHANGED runVars
    BY DEF Save
  <1>3. \A g \in Files : g # f => disk'[g] = disk[g]
    BY <1>1
  <1>4. TypeOK'
    <2>1. saves' \in 0 .. MaxSaves  BY <1>2, SavesAssumption DEF IInv, TypeOK
    <2>2. \A g \in Files : disk'[g] \in Contents[g]
      BY <1>1, <1>3 DEF IInv, TypeOK
    <2> QED  BY <2>1, <2>2, <1>2 DEF IInv, TypeOK, runVars
  <1>5. SymbolsMatch'
    <2>1. \A g \in Files \ dirty' : g # f /\ g \notin dirty  BY <1>2
    <2> QED  BY <2>1, <1>2, <1>3 DEF IInv, SymbolsMatch, runVars
  <1>6. NoOrphans'  BY <1>2 DEF IInv, NoOrphans
  <1>7. ScanInv'
    <2>1. \A g \in Files \ dirty' : g # f /\ g \notin dirty  BY <1>2
    <2>2. file \in Files  BY DEF IInv, TypeOK
    <2> QED  BY <2>1, <2>2, <1>2, <1>3 DEF IInv, ScanInv, runVars
  <1>8. KeepsManual  BY <1>2 DEF KeepsManual, Manual
  <1>9. disk' \in [Files -> UNION {Contents[g] : g \in Files}]
    BY <1>1 DEF IInv
  <1> QED  BY <1>4, <1>5, <1>6, <1>7, <1>8, <1>9 DEF IInv

-----------------------------------------------------------------------------
(* Collecting.                                                             *)

\* One symbol less to collect; the edges found start at it and end at symbols.
LEMMA CollectedStep ==
  ASSUME IInv, NEW r \in todo, NEW callees \in SUBSET Symbols, NEW view,
         Collected(r, callees, view), at \in {"fullCollect", "collect"},
         UNCHANGED <<diskVars, table, calls, at, file, rebuild, scanned, changed, removed, taken,
                     suspect>>
  PROVE  IInv' /\ KeepsManual
  <1>1. /\ todo' = todo \ {r}
        /\ edges' = edges \cup {Indexed(r.id, id) : id \in callees}
        /\ risky' = IF Uncertain(r, view) THEN risky \cup {r.id} ELSE risky
    BY DEF Collected
  <1>2. r \in scanned /\ r.id \in Symbols  BY DEF IInv, TypeOK, Row
  <1>3. /\ {Indexed(r.id, id) : id \in callees} \subseteq Edge
        /\ \A e \in {Indexed(r.id, id) : id \in callees} : e.caller = r.id /\ ~e.manual
    <2>1. \A id \in callees : /\ Indexed(r.id, id) \in Edge
                              /\ Indexed(r.id, id).caller = r.id
                              /\ Indexed(r.id, id).manual = FALSE
      BY <1>2 DEF Indexed, Edge
    <2> QED  BY <2>1
  <1>4. TypeOK'
    <2>1. edges' \subseteq Edge /\ Manual(edges') = {}
      BY <1>1, <1>3 DEF IInv, TypeOK, Manual
    <2>2. risky' \subseteq Symbols  BY <1>1, <1>2 DEF IInv, TypeOK
    <2> QED  BY <2>1, <2>2, <1>1 DEF IInv, TypeOK, diskVars
  <1>5. SymbolsMatch'  BY DEF IInv, SymbolsMatch, diskVars
  <1>6. NoOrphans'  BY DEF IInv, NoOrphans
  <1>7. ScanInv'
    <2>1. Callers(edges') \subseteq Callers(edges) \cup {r.id}
      BY <1>1, <1>3 DEF Callers
    <2>2. Callers(edges') \subseteq Ids(scanned)
      BY <2>1, <1>2 DEF IInv, ScanInv, Ids
    <2> QED  BY <2>2 DEF IInv, ScanInv, diskVars
  <1>8. KeepsManual  BY DEF KeepsManual, Manual
  <1> QED  BY <1>4, <1>5, <1>6, <1>7, <1>8 DEF IInv, diskVars

LEMMA CollectNothingStep ==
  ASSUME IInv, CollectNothing PROVE IInv' /\ KeepsManual
  <1>1. PICK r \in todo : todo' = todo \ {r} /\ risky' = risky \cup {r.id}
    BY DEF CollectNothing
  <1>2. UNCHANGED <<diskVars, table, calls, at, file, rebuild, scanned, changed, removed,
                    edges, taken, suspect>>
    BY DEF CollectNothing
  <1>3. TypeOK'
    <2>1. r.id \in Symbols  BY DEF IInv, TypeOK, Row
    <2> QED  BY <2>1, <1>1, <1>2 DEF IInv, TypeOK, diskVars
  <1>4. SymbolsMatch' /\ NoOrphans'
    BY <1>2 DEF IInv, SymbolsMatch, NoOrphans, diskVars
  <1>5. ScanInv'  BY <1>2 DEF IInv, ScanInv, diskVars
  <1>6. KeepsManual  BY <1>2 DEF KeepsManual, Manual
  <1> QED  BY <1>2, <1>3, <1>4, <1>5, <1>6 DEF IInv, diskVars

LEMMA FullCollectStep ==
  ASSUME IInv, FullCollect PROVE IInv' /\ KeepsManual
  <1>1. PICK r \in todo :
           Collected(r, UNION {ResolveByInterval(scanned, FileOf[m.id], m.line) :
                               m \in CalleesNow(r)}, scanned)
    BY DEF FullCollect
  <1>2. scanned \subseteq Row  BY DEF IInv, TypeOK
  <1>3. UNION {ResolveByInterval(scanned, FileOf[m.id], m.line) : m \in CalleesNow(r)}
           \in SUBSET Symbols
    BY <1>2, ResolvedAreKnown
  <1> QED  BY <1>1, <1>3, CollectedStep DEF FullCollect

LEMMA OnSaveCollectStep ==
  ASSUME IInv, OnSaveCollect PROVE IInv' /\ KeepsManual
  <1>1. PICK r \in todo :
           Collected(r, UNION {ResolveByQuery(table, FileOf[m.id], m.line) :
                               m \in CalleesNow(r)}, table)
    BY DEF OnSaveCollect
  <1>2. table \subseteq Row  BY DEF IInv, TypeOK
  <1>3. UNION {ResolveByQuery(table, FileOf[m.id], m.line) : m \in CalleesNow(r)}
           \in SUBSET Symbols
    BY <1>2, ResolvedAreKnown
  <1> QED  BY <1>1, <1>3, CollectedStep DEF OnSaveCollect

-----------------------------------------------------------------------------
(* A full index.                                                           *)

LEMMA FullScanStep ==
  ASSUME IInv, FullScan PROVE IInv' /\ KeepsManual
  <1>1. /\ at = "idle" /\ at' = "fullCollect" /\ rebuild' \in BOOLEAN
        /\ scanned' = OnDisk /\ todo' = OnDisk /\ dirty' = {} /\ taken' = dirty
        /\ UNCHANGED <<disk, saves, table, calls, file, changed, removed, edges, risky,
                       suspect>>
    BY DEF FullScan
  <1>2. TypeOK  BY DEF IInv
  <1>3. OnDisk \subseteq Row /\ \A f \in Files : RowsOf(OnDisk, f) = disk[f]
    BY <1>2, DiskRows
  <1>4. TypeOK'  BY <1>1, <1>2, <1>3 DEF TypeOK, RunStates
  <1>5. SymbolsMatch'  BY <1>1 DEF IInv, SymbolsMatch, ScanInv
  <1>6. NoOrphans'  BY <1>1 DEF IInv, NoOrphans
  <1>7. edges = {}  BY <1>1 DEF IInv, ScanInv
  <1>8. ScanInv'
    <2>1. Callers(edges') = {}  BY <1>1, <1>7 DEF Callers
    <2> QED  BY <2>1, <1>1, <1>3 DEF ScanInv
  <1>9. KeepsManual  BY <1>1 DEF KeepsManual, Manual
  <1> QED  BY <1>1, <1>4, <1>5, <1>6, <1>8, <1>9 DEF IInv

\* The tables after index.storeEdges with the first batch.
LEMMA ReplacedStep ==
  ASSUME IInv, at = "fullCollect", NEW batch \in NextBatches, Replaced(batch)
  PROVE  /\ table' \subseteq Row /\ calls' \subseteq Edge
         /\ NoOrphans' /\ KeepsManual
         /\ Callers(edges) \subseteq Ids(table')
         /\ \A f \in Files \ dirty : RowsOf(table', f) = disk[f]
  <1>1. table' = scanned /\ calls' = ReplaceCalls(calls, batch, rebuild)
    BY DEF Replaced
  <1>2. batch \subseteq edges  BY BatchesAreEdges
  <1>3. Callers(edges) \subseteq Ids(table')  BY <1>1 DEF IInv, ScanInv
  <1>4. calls' \subseteq Edge
    BY <1>1, <1>2 DEF IInv, TypeOK, ReplaceCalls, KeptByReplace, Manual
  <1>5. NoOrphans'
    <2> SUFFICES ASSUME NEW e \in calls', ~e.manual PROVE e.caller \in Ids(table')
      BY DEF NoOrphans
    <2>1. e \in edges  BY <1>1, <1>2 DEF ReplaceCalls, KeptByReplace, Manual
    <2> QED  BY <2>1, <1>3 DEF Callers
  <1>6. KeepsManual  BY <1>1, ManualReplaced DEF KeepsManual
  <1>7. \A f \in Files \ dirty : RowsOf(table', f) = disk[f]
    BY <1>1 DEF IInv, ScanInv
  <1> QED  BY <1>1, <1>3, <1>4, <1>5, <1>6, <1>7 DEF IInv, TypeOK

LEMMA AfterBatchStep ==
  ASSUME IInv, NEW batch, AfterBatch(batch)
  PROVE  /\ at' \in {"idle", "fullAppend"} /\ file' = file /\ rebuild' = rebuild
         /\ scanned' \subseteq Row /\ todo' \subseteq scanned'
         /\ changed' \subseteq Symbols /\ removed' \subseteq Symbols
         /\ edges' \subseteq edges /\ risky' \subseteq Symbols /\ taken' = {}
         /\ at' = "idle" => edges' = {}
  BY DEF AfterBatch, RunOver, IInv, TypeOK

LEMMA FullStoreStep ==
  ASSUME IInv, FullStore PROVE IInv' /\ KeepsManual
  <1>1. PICK batch \in NextBatches : Replaced(batch) /\ AfterBatch(batch)
    BY DEF FullStore
  <1>2. at = "fullCollect" /\ suspect' = risky /\ UNCHANGED diskVars
    BY DEF FullStore
  <1>3. /\ table' \subseteq Row /\ calls' \subseteq Edge
        /\ NoOrphans' /\ KeepsManual
        /\ Callers(edges) \subseteq Ids(table')
        /\ \A f \in Files \ dirty : RowsOf(table', f) = disk[f]
    BY <1>1, <1>2, ReplacedStep
  <1>4. /\ at' \in {"idle", "fullAppend"} /\ file' = file /\ rebuild' = rebuild
        /\ scanned' \subseteq Row /\ todo' \subseteq scanned'
        /\ changed' \subseteq Symbols /\ removed' \subseteq Symbols
        /\ edges' \subseteq edges /\ risky' \subseteq Symbols /\ taken' = {}
        /\ at' = "idle" => edges' = {}
    BY <1>1, AfterBatchStep
  <1>5. TypeOK'
    BY <1>2, <1>3, <1>4 DEF IInv, TypeOK, diskVars, RunStates, Manual
  <1>6. SymbolsMatch'  BY <1>2, <1>3 DEF SymbolsMatch, diskVars
  <1>7. ScanInv'
    <2>1. Callers(edges') \subseteq Ids(table')  BY <1>3, <1>4 DEF Callers
    <2> QED  BY <2>1, <1>4 DEF ScanInv
  <1> QED  BY <1>2, <1>3, <1>5, <1>6, <1>7 DEF IInv, diskVars

LEMMA FullAppendStep ==
  ASSUME IInv, FullAppend PROVE IInv' /\ KeepsManual
  <1>1. PICK batch \in NextBatches : calls' = calls \cup batch /\ AfterBatch(batch)
    BY DEF FullAppend
  <1>2. at = "fullAppend" /\ UNCHANGED <<diskVars, table, suspect>>
    BY DEF FullAppend
  <1>3. batch \subseteq edges  BY BatchesAreEdges
  <1>4. /\ at' \in {"idle", "fullAppend"} /\ file' = file /\ rebuild' = rebuild
        /\ scanned' \subseteq Row /\ todo' \subseteq scanned'
        /\ changed' \subseteq Symbols /\ removed' \subseteq Symbols
        /\ edges' \subseteq edges /\ risky' \subseteq Symbols /\ taken' = {}
        /\ at' = "idle" => edges' = {}
    BY <1>1, AfterBatchStep
  <1>5. TypeOK'
    BY <1>1, <1>2, <1>3, <1>4 DEF IInv, TypeOK, diskVars, RunStates, Manual
  <1>6. SymbolsMatch'
    BY <1>2, <1>4 DEF IInv, SymbolsMatch, ScanInv, diskVars
  <1>7. NoOrphans'
    BY <1>1, <1>2, <1>3 DEF IInv, NoOrphans, ScanInv, Callers
  <1>8. ScanInv'
    <2>1. Callers(edges') \subseteq Ids(table')
      BY <1>2, <1>4 DEF IInv, ScanInv, Callers
    <2> QED  BY <2>1, <1>4 DEF ScanInv
  <1>9. KeepsManual  BY <1>1 DEF KeepsManual, Manual
  <1> QED  BY <1>2, <1>5, <1>6, <1>7, <1>8, <1>9 DEF IInv, diskVars

\* A run that ended has nothing in progress.
LEMMA RunOverStep ==
  ASSUME IInv, RunOver
  PROVE  /\ at' = "idle" /\ file' \in Files /\ rebuild' \in BOOLEAN
         /\ scanned' = {} /\ todo' = {} /\ changed' = {} /\ removed' = {}
         /\ edges' = {} /\ risky' = {} /\ taken' = {}
         /\ ScanInv'
  BY DEF RunOver, IInv, TypeOK, ScanInv

LEMMA FullFailsStep ==
  ASSUME IInv, FullFails PROVE IInv' /\ KeepsManual
  <1>1. RunOver /\ UNCHANGED <<disk, saves>>  BY DEF FullFails
  <1>2. /\ at' = "idle" /\ file' \in Files /\ rebuild' \in BOOLEAN
        /\ scanned' = {} /\ todo' = {} /\ changed' = {} /\ removed' = {}
        /\ edges' = {} /\ risky' = {} /\ taken' = {}
        /\ ScanInv'
    BY <1>1, RunOverStep
  <1> DEFINE Stored ==
        /\ table' \subseteq Row /\ calls' \subseteq Edge
        /\ dirty' \subseteq Files /\ suspect' \subseteq Symbols
        /\ \A f \in Files \ dirty' : RowsOf(table', f) = disk[f]
        /\ NoOrphans' /\ KeepsManual
  <1>3. Stored
    <2>1. CASE at = "fullCollect" /\ dirty' = dirty \cup taken
                 /\ UNCHANGED <<table, calls, suspect>>
      BY <2>1 DEF IInv, TypeOK, SymbolsMatch, NoOrphans, KeepsManual, Manual
    <2>2. ASSUME at = "fullCollect", dirty' = dirty, NEW batch \in NextBatches,
                 Replaced(batch), suspect' = risky \cup Callers(edges \ batch)
          PROVE  Stored
      <3>1. /\ table' \subseteq Row /\ calls' \subseteq Edge
            /\ NoOrphans' /\ KeepsManual
            /\ \A f \in Files \ dirty : RowsOf(table', f) = disk[f]
        BY <2>2, ReplacedStep
      <3>2. suspect' \subseteq Symbols
        BY <2>2 DEF IInv, TypeOK, Callers, Edge
      <3> QED  BY <2>2, <3>1, <3>2 DEF IInv, TypeOK
    <2>3. ASSUME at = "fullAppend", UNCHANGED <<table, dirty>>,
                 NEW batch \in {{}} \cup NextBatches, calls' = calls \cup batch,
                 suspect' = suspect \cup Callers(edges \ batch)
          PROVE  Stored
      <3>1. batch \subseteq edges  BY <2>3, BatchesAreEdges
      <3>2. suspect' \subseteq Symbols
        BY <2>3 DEF IInv, TypeOK, Callers, Edge
      <3>3. NoOrphans'
        BY <2>3, <3>1 DEF IInv, NoOrphans, ScanInv, Callers
      <3>4. \A f \in Files \ dirty' : RowsOf(table', f) = disk[f]
        BY <2>3 DEF IInv, SymbolsMatch, ScanInv
      <3>5. KeepsManual  BY <2>3 DEF KeepsManual, Manual
      <3>6. calls' \subseteq Edge  BY <2>3, <3>1 DEF IInv, TypeOK
      <3> QED  BY <2>3, <3>2, <3>3, <3>4, <3>5, <3>6 DEF IInv, TypeOK
    <2> QED  BY <2>1, <2>2, <2>3 DEF FullFails
  <1>4. TypeOK'
    BY <1>1, <1>2, <1>3 DEF IInv, TypeOK, RunStates, Manual
  <1>5. SymbolsMatch'  BY <1>1, <1>3 DEF SymbolsMatch
  <1> QED  BY <1>1, <1>2, <1>3, <1>4, <1>5 DEF IInv

-----------------------------------------------------------------------------
(* Indexing on save.                                                       *)

LEMMA OnSaveScanStep ==
  ASSUME IInv, NEW f \in Files, OnSaveScan(f) PROVE IInv' /\ KeepsManual
  <1>1. /\ at = "idle" /\ at' = "collect" /\ file' = f
        /\ scanned' = disk[f]
        /\ changed' = ChangedIds(table, f, disk[f])
        /\ removed' = RemovedIds(table, f, disk[f])
        /\ todo' = {r \in disk[f] : r.id \in changed'}
        /\ dirty' = dirty \ {f} /\ taken' = dirty \cap {f}
        /\ UNCHANGED <<disk, saves, table, calls, rebuild, edges, risky, suspect>>
    BY DEF OnSaveScan
  <1>2. TypeOK  BY DEF IInv
  <1>3. disk[f] \subseteq Row /\ \A r \in disk[f] : FileOf[r.id] = f
    BY <1>2, DiskRows
  <1>4. TypeOK'
    <2>1. changed' \subseteq Symbols  BY <1>1, <1>3 DEF ChangedIds, Row
    <2>2. removed' \subseteq Symbols
      BY <1>1, <1>2 DEF RemovedIds, OldRows, RowsOf, Ids, Row, TypeOK
    <2> QED  BY <2>1, <2>2, <1>1, <1>2, <1>3 DEF TypeOK, RunStates
  <1>5. SymbolsMatch'
    <2>1. \A g \in Files \ dirty : RowsOf(table, g) = disk[g]
      BY <1>1 DEF IInv, SymbolsMatch, ScanInv
    <2> QED  BY <2>1, <1>1 DEF SymbolsMatch
  <1>6. NoOrphans'  BY <1>1 DEF IInv, NoOrphans
  <1>7. ScanInv'
    <2>1. Callers(edges') = {}  BY <1>1 DEF IInv, ScanInv, Callers
    <2> QED  BY <2>1, <1>1, <1>3 DEF ScanInv
  <1>8. KeepsManual  BY <1>1 DEF KeepsManual, Manual
  <1> QED  BY <1>1, <1>4, <1>5, <1>6, <1>7, <1>8 DEF IInv

\* index.storeFileDelta: the rows of the file become the scanned ones, and no
\* method that goes leaves an edge of its own.
LEMMA DeltaStep ==
  ASSUME IInv, at = "collect", Delta
  PROVE  /\ table' \subseteq Row /\ calls' \subseteq Edge /\ suspect' \subseteq Symbols
         /\ NoOrphans' /\ KeepsManual
         /\ RowsOf(table', file) = scanned
         /\ \A g \in Files : g # file => RowsOf(table', g) = RowsOf(table, g)
  <1>1. /\ table' = DeltaSymbols(table, file, scanned)
        /\ calls' = DeltaCalls(calls, changed, removed, edges)
        /\ suspect' = (suspect \ changed) \cup risky
                        \cup {r.id : r \in {r \in table' : r.body \cap Unnoticed # {}}}
    BY DEF Delta
  <1>2. /\ scanned \in SUBSET Row /\ file \in Files /\ table \in SUBSET Row
        /\ \A r \in scanned : FileOf[r.id] = file
    BY DEF IInv, TypeOK, ScanInv
  <1>3. /\ table' \subseteq Row /\ scanned \subseteq table'
        /\ RowsOf(table', file) = scanned
        /\ \A g \in Files : g # file => RowsOf(table', g) = RowsOf(table, g)
        /\ \A r \in table : FileOf[r.id] # file => r \in table'
    <2>1. PICK after : after = DeltaSymbols(table, file, scanned)  OBVIOUS
    <2>2. /\ after \subseteq Row /\ scanned \subseteq after
          /\ RowsOf(after, file) = scanned
          /\ \A g \in Files : g # file => RowsOf(after, g) = RowsOf(table, g)
          /\ \A r \in table : FileOf[r.id] # file => r \in after
      <3>1. RowsIn(scanned, file) /\ AreRows(table)  BY <1>2 DEF RowsIn, AreRows
      <3> QED  BY <1>2, <2>1, <3>1, DeltaOfOneFile
    <2> QED  BY <1>1, <2>1, <2>2
  <1>4. suspect' \subseteq Symbols
    <2>1. {r.id : r \in {r \in table' : r.body \cap Unnoticed # {}}} \subseteq Symbols
      BY <1>3 DEF Row
    <2> QED  BY <2>1, <1>1 DEF IInv, TypeOK
  <1>5. calls' \subseteq Edge
    BY <1>1 DEF IInv, TypeOK, DeltaCalls
  <1>6. NoOrphans'
    <2> SUFFICES ASSUME NEW e \in calls', ~e.manual, KindOf[e.caller] # "function"
                 PROVE  e.caller \in Ids(table')
      BY DEF NoOrphans
    <2>1. CASE e \in edges
      <3>1. e.caller \in Ids(scanned)  BY <2>1 DEF IInv, ScanInv, Callers
      <3> QED  BY <3>1, <1>3 DEF Ids
    <2>2. CASE e \in calls \ StaleCalls(calls, changed, removed)
      <3>1. e.caller \in Ids(table) /\ e.caller \notin removed /\ e.caller \in Symbols
        BY <2>2 DEF IInv, NoOrphans, StaleCalls, TypeOK, Edge
      <3>2. PICK r \in table : r.id = e.caller  BY <3>1 DEF Ids
      <3>3. CASE FileOf[r.id] # file  BY <3>2, <3>3, <1>3 DEF Ids
      <3>4. CASE FileOf[r.id] = file
        <4>1. KindOf[r.id] = "method"  BY <3>1, <3>2, KindOfAssumption
        <4>2. r.id \in Ids(OldRows(table, file))
          BY <3>4, <4>1 DEF OldRows, RowsOf, Ids
        <4>3. removed = Ids(OldRows(table, file)) \ Ids(scanned)
          BY DEF IInv, ScanInv, RemovedIds
        <4>4. r.id \in Ids(scanned)  BY <4>2, <4>3, <3>1, <3>2
        <4> QED  BY <4>4, <3>2, <1>3 DEF Ids
      <3> QED  BY <3>3, <3>4
    <2> QED  BY <2>1, <2>2, <1>1 DEF DeltaCalls
  <1>7. KeepsManual
    BY <1>1 DEF KeepsManual, DeltaCalls, StaleCalls, Manual
  <1> QED  BY <1>3, <1>4, <1>5, <1>6, <1>7

LEMMA OnSaveStoreStep ==
  ASSUME IInv, OnSaveStore PROVE IInv' /\ KeepsManual
  <1>1. at = "collect" /\ Delta /\ RunOver /\ UNCHANGED diskVars  BY DEF OnSaveStore
  <1>2. /\ at' = "idle" /\ file' \in Files /\ rebuild' \in BOOLEAN
        /\ scanned' = {} /\ todo' = {} /\ changed' = {} /\ removed' = {}
        /\ edges' = {} /\ risky' = {} /\ taken' = {}
        /\ ScanInv'
    BY <1>1, RunOverStep
  <1>3. /\ table' \subseteq Row /\ calls' \subseteq Edge /\ suspect' \subseteq Symbols
        /\ NoOrphans' /\ KeepsManual
        /\ RowsOf(table', file) = scanned
        /\ \A g \in Files : g # file => RowsOf(table', g) = RowsOf(table, g)
    BY <1>1, DeltaStep
  <1>4. TypeOK'
    BY <1>1, <1>2, <1>3 DEF IInv, TypeOK, RunStates, Manual, diskVars
  <1>5. SymbolsMatch'
    <2> SUFFICES ASSUME NEW g \in Files \ dirty PROVE RowsOf(table', g) = disk[g]
      BY <1>1 DEF SymbolsMatch, diskVars
    <2>1. CASE g = file  BY <2>1, <1>1, <1>3 DEF IInv, ScanInv
    <2>2. CASE g # file  BY <2>2, <1>1, <1>3 DEF IInv, SymbolsMatch, ScanInv
    <2> QED  BY <2>1, <2>2
  <1> QED  BY <1>1, <1>2, <1>3, <1>4, <1>5 DEF IInv, diskVars

LEMMA OnSaveFailsStep ==
  ASSUME IInv, OnSaveFails PROVE IInv' /\ KeepsManual
  <1>1. /\ at = "collect" /\ RunOver /\ dirty' = dirty \cup taken
        /\ UNCHANGED <<disk, saves>>
        /\ Delta \/ UNCHANGED <<table, calls, suspect>>
    BY DEF OnSaveFails
  <1>2. /\ at' = "idle" /\ file' \in Files /\ rebuild' \in BOOLEAN
        /\ scanned' = {} /\ todo' = {} /\ changed' = {} /\ removed' = {}
        /\ edges' = {} /\ risky' = {} /\ taken' = {}
        /\ ScanInv'
    BY <1>1, RunOverStep
  <1>3. /\ table' \subseteq Row /\ calls' \subseteq Edge /\ suspect' \subseteq Symbols
        /\ NoOrphans' /\ KeepsManual
        /\ \A g \in Files : RowsOf(table', g) = RowsOf(table, g) \/ (g = file /\ Delta)
        /\ Delta => RowsOf(table', file) = scanned
    <2>1. CASE Delta  BY <2>1, <1>1, DeltaStep
    <2>2. CASE ~Delta /\ UNCHANGED <<table, calls, suspect>>
      BY <2>2 DEF IInv, TypeOK, NoOrphans, KeepsManual, Manual
    <2> QED  BY <2>1, <2>2, <1>1
  <1>4. TypeOK'
    BY <1>1, <1>2, <1>3 DEF IInv, TypeOK, RunStates, Manual
  <1>5. SymbolsMatch'
    <2> SUFFICES ASSUME NEW g \in Files \ dirty' PROVE RowsOf(table', g) = disk[g]
      BY <1>1 DEF SymbolsMatch
    <2>1. g \notin dirty /\ g \notin taken  BY <1>1
    <2>2. CASE g = file /\ Delta  BY <2>1, <2>2, <1>1, <1>3 DEF IInv, ScanInv
    <2>3. CASE ~(g = file /\ Delta)  BY <2>1, <2>3, <1>3 DEF IInv, SymbolsMatch
    <2> QED  BY <2>2, <2>3
  <1> QED  BY <1>1, <1>2, <1>3, <1>4, <1>5 DEF IInv

-----------------------------------------------------------------------------
(* The user.                                                               *)

LEMMA UserStep ==
  ASSUME IInv, ClearSymbols \/ CreateEdge \/ DeleteEdge PROVE IInv' /\ KeepsManual
  <1>1. CASE ClearSymbols
    <2>1. /\ table' = {} /\ calls' = {} /\ suspect' = {} /\ dirty' = Files
          /\ at = "idle" /\ UNCHANGED <<disk, saves>> /\ UNCHANGED runVars
      BY <1>1 DEF ClearSymbols, ReplaceCalls, KeptByReplace
    <2>2. TypeOK'  BY <2>1 DEF IInv, TypeOK, runVars
    <2>3. SymbolsMatch' /\ NoOrphans' /\ KeepsManual
      BY <1>1, <2>1 DEF SymbolsMatch, NoOrphans, KeepsManual
    <2>4. ScanInv'  BY <2>1 DEF IInv, ScanInv, runVars
    <2> QED  BY <2>1, <2>2, <2>3, <2>4 DEF IInv
  <1>2. CASE CreateEdge
    <2>1. PICK p \in Drawn :
             calls' = calls \cup {[caller |-> p[1], callee |-> p[2], manual |-> TRUE]}
      BY <1>2 DEF CreateEdge
    <2>2. UNCHANGED <<diskVars, table, runVars, suspect>>  BY <1>2 DEF CreateEdge
    <2>3. [caller |-> p[1], callee |-> p[2], manual |-> TRUE] \in Edge
      BY DrawnAssumption DEF Edge
    <2>4. TypeOK'  BY <2>1, <2>2, <2>3 DEF IInv, TypeOK, diskVars, runVars
    <2>5. NoOrphans'  BY <2>1, <2>2 DEF IInv, NoOrphans
    <2>6. SymbolsMatch' /\ ScanInv'
      BY <2>2 DEF IInv, SymbolsMatch, ScanInv, diskVars, runVars
    <2>7. KeepsManual  BY <2>1 DEF KeepsManual, Manual
    <2> QED  BY <2>2, <2>4, <2>5, <2>6, <2>7 DEF IInv, diskVars
  <1>3. CASE DeleteEdge
    <2>1. calls' \subseteq calls /\ UNCHANGED <<diskVars, table, runVars, suspect>>
      BY <1>3 DEF DeleteEdge
    <2>2. TypeOK'  BY <2>1 DEF IInv, TypeOK, diskVars, runVars
    <2>3. NoOrphans'  BY <2>1 DEF IInv, NoOrphans
    <2>4. SymbolsMatch' /\ ScanInv'
      BY <2>1 DEF IInv, SymbolsMatch, ScanInv, diskVars, runVars
    <2> QED  BY <1>3, <2>1, <2>2, <2>3, <2>4 DEF IInv, diskVars, KeepsManual
  <1> QED  BY <1>1, <1>2, <1>3

LEMMA NextIInv == IInv /\ [Next]_vars => IInv' /\ (KeepsManual \/ UNCHANGED vars)
  <1> SUFFICES ASSUME IInv, [Next]_vars PROVE IInv' /\ (KeepsManual \/ UNCHANGED vars)
    OBVIOUS
  <1>1. CASE UNCHANGED vars
    BY <1>1 DEF vars, diskVars, runVars, IInv, TypeOK, SymbolsMatch, NoOrphans, ScanInv
  <1>2. CASE \E f \in Files : Save(f)  BY <1>2, SaveStep
  <1>3. CASE FullStep
    BY <1>3, FullScanStep, FullCollectStep, FullStoreStep, FullAppendStep, FullFailsStep
       DEF FullStep
  <1>4. CASE OnSaveStep
    BY <1>4, OnSaveScanStep, OnSaveCollectStep, OnSaveStoreStep, OnSaveFailsStep
       DEF OnSaveStep
  <1>5. CASE CollectNothing  BY <1>5, CollectNothingStep
  <1>6. CASE ClearSymbols \/ CreateEdge \/ DeleteEdge  BY <1>6, UserStep
  <1> QED  BY <1>1, <1>2, <1>3, <1>4, <1>5, <1>6 DEF Next

-----------------------------------------------------------------------------
(* The edges are the calls of the source.  ExactInv speaks only of what    *)
(* the run and the tables hold, so saving a file does not disturb it; what *)
(* is on disk matters in one place, where a call is resolved.              *)

\* The indexed edges out of a symbol, and that they are what the body of its
\* row calls among the known ids.
Callees(es, id) == {e.callee : e \in {e \in es : ~e.manual /\ e.caller = id}}
Exact(es, r, ids) == Callees(es, r.id) = r.body \cap ids

\* One row for each id.
IdsAreUnique(rows) == \A r, q \in rows : r.id = q.id => r = q

\* The stored edges, with es those a full run still has to append.
StoredInv(es) == \A r \in table : r.id \in suspect \/ Exact(calls \cup es, r, Ids(table))

\* The edges collected so far by a full run.
FullInv ==
    \A r \in scanned :
        /\ r \in todo => r.id \notin Callers(edges)
        /\ r \notin todo => r.id \in risky \/ Exact(edges, r, Ids(scanned))

\* The edges collected so far by an on-save run, and that the callees of what
\* is collected for certain do not go with the delta.
OnSaveInv ==
    /\ changed = ChangedIds(table, file, scanned)
    /\ Callers(edges) \subseteq changed
    /\ \A r \in todo : r.id \in changed
    /\ \A r \in scanned : r.id \in changed =>
          /\ r \in todo => r.id \notin Callers(edges)
          /\ r \notin todo =>
                \/ r.id \in risky
                \/ Exact(edges, r, Ids(table)) /\ r.body \cap removed = {}

ExactInv ==
    /\ at # "fullAppend" => StoredInv({})
    /\ at = "fullAppend" => StoredInv(edges)
    /\ at \in {"fullCollect", "collect"} => IdsAreUnique(scanned)
    /\ at = "fullCollect" => FullInv
    /\ at = "collect" => OnSaveInv

\* Files laid out as the rows a position is resolved by have the rows' symbols.
LEMMA LaidOut ==
  ASSUME NEW f \in Files, NEW now \in Contents[f], NEW rows \in SUBSET Row,
         Layout(RowsOf(rows, f)) = Layout(now)
  PROVE  /\ \A q \in RowsOf(rows, f) : \E d \in now :
               d.id = q.id /\ d.line = q.line /\ d.end = q.end
         /\ \A d \in now : \E q \in RowsOf(rows, f) :
               d.id = q.id /\ d.line = q.line /\ d.end = q.end
         /\ Ids(RowsOf(rows, f)) = Ids(now)
  <1>1. \A q \in RowsOf(rows, f) : \E d \in now :
           d.id = q.id /\ d.line = q.line /\ d.end = q.end
    <2> SUFFICES ASSUME NEW q \in RowsOf(rows, f)
                 PROVE  \E d \in now : d.id = q.id /\ d.line = q.line /\ d.end = q.end
      OBVIOUS
    <2>1. <<q.id, q.line, q.end>> \in Layout(now)  BY DEF Layout
    <2> QED  BY <2>1 DEF Layout
  <1>2. \A d \in now : \E q \in RowsOf(rows, f) :
           d.id = q.id /\ d.line = q.line /\ d.end = q.end
    <2> SUFFICES ASSUME NEW d \in now
                 PROVE  \E q \in RowsOf(rows, f) :
                           d.id = q.id /\ d.line = q.line /\ d.end = q.end
      OBVIOUS
    <2>1. <<d.id, d.line, d.end>> \in Layout(RowsOf(rows, f))  BY DEF Layout
    <2> QED  BY <2>1 DEF Layout
  <1> QED  BY <1>1, <1>2 DEF Ids

\* The first line of a symbol resolves to that symbol alone.
Finds(rows, f, m) ==
    ResolveByInterval(rows, f, m.line) = {m.id} /\ ResolveByQuery(rows, f, m.line) = {m.id}

LEMMA FirstLine ==
  ASSUME NEW f \in Files, NEW now \in Contents[f], NEW rows \in SUBSET Row,
         Layout(RowsOf(rows, f)) = Layout(now), NEW m \in now
  PROVE  Finds(rows, f, m)
  <1>1. /\ now \subseteq Row
        /\ \A d \in now : d.line \in Nat /\ d.end \in Nat /\ 0 < d.line /\ d.line <= d.end
        /\ \A d, c \in now : d.line = c.line => d = c
    BY ContentsAssumption DEF WellFormed, Row
  <1>2. PICK r \in RowsOf(rows, f) : m.id = r.id /\ m.line = r.line /\ m.end = r.end
    BY LaidOut
  <1>3. \A q \in RowsOf(rows, f) : LastLine(q) = q.end
    <2> SUFFICES ASSUME NEW q \in RowsOf(rows, f) PROVE LastLine(q) = q.end
      OBVIOUS
    <2>1. PICK d \in now : d.id = q.id /\ d.line = q.line /\ d.end = q.end
      BY LaidOut
    <2> QED  BY <1>1, <2>1 DEF LastLine
  <1>4. r \in Around(rows, f, m.line)  BY <1>1, <1>2, <1>3 DEF Around
  <1>5. Span(r) = m.end - m.line  BY <1>2, <1>3 DEF Span
  <1>6. ASSUME NEW q \in Around(rows, f, m.line)
        PROVE  /\ Span(q) \in Nat
               /\ \/ q.id = m.id /\ Span(r) = Span(q) /\ r.line = q.line
                  \/ Span(r) < Span(q)
    <2>1. q \in RowsOf(rows, f) /\ q.line <= m.line /\ m.line <= q.end
      BY <1>3 DEF Around
    <2>2. PICK d \in now : d.id = q.id /\ d.line = q.line /\ d.end = q.end
      BY <2>1, LaidOut
    <2>3. Span(q) = d.end - d.line  BY <1>3, <2>1, <2>2 DEF Span
    <2>4. CASE d.line = m.line
      <3>1. d = m  BY <1>1, <2>4
      <3> QED  BY <3>1, <2>2, <2>3, <1>1, <1>2, <1>5
    <2>5. CASE d.line # m.line
      <3>1. d.line < m.line /\ m.line <= d.end  BY <1>1, <2>1, <2>2, <2>5
      <3>2. m.end <= d.end  BY <3>1, NestingAssumption
      <3> QED  BY <3>1, <3>2, <1>1, <1>5, <2>3
    <2> QED  BY <2>4, <2>5
  <1>7. Span(r) \in Nat /\ r.line \in Nat  BY <1>1, <1>2, <1>5
  <1>8. m.id \in ResolveByInterval(rows, f, m.line)
    <2>1. \A q \in Around(rows, f, m.line) :
             Span(r) < Span(q) \/ (Span(r) = Span(q) /\ r.line <= q.line)
      BY <1>6, <1>7
    <2> QED  BY <2>1, <1>2, <1>4 DEF ResolveByInterval
  <1>9. ASSUME NEW id \in ResolveByInterval(rows, f, m.line) PROVE id = m.id
    <2>1. PICK q \in Around(rows, f, m.line) :
             /\ id = q.id
             /\ \A p \in Around(rows, f, m.line) :
                   Span(q) < Span(p) \/ (Span(q) = Span(p) /\ q.line <= p.line)
      BY <1>9 DEF ResolveByInterval
    <2>2. Span(q) < Span(r) \/ Span(q) = Span(r)  BY <1>4, <2>1
    <2> QED  BY <1>6, <1>7, <2>1, <2>2
  <1>10. ResolveByQuery(rows, f, m.line) = {m.id}
    <2>3. r \in Spanning(rows, f, m.line)  BY <1>1, <1>2 DEF Spanning
    <2>4. \A q \in Spanning(rows, f, m.line) : q \in RowsOf(rows, f) /\ q.line <= m.line
      BY DEF Spanning
    <2>5. m.id \in ResolveByQuery(rows, f, m.line)
      BY <1>2, <2>3, <2>4 DEF ResolveByQuery
    <2>6. ASSUME NEW q \in Spanning(rows, f, m.line),
                 \A p \in Spanning(rows, f, m.line) : p.line <= q.line
          PROVE  q.id = m.id
      <3>1. PICK d \in now : d.id = q.id /\ d.line = q.line /\ d.end = q.end
        BY <2>4, LaidOut
      <3>2. m.line <= q.line /\ q.line <= m.line  BY <1>2, <2>3, <2>4, <2>6
      <3>3. d.line = m.line  BY <1>1, <3>1, <3>2
      <3> QED  BY <1>1, <3>1, <3>3
    <2> QED  BY <2>5, <2>6 DEF ResolveByQuery
  <1> QED  BY <1>8, <1>9, <1>10 DEF Finds

\* The calls of a symbol that is collected for certain resolve to exactly the
\* callees its body names among the rows positions are resolved by.
LEMMA CalledNow ==
  ASSUME TypeOK, NEW r \in Row, r \in scanned, NEW view, ~Uncertain(r, view)
  PROVE  /\ CalleesNow(r) = {m \in OnDisk : m.id \in r.body}
         /\ \A id \in r.body : Layout(RowsOf(view, FileOf[id])) = Layout(disk[FileOf[id]])
  <1> DEFINE f == FileOf[r.id]
  <1>1. f \in Files  BY FileOfAssumption DEF Row
  <1>2. disk[f] = RowsOf(scanned, f)  BY DEF Uncertain
  <1>3. r \in disk[f]  BY <1>2 DEF RowsOf
  <1>4. \A d \in disk[f] : d.line = r.line => d = r
    BY <1>1, <1>3, ContentsAssumption DEF TypeOK, WellFormed
  <1>5. CalleesNow(r) = {m \in OnDisk : m.id \in r.body}
    BY <1>3, <1>4 DEF CalleesNow
  <1>6. \A id \in r.body : Layout(RowsOf(view, FileOf[id])) = Layout(disk[FileOf[id]])
    BY DEF Uncertain
  <1> QED  BY <1>5, <1>6

LEMMA CertainCallees ==
  ASSUME TypeOK, NEW r \in Row, r \in scanned, NEW view \in SUBSET Row,
         ~Uncertain(r, view)
  PROVE  /\ UNION {ResolveByInterval(view, FileOf[m.id], m.line) : m \in CalleesNow(r)}
              = r.body \cap Ids(view)
         /\ UNION {ResolveByQuery(view, FileOf[m.id], m.line) : m \in CalleesNow(r)}
              = r.body \cap Ids(view)
  <1>1. /\ CalleesNow(r) = {m \in OnDisk : m.id \in r.body}
        /\ \A id \in r.body : Layout(RowsOf(view, FileOf[id])) = Layout(disk[FileOf[id]])
    BY CalledNow
  <1>2. \A m \in OnDisk : FileOf[m.id] \in Files /\ m \in disk[FileOf[m.id]]
    BY DiskRows DEF OnDisk
  <1>3. ASSUME NEW m \in CalleesNow(r)
        PROVE  /\ ResolveByInterval(view, FileOf[m.id], m.line) = {m.id}
               /\ ResolveByQuery(view, FileOf[m.id], m.line) = {m.id}
    <2>1. PICK f \in Files : f = FileOf[m.id]  BY <1>1, <1>2, <1>3
    <2>2. PICK now \in Contents[f] : m \in now /\ Layout(RowsOf(view, f)) = Layout(now)
      BY <1>1, <1>2, <1>3, <2>1 DEF TypeOK
    <2>3. Finds(view, f, m)  BY <2>2, FirstLine
    <2> QED  BY <2>1, <2>3 DEF Finds
  <1>4. {m.id : m \in CalleesNow(r)} = r.body \cap Ids(view)
    <2>1. ASSUME NEW m \in CalleesNow(r) PROVE m.id \in r.body \cap Ids(view)
      <3>1. /\ FileOf[m.id] \in Files /\ m \in disk[FileOf[m.id]]
            /\ disk[FileOf[m.id]] \in Contents[FileOf[m.id]]
            /\ Layout(RowsOf(view, FileOf[m.id])) = Layout(disk[FileOf[m.id]])
            /\ m.id \in r.body
        BY <1>1, <1>2, <2>1 DEF TypeOK
      <3>2. m.id \in Ids(RowsOf(view, FileOf[m.id]))
        BY <3>1, LaidOut DEF Ids
      <3> QED  BY <3>1, <3>2 DEF Ids, RowsOf
    <2>2. ASSUME NEW id \in r.body \cap Ids(view)
          PROVE  \E m \in CalleesNow(r) : m.id = id
      <3>1. PICK q \in view : q.id = id  BY DEF Ids
      <3>2. /\ FileOf[id] \in Files /\ disk[FileOf[id]] \in Contents[FileOf[id]]
            /\ Layout(RowsOf(view, FileOf[id])) = Layout(disk[FileOf[id]])
            /\ q \in RowsOf(view, FileOf[id])
        BY <1>1, <3>1, FileOfAssumption DEF TypeOK, Row, RowsOf
      <3>3. PICK m \in disk[FileOf[id]] : m.id = q.id
        BY <3>2, LaidOut
      <3> QED  BY <1>1, <3>1, <3>2, <3>3 DEF OnDisk
    <2> QED  BY <2>1, <2>2
  <1>5. /\ {ResolveByInterval(view, FileOf[m.id], m.line) : m \in CalleesNow(r)}
             = {{m.id} : m \in CalleesNow(r)}
        /\ {ResolveByQuery(view, FileOf[m.id], m.line) : m \in CalleesNow(r)}
             = {{m.id} : m \in CalleesNow(r)}
    BY <1>3
  <1>6. UNION {{m.id} : m \in CalleesNow(r)} = {m.id : m \in CalleesNow(r)}
    OBVIOUS
  <1> QED  BY <1>4, <1>5, <1>6

\* The edges after one symbol is collected: its own are new, the others stay.
LEMMA CalleesAfter ==
  ASSUME NEW r, NEW callees, NEW view, Collected(r, callees, view)
  PROVE  /\ r.id \notin Callers(edges) => Callees(edges', r.id) = callees
         /\ \A other : other # r.id => Callees(edges', other) = Callees(edges, other)
         /\ Callers(edges') \subseteq Callers(edges) \cup {r.id}
  <1> DEFINE new == {Indexed(r.id, c) : c \in callees}
  <1>1. edges' = edges \cup new  BY DEF Collected
  <1>2. \A c : /\ Indexed(r.id, c).caller = r.id /\ Indexed(r.id, c).callee = c
               /\ Indexed(r.id, c).manual = FALSE
    BY DEF Indexed
  <1>3. ASSUME r.id \notin Callers(edges) PROVE Callees(edges', r.id) = callees
    <2>1. \A e \in edges : e.caller # r.id  BY <1>3 DEF Callers
    <2>2. ASSUME NEW c \in callees PROVE c \in Callees(edges', r.id)
      <3>1. Indexed(r.id, c) \in edges'  BY <1>1
      <3> QED  BY <3>1, <1>2 DEF Callees
    <2>3. ASSUME NEW c \in Callees(edges', r.id) PROVE c \in callees
      <3>1. PICK e \in edges' : e.caller = r.id /\ e.callee = c  BY DEF Callees
      <3>2. e \in new  BY <3>1, <2>1, <1>1
      <3> QED  BY <3>1, <3>2, <1>2
    <2> QED  BY <2>2, <2>3
  <1>4. ASSUME NEW other, other # r.id
        PROVE  Callees(edges', other) = Callees(edges, other)
    <2>1. \A e \in new : e.caller # other  BY <1>2, <1>4
    <2>2. {e \in edges' : ~e.manual /\ e.caller = other}
            = {e \in edges : ~e.manual /\ e.caller = other}
      BY <2>1, <1>1
    <2> QED  BY <2>2 DEF Callees
  <1>5. Callers(edges') \subseteq Callers(edges) \cup {r.id}
    <2>1. \A e \in new : e.caller = r.id  BY <1>2
    <2> QED  BY <2>1, <1>1 DEF Callers
  <1> QED  BY <1>3, <1>4, <1>5

-----------------------------------------------------------------------------
LEMMA InitExact == Init => ExactInv
  BY DEF Init, ExactInv, StoredInv

\* Nothing ExactInv speaks of changes.
LEMMA ExactUntouched ==
  ASSUME ExactInv, UNCHANGED <<table, calls, runVars, suspect>>
  PROVE  ExactInv'
  BY DEF ExactInv, StoredInv, FullInv, OnSaveInv, Exact, Callees, IdsAreUnique, Callers,
         runVars

\* Edges the user draws or erases are not of the index.
LEMMA ManualAside ==
  ASSUME ExactInv, UNCHANGED <<table, runVars, suspect>>,
         {e \in calls' : ~e.manual} = {e \in calls : ~e.manual}
  PROVE  ExactInv'
  <1>1. \A es, id : Callees(calls' \cup es, id) = Callees(calls \cup es, id)
    <2> SUFFICES ASSUME NEW es, NEW id
                 PROVE  Callees(calls' \cup es, id) = Callees(calls \cup es, id)
      OBVIOUS
    <2>1. {e \in calls' \cup es : ~e.manual /\ e.caller = id}
            = {e \in calls \cup es : ~e.manual /\ e.caller = id}
      OBVIOUS
    <2> QED  BY <2>1 DEF Callees
  <1>2. \A es : StoredInv(es) => \A r \in table' :
            r.id \in suspect' \/ Exact(calls' \cup es, r, Ids(table'))
    BY <1>1 DEF StoredInv, Exact
  <1>3. /\ at' # "fullAppend" => StoredInv({})'
        /\ at' = "fullAppend" => StoredInv(edges)'
    BY <1>2 DEF ExactInv, StoredInv, runVars
  <1>4. /\ at' \in {"fullCollect", "collect"} => IdsAreUnique(scanned)'
        /\ at' = "fullCollect" => FullInv'
        /\ at' = "collect" => OnSaveInv'
    BY DEF ExactInv, FullInv, OnSaveInv, Exact, Callees, IdsAreUnique, Callers, runVars
  <1> QED  BY <1>3, <1>4 DEF ExactInv

-----------------------------------------------------------------------------
(* Collecting.                                                             *)

LEMMA CollectNothingExact ==
  ASSUME IInv, ExactInv, CollectNothing PROVE ExactInv'
  <1>1. PICK r \in todo : todo' = todo \ {r} /\ risky' = risky \cup {r.id}
    BY DEF CollectNothing
  <1>2. /\ at \in {"fullCollect", "collect"}
        /\ UNCHANGED <<table, calls, at, file, scanned, changed, removed, edges, suspect>>
    BY DEF CollectNothing
  <1>3. /\ at' # "fullAppend" => StoredInv({})'
        /\ at' = "fullAppend" => StoredInv(edges)'
        /\ at' \in {"fullCollect", "collect"} => IdsAreUnique(scanned)'
    BY <1>2 DEF ExactInv, StoredInv, Exact, Callees, IdsAreUnique
  <1>4. at' = "fullCollect" => FullInv'
    BY <1>1, <1>2 DEF ExactInv, FullInv, Exact, Callees, Callers
  <1>5. at' = "collect" => OnSaveInv'
    BY <1>1, <1>2 DEF ExactInv, OnSaveInv, Exact, Callees, Callers
  <1> QED  BY <1>3, <1>4, <1>5 DEF ExactInv

LEMMA FullCollectExact ==
  ASSUME IInv, ExactInv, FullCollect PROVE ExactInv'
  <1>1. PICK r \in todo : \E callees :
           /\ callees = UNION {ResolveByInterval(scanned, FileOf[m.id], m.line) :
                               m \in CalleesNow(r)}
           /\ Collected(r, callees, scanned)
    BY DEF FullCollect
  <1>2. PICK callees :
           /\ callees = UNION {ResolveByInterval(scanned, FileOf[m.id], m.line) :
                               m \in CalleesNow(r)}
           /\ Collected(r, callees, scanned)
    BY <1>1
  <1>3. /\ at = "fullCollect"
        /\ UNCHANGED <<table, calls, at, file, scanned, changed, removed, suspect>>
    BY DEF FullCollect
  <1>4. /\ todo' = todo \ {r}
        /\ edges' = edges \cup {Indexed(r.id, id) : id \in callees}
        /\ risky' = IF Uncertain(r, scanned) THEN risky \cup {r.id} ELSE risky
    BY <1>2 DEF Collected
  <1>5. TypeOK /\ r \in scanned /\ r \in Row /\ scanned \in SUBSET Row /\ IdsAreUnique(scanned)
        /\ FullInv /\ StoredInv({})
    BY <1>3 DEF IInv, TypeOK, ExactInv
  <1>6. ~Uncertain(r, scanned) => callees = r.body \cap Ids(scanned)
    BY <1>2, <1>5, CertainCallees
  <1>7. /\ r.id \notin Callers(edges)
        /\ \A q \in scanned : q # r => q.id # r.id
    BY <1>5 DEF FullInv, IdsAreUnique
  <1>8. /\ Callees(edges', r.id) = callees
        /\ \A id : id # r.id => Callees(edges', id) = Callees(edges, id)
        /\ Callers(edges') \subseteq Callers(edges) \cup {r.id}
    BY <1>2, <1>7, CalleesAfter
  <1>9. FullInv'
    <2> SUFFICES ASSUME NEW q \in scanned
                 PROVE  /\ q \in todo' => q.id \notin Callers(edges')
                        /\ q \notin todo' =>
                             q.id \in risky' \/ Exact(edges', q, Ids(scanned))
      BY <1>3 DEF FullInv, Exact, Callees, Callers
    <2>1. CASE q = r
      BY <2>1, <1>4, <1>6, <1>8 DEF Exact
    <2>2. CASE q # r
      <3>1. q.id # r.id /\ Callees(edges', q.id) = Callees(edges, q.id)
        BY <2>2, <1>7, <1>8
      <3>2. /\ q \in todo => q.id \notin Callers(edges)
            /\ q \notin todo => q.id \in risky \/ Exact(edges, q, Ids(scanned))
        BY <1>5 DEF FullInv
      <3> QED  BY <2>2, <3>1, <3>2, <1>4, <1>8 DEF Exact
    <2> QED  BY <2>1, <2>2
  <1>10. /\ at' # "fullAppend" /\ at' # "collect" /\ StoredInv({})'
        /\ IdsAreUnique(scanned)'
    BY <1>3, <1>5 DEF StoredInv, Exact, Callees, IdsAreUnique
  <1> QED  BY <1>9, <1>10 DEF ExactInv

LEMMA OnSaveCollectExact ==
  ASSUME IInv, ExactInv, OnSaveCollect PROVE ExactInv'
  <1>1. PICK r \in todo : \E callees :
           /\ callees = UNION {ResolveByQuery(table, FileOf[m.id], m.line) :
                               m \in CalleesNow(r)}
           /\ Collected(r, callees, table)
    BY DEF OnSaveCollect
  <1>2. PICK callees :
           /\ callees = UNION {ResolveByQuery(table, FileOf[m.id], m.line) :
                               m \in CalleesNow(r)}
           /\ Collected(r, callees, table)
    BY <1>1
  <1>3. /\ at = "collect"
        /\ UNCHANGED <<table, calls, at, file, scanned, changed, removed, suspect>>
    BY DEF OnSaveCollect
  <1>4. /\ todo' = todo \ {r}
        /\ edges' = edges \cup {Indexed(r.id, id) : id \in callees}
        /\ risky' = IF Uncertain(r, table) THEN risky \cup {r.id} ELSE risky
    BY <1>2 DEF Collected
  <1>5. /\ TypeOK /\ r \in scanned /\ r \in Row /\ table \in SUBSET Row
        /\ IdsAreUnique(scanned) /\ OnSaveInv /\ StoredInv({})
        /\ FileOf[r.id] = file /\ RowsOf(scanned, file) = scanned
        /\ removed = RemovedIds(table, file, scanned) /\ file \in Files
    BY <1>3 DEF IInv, TypeOK, ExactInv, ScanInv, RowsOf
  <1>6. ~Uncertain(r, table) => callees = r.body \cap Ids(table)
    BY <1>2, <1>5, CertainCallees
  <1>7. ~Uncertain(r, table) => r.body \cap removed = {}
    <2> SUFFICES ASSUME ~Uncertain(r, table), NEW id \in r.body, id \in removed
                 PROVE  FALSE
      OBVIOUS
    <2>1. id \in Ids(RowsOf(table, file)) /\ id \notin Ids(scanned)
      BY <1>5 DEF RemovedIds, OldRows, Ids
    <2>2. FileOf[id] = file  BY <2>1 DEF Ids, RowsOf
    <2>3. Layout(RowsOf(table, file)) = Layout(disk[file])  BY <2>2 DEF Uncertain
    <2>4. disk[file] = scanned  BY <1>5 DEF Uncertain
    <2>5. disk[file] \in Contents[file]  BY <1>5 DEF TypeOK
    <2>6. Ids(RowsOf(table, file)) = Ids(scanned)
      BY <2>3, <2>4, <2>5, <1>5, LaidOut
    <2> QED  BY <2>1, <2>6
  <1>8. \A q \in scanned : q # r => q.id # r.id
    BY <1>5 DEF IdsAreUnique
  <1>9. /\ r.id \notin Callers(edges) => Callees(edges', r.id) = callees
        /\ \A id : id # r.id => Callees(edges', id) = Callees(edges, id)
        /\ Callers(edges') \subseteq Callers(edges) \cup {r.id}
    BY <1>2, CalleesAfter
  <1>10. r.id \in changed
    BY <1>5 DEF OnSaveInv
  <1>11. OnSaveInv'
    <2>1. /\ changed' = ChangedIds(table', file', scanned')
          /\ Callers(edges') \subseteq changed'
          /\ \A q \in todo' : q.id \in changed'
      BY <1>3, <1>4, <1>5, <1>9, <1>10 DEF OnSaveInv
    <2>2. ASSUME NEW q \in scanned, q.id \in changed
          PROVE  /\ q \in todo' => q.id \notin Callers(edges')
                 /\ q \notin todo' =>
                      \/ q.id \in risky'
                      \/ Exact(edges', q, Ids(table)) /\ q.body \cap removed = {}
      <3>1. CASE q = r
        <4>1. r.id \notin Callers(edges)  BY <1>5, <1>10 DEF OnSaveInv
        <4> QED  BY <3>1, <4>1, <1>4, <1>6, <1>7, <1>9 DEF Exact
      <3>2. CASE q # r
        <4>1. q.id # r.id /\ Callees(edges', q.id) = Callees(edges, q.id)
          BY <3>2, <1>8, <1>9
        <4>2. /\ q \in todo => q.id \notin Callers(edges)
              /\ q \notin todo =>
                   \/ q.id \in risky
                   \/ Exact(edges, q, Ids(table)) /\ q.body \cap removed = {}
          BY <2>2, <1>5 DEF OnSaveInv
        <4> QED  BY <3>2, <4>1, <4>2, <1>4, <1>9 DEF Exact
      <3> QED  BY <3>1, <3>2
    <2>3. \A q \in scanned' : q.id \in changed' =>
             /\ q \in todo' => q.id \notin Callers(edges')
             /\ q \notin todo' =>
                  \/ q.id \in risky'
                  \/ Callees(edges', q.id) = q.body \cap Ids(table')
                     /\ q.body \cap removed' = {}
      BY <2>2, <1>3 DEF Exact
    <2> QED  BY <2>1, <2>3 DEF OnSaveInv, Exact, Callees, Callers
  <1>12. /\ at' # "fullAppend" /\ at' # "fullCollect" /\ StoredInv({})'
         /\ IdsAreUnique(scanned)'
    BY <1>3, <1>5 DEF StoredInv, Exact, Callees, IdsAreUnique
  <1> QED  BY <1>11, <1>12 DEF ExactInv

-----------------------------------------------------------------------------
(* A full index.                                                           *)

LEMMA FullScanExact ==
  ASSUME IInv, ExactInv, FullScan PROVE ExactInv'
  <1>1. /\ at = "idle" /\ at' = "fullCollect" /\ scanned' = OnDisk /\ todo' = OnDisk
        /\ UNCHANGED <<table, calls, edges, suspect>>
    BY DEF FullScan
  <1>2. edges = {} /\ TypeOK /\ StoredInv({})  BY <1>1 DEF IInv, ScanInv, ExactInv
  <1>3. IdsAreUnique(scanned)'
    <2> SUFFICES ASSUME NEW r \in OnDisk, NEW q \in OnDisk, r.id = q.id PROVE r = q
      BY <1>1 DEF IdsAreUnique
    <2>1. PICK f \in Files : r \in disk[f] /\ FileOf[r.id] = f
      BY <1>2, DiskRows DEF OnDisk
    <2>2. q \in disk[f]  BY <1>2, <2>1, DiskRows DEF OnDisk
    <2> QED  BY <1>2, <2>1, <2>2, ContentsAssumption DEF TypeOK, WellFormed
  <1>4. FullInv'  BY <1>1, <1>2 DEF FullInv, Callers
  <1>5. StoredInv({})'  BY <1>1, <1>2 DEF StoredInv, Exact, Callees
  <1> QED  BY <1>1, <1>3, <1>4, <1>5 DEF ExactInv

\* Edges of other symbols do not matter.
LEMMA OthersAside ==
  ASSUME NEW es, NEW left, NEW id, id \notin Callers(left)
  PROVE  Callees(es \cup left, id) = Callees(es, id)
  <1>1. \A e \in left : e.caller # id  BY DEF Callers
  <1>2. {e \in es \cup left : ~e.manual /\ e.caller = id}
          = {e \in es : ~e.manual /\ e.caller = id}
    BY <1>1
  <1> QED  BY <1>2 DEF Callees

\* After index.storeEdges with the first batch, the stored edges and those left
\* are what was collected.
LEMMA ReplacedExact ==
  ASSUME IInv, ExactInv, at = "fullCollect", todo = {}, NEW batch, Replaced(batch),
         NEW left, batch \cup left = edges
  PROVE  \A r \in table' : r.id \in risky \/ Exact(calls' \cup left, r, Ids(table'))
  <1>1. table' = scanned /\ calls' = ReplaceCalls(calls, batch, rebuild)
    BY DEF Replaced
  <1>2. \A id : Callees(calls' \cup left, id) = Callees(edges, id)
    <2> SUFFICES ASSUME NEW id PROVE Callees(calls' \cup left, id) = Callees(edges, id)
      OBVIOUS
    <2>1. {e \in calls' \cup left : ~e.manual /\ e.caller = id}
            = {e \in edges : ~e.manual /\ e.caller = id}
      BY <1>1 DEF ReplaceCalls, KeptByReplace, Manual
    <2> QED  BY <2>1 DEF Callees
  <1>3. FullInv  BY DEF ExactInv
  <1> QED  BY <1>1, <1>2, <1>3 DEF FullInv, Exact

LEMMA AfterBatchLeft ==
  ASSUME IInv, NEW batch \in NextBatches, AfterBatch(batch)
  PROVE  /\ batch \cup edges' = edges
         /\ at' = "fullAppend" \/ (at' = "idle" /\ edges' = {})
  <1>1. batch \subseteq edges  BY BatchesAreEdges
  <1>2. CASE batch = edges  BY <1>2 DEF AfterBatch, RunOver
  <1>3. CASE batch # edges
    <2>1. at' = "fullAppend" /\ edges' = edges \ batch  BY <1>3 DEF AfterBatch
    <2> QED  BY <2>1, <1>1
  <1> QED  BY <1>2, <1>3

LEMMA FullStoreExact ==
  ASSUME IInv, ExactInv, FullStore PROVE ExactInv'
  <1>1. PICK batch \in NextBatches : Replaced(batch) /\ AfterBatch(batch)
    BY DEF FullStore
  <1>2. at = "fullCollect" /\ todo = {} /\ suspect' = risky
    BY DEF FullStore
  <1>3. /\ batch \cup edges' = edges
        /\ at' = "fullAppend" \/ (at' = "idle" /\ edges' = {})
    BY <1>1, AfterBatchLeft
  <1>4. \A r \in table' : r.id \in suspect' \/ Exact(calls' \cup edges', r, Ids(table'))
    BY <1>1, <1>2, <1>3, ReplacedExact
  <1>5. CASE at' = "fullAppend"
    BY <1>4, <1>5 DEF ExactInv, StoredInv, Exact, Callees
  <1>6. CASE at' = "idle" /\ edges' = {}
    BY <1>4, <1>6 DEF ExactInv, StoredInv, Exact, Callees
  <1> QED  BY <1>3, <1>5, <1>6

LEMMA FullAppendExact ==
  ASSUME IInv, ExactInv, FullAppend PROVE ExactInv'
  <1>1. PICK batch \in NextBatches : calls' = calls \cup batch /\ AfterBatch(batch)
    BY DEF FullAppend
  <1>2. at = "fullAppend" /\ UNCHANGED <<table, suspect>>
    BY DEF FullAppend
  <1>3. /\ batch \cup edges' = edges
        /\ at' = "fullAppend" \/ (at' = "idle" /\ edges' = {})
    BY <1>1, AfterBatchLeft
  <1>4. calls' \cup edges' = calls \cup edges  BY <1>1, <1>3
  <1>5. \A r \in table' : r.id \in suspect' \/ Exact(calls' \cup edges', r, Ids(table'))
    BY <1>2, <1>4 DEF ExactInv, StoredInv
  <1>6. CASE at' = "fullAppend"
    BY <1>5, <1>6 DEF ExactInv, StoredInv, Exact, Callees
  <1>7. CASE at' = "idle" /\ edges' = {}
    BY <1>5, <1>7 DEF ExactInv, StoredInv, Exact, Callees
  <1> QED  BY <1>3, <1>6, <1>7

\* A run that ended leaves what the tables say.
LEMMA OverExact ==
  ASSUME RunOver, \A r \in table' : r.id \in suspect' \/ Exact(calls', r, Ids(table'))
  PROVE  ExactInv'
  <1>1. calls' \cup {} = calls'  OBVIOUS
  <1>2. \A r \in table' : r.id \in suspect' \/ Exact(calls' \cup {}, r, Ids(table'))
    BY <1>1
  <1> QED  BY <1>2 DEF RunOver, ExactInv, StoredInv, Exact, Callees

LEMMA FullFailsExact ==
  ASSUME IInv, ExactInv, FullFails PROVE ExactInv'
  <1> SUFFICES \A r \in table' : r.id \in suspect' \/ Exact(calls', r, Ids(table'))
    BY OverExact DEF FullFails
  <1>2. CASE at = "fullCollect" /\ UNCHANGED <<table, calls, suspect>>
    <2>1. calls \cup {} = calls  OBVIOUS
    <2>2. \A r \in table : r.id \in suspect \/ Exact(calls, r, Ids(table))
      BY <1>2, <2>1 DEF ExactInv, StoredInv
    <2> QED  BY <1>2, <2>2 DEF Exact, Callees
  <1>3. ASSUME at = "fullCollect", todo = {}, NEW batch \in NextBatches,
               Replaced(batch), suspect' = risky \cup Callers(edges \ batch)
        PROVE  \A r \in table' : r.id \in suspect' \/ Exact(calls', r, Ids(table'))
    <2>1. batch \cup (edges \ batch) = edges  BY BatchesAreEdges
    <2>2. \A r \in table' :
             r.id \in risky \/ Exact(calls' \cup (edges \ batch), r, Ids(table'))
      BY <1>3, <2>1, ReplacedExact
    <2>3. ASSUME NEW r \in table', r.id \notin suspect'
          PROVE  Exact(calls', r, Ids(table'))
      <3>1. r.id \notin Callers(edges \ batch) /\ r.id \notin risky  BY <1>3, <2>3
      <3>2. Callees(calls' \cup (edges \ batch), r.id) = Callees(calls', r.id)
        BY <3>1, OthersAside
      <3> QED  BY <2>2, <3>1, <3>2 DEF Exact
    <2> QED  BY <2>3
  <1>4. ASSUME at = "fullAppend", table' = table,
               NEW batch \in {{}} \cup NextBatches, calls' = calls \cup batch,
               suspect' = suspect \cup Callers(edges \ batch)
        PROVE  \A r \in table' : r.id \in suspect' \/ Exact(calls', r, Ids(table'))
    <2>1. batch \subseteq edges  BY <1>4, BatchesAreEdges
    <2>2. calls' \cup (edges \ batch) = calls \cup edges  BY <1>4, <2>1
    <2>3. StoredInv(edges)  BY <1>4 DEF ExactInv
    <2>4. ASSUME NEW r \in table, r.id \notin suspect'
          PROVE  Exact(calls', r, Ids(table))
      <3>1. r.id \notin Callers(edges \ batch) /\ r.id \notin suspect  BY <1>4, <2>4
      <3>2. Callees(calls' \cup (edges \ batch), r.id) = Callees(calls', r.id)
        BY <3>1, OthersAside
      <3> QED  BY <2>2, <2>3, <3>1, <3>2 DEF Exact, StoredInv
    <2> QED  BY <1>4, <2>4
  <1> QED  BY <1>2, <1>3, <1>4 DEF FullFails

-----------------------------------------------------------------------------
(* Indexing on save.                                                       *)

LEMMA OnSaveScanExact ==
  ASSUME IInv, ExactInv, NEW f \in Files, OnSaveScan(f) PROVE ExactInv'
  <1>1. /\ at = "idle" /\ at' = "collect" /\ file' = f
        /\ scanned' = disk[f]
        /\ changed' = ChangedIds(table, f, disk[f])
        /\ todo' = {r \in disk[f] : r.id \in changed'}
        /\ UNCHANGED <<table, calls, edges, suspect>>
    BY DEF OnSaveScan
  <1>2. edges = {} /\ TypeOK /\ StoredInv({})  BY <1>1 DEF IInv, ScanInv, ExactInv
  <1>3. IdsAreUnique(scanned)'
    BY <1>1, <1>2, ContentsAssumption DEF TypeOK, WellFormed, IdsAreUnique
  <1>4. OnSaveInv'
    <2>1. Callers(edges') = {}  BY <1>1, <1>2 DEF Callers
    <2>2. \A r \in scanned' : r.id \in changed' => r \in todo'  BY <1>1
    <2>3. \A r \in todo' : r.id \in changed'  BY <1>1
    <2>4. changed' = ChangedIds(table', file', scanned')  BY <1>1
    <2> QED  BY <2>1, <2>2, <2>3, <2>4 DEF OnSaveInv
  <1>5. StoredInv({})'  BY <1>1, <1>2 DEF StoredInv, Exact, Callees
  <1> QED  BY <1>1, <1>3, <1>4, <1>5 DEF ExactInv

\* The ids the table holds after a delta.  Of what a body calls they are those
\* it held before without the removed ones, or something went unnoticed.
LEMMA DeltaIds ==
  ASSUME IInv, at = "collect", Delta, NEW body, body \cap Unnoticed = {}
  PROVE  body \cap Ids(table') = (body \cap Ids(table)) \ removed
  <1>1. /\ table' \in SUBSET Row /\ table \in SUBSET Row /\ file \in Files
        /\ RowsOf(table', file) = scanned
        /\ \A g \in Files : g # file => RowsOf(table', g) = RowsOf(table, g)
        /\ removed = RemovedIds(table, file, scanned)
    BY DeltaStep DEF IInv, TypeOK, ScanInv
  <1> DEFINE old == Ids(RowsOf(table, file))
  <1>2. removed \subseteq old \ Ids(scanned)
    BY <1>1 DEF RemovedIds, OldRows, Ids
  <1>3. \A id \in body : /\ id \in Ids(scanned) => id \in old
                         /\ id \in old /\ id \notin Ids(scanned) => id \in removed
    BY DEF Unnoticed
  <1>4. \A id : FileOf[id] = file =>
           (id \in Ids(table') <=> id \in Ids(scanned)) /\ (id \in Ids(table) <=> id \in old)
    BY <1>1 DEF Ids, RowsOf
  <1>5. \A id : /\ FileOf[id] # file => (id \in Ids(table') <=> id \in Ids(table))
                /\ id \in old => FileOf[id] = file
    <2>1. \A r \in table : FileOf[r.id] # file => r \in table'
      BY <1>1, FileOfAssumption DEF RowsOf, Row
    <2>2. \A r \in table' : FileOf[r.id] # file => r \in table
      BY <1>1, FileOfAssumption DEF RowsOf, Row
    <2> QED  BY <2>1, <2>2 DEF Ids, RowsOf
  <1> HIDE DEF old
  <1> QED  BY <1>2, <1>3, <1>4, <1>5

\* The indexed edges out of a symbol after a delta.
LEMMA DeltaCallees ==
  ASSUME Delta, Callers(edges) \subseteq changed, Manual(edges) = {}, NEW id
  PROVE  /\ id \in changed => Callees(calls', id) = Callees(edges, id)
         /\ id \notin changed /\ id \notin removed =>
               Callees(calls', id) = Callees(calls, id) \ removed
  <1>1. calls' = (calls \ StaleCalls(calls, changed, removed)) \cup edges
    BY DEF Delta, DeltaCalls
  <1>2. ASSUME id \in changed PROVE Callees(calls', id) = Callees(edges, id)
    <2>1. {e \in calls' : ~e.manual /\ e.caller = id}
            = {e \in edges : ~e.manual /\ e.caller = id}
      BY <1>1, <1>2 DEF StaleCalls
    <2> QED  BY <2>1 DEF Callees
  <1>3. ASSUME id \notin changed, id \notin removed
        PROVE  Callees(calls', id) = Callees(calls, id) \ removed
    <2>1. \A e \in edges : e.caller # id  BY <1>3 DEF Callers
    <2>2. {e \in calls' : ~e.manual /\ e.caller = id}
            = {e \in {e \in calls : ~e.manual /\ e.caller = id} : e.callee \notin removed}
      BY <1>1, <1>3, <2>1 DEF StaleCalls
    <2> QED  BY <2>2 DEF Callees
  <1> QED  BY <1>2, <1>3

LEMMA DeltaExact ==
  ASSUME IInv, ExactInv, at = "collect", todo = {}, Delta
  PROVE  \A r \in table' : r.id \in suspect' \/ Exact(calls', r, Ids(table'))
  <1> SUFFICES ASSUME NEW r \in table', r.id \notin suspect'
               PROVE  Exact(calls', r, Ids(table'))
    OBVIOUS
  <1>1. /\ OnSaveInv /\ StoredInv({})
        /\ IdsAreUnique(scanned) /\ Manual(edges) = {}
    BY DEF ExactInv, IInv, TypeOK
  <1>2. /\ suspect' = (suspect \ changed) \cup risky
                         \cup {q.id : q \in {q \in table' : q.body \cap Unnoticed # {}}}
    BY DEF Delta
  <1>3. r.body \cap Ids(table') = (r.body \cap Ids(table)) \ removed
    <2>1. r.body \cap Unnoticed = {}  BY <1>2
    <2> QED  BY <2>1, DeltaIds
  <1>4. /\ r.id \in changed => Callees(calls', r.id) = Callees(edges, r.id)
        /\ r.id \notin changed /\ r.id \notin removed =>
              Callees(calls', r.id) = Callees(calls, r.id) \ removed
    BY <1>1, DeltaCallees DEF OnSaveInv
  <1>5. /\ RowsOf(table', file) = scanned /\ table' \subseteq Row
        /\ \A g \in Files : g # file => RowsOf(table', g) = RowsOf(table, g)
        /\ file \in Files /\ \A q \in scanned : FileOf[q.id] = file
        /\ removed = RemovedIds(table, file, scanned)
        /\ changed = ChangedIds(table, file, scanned)
    BY <1>1, DeltaStep DEF IInv, TypeOK, ScanInv, OnSaveInv
  <1>6. CASE r.id \in changed
    <2>1. FileOf[r.id] = file  BY <1>5, <1>6 DEF ChangedIds
    <2>2. r \in scanned  BY <2>1, <1>5 DEF RowsOf
    <2>3. Exact(edges, r, Ids(table)) /\ r.body \cap removed = {}
      BY <2>2, <1>1, <1>2, <1>6 DEF OnSaveInv
    <2> QED  BY <2>3, <1>3, <1>4, <1>6 DEF Exact
  <1>7. CASE r.id \notin changed
    <2>1. PICK q \in table : q.id = r.id /\ q.body = r.body
      <3>1. CASE FileOf[r.id] = file
        <4>1. r \in scanned  BY <3>1, <1>5 DEF RowsOf
        <4> QED  BY <4>1, <1>5, <1>7 DEF ChangedIds, OldRows, RowsOf
      <3>2. CASE FileOf[r.id] # file
        <4>1. r \in table  BY <3>2, <1>5, FileOfAssumption DEF RowsOf, Row
        <4> QED  BY <4>1
      <3> QED  BY <3>1, <3>2
    <2>2. r.id \notin removed
      <3>1. CASE FileOf[r.id] = file
        BY <3>1, <1>5 DEF RemovedIds, RowsOf, Ids
      <3>2. CASE FileOf[r.id] # file
        BY <3>2, <1>5 DEF RemovedIds, OldRows, RowsOf, Ids
      <3> QED  BY <3>1, <3>2
    <2>3. r.id \notin suspect  BY <1>2, <1>7
    <2>4. Callees(calls, r.id) = r.body \cap Ids(table)
      <3>1. calls \cup {} = calls  OBVIOUS
      <3>2. Exact(calls \cup {}, q, Ids(table))  BY <1>1, <2>1, <2>3 DEF StoredInv
      <3> QED  BY <3>1, <3>2, <2>1 DEF Exact
    <2> QED  BY <2>2, <2>4, <1>3, <1>4, <1>7 DEF Exact
  <1> QED  BY <1>6, <1>7

LEMMA OnSaveEndsExact ==
  ASSUME IInv, ExactInv, OnSaveStore \/ OnSaveFails PROVE ExactInv'
  <1>1. at = "collect" /\ RunOver  BY DEF OnSaveStore, OnSaveFails
  <1>2. CASE todo = {} /\ Delta  BY <1>1, <1>2, DeltaExact, OverExact
  <1>3. CASE UNCHANGED <<table, calls, suspect>>
    <2>1. calls \cup {} = calls  OBVIOUS
    <2>2. \A r \in table : r.id \in suspect \/ Exact(calls, r, Ids(table))
      BY <1>1, <2>1 DEF ExactInv, StoredInv
    <2>3. \A r \in table' : r.id \in suspect' \/ Exact(calls', r, Ids(table'))
      BY <2>2, <1>3 DEF Exact, Callees
    <2> QED  BY <1>1, <2>3, OverExact
  <1> QED  BY <1>2, <1>3 DEF OnSaveStore, OnSaveFails

-----------------------------------------------------------------------------
LEMMA NextExact == IInv /\ ExactInv /\ [Next]_vars => ExactInv'
  <1> SUFFICES ASSUME IInv, ExactInv, [Next]_vars PROVE ExactInv'
    OBVIOUS
  <1>1. CASE UNCHANGED vars  BY <1>1, ExactUntouched DEF vars
  <1>2. CASE \E f \in Files : Save(f)  BY <1>2, ExactUntouched DEF Save
  <1>3. CASE FullStep
    BY <1>3, FullScanExact, FullCollectExact, FullStoreExact, FullAppendExact,
       FullFailsExact DEF FullStep
  <1>4. CASE OnSaveStep
    BY <1>4, OnSaveScanExact, OnSaveCollectExact, OnSaveEndsExact DEF OnSaveStep
  <1>5. CASE CollectNothing  BY <1>5, CollectNothingExact
  <1>6. CASE ClearSymbols
    BY <1>6 DEF ClearSymbols, ExactInv, StoredInv, runVars
  <1>7. CASE CreateEdge
    <2>1. {e \in calls' : ~e.manual} = {e \in calls : ~e.manual}
      BY <1>7 DEF CreateEdge
    <2> QED  BY <2>1, <1>7, ManualAside DEF CreateEdge
  <1>8. CASE DeleteEdge
    <2>1. {e \in calls' : ~e.manual} = {e \in calls : ~e.manual}
      BY <1>8 DEF DeleteEdge, Manual
    <2> QED  BY <2>1, <1>8, ManualAside DEF DeleteEdge
  <1> QED  BY <1>1, <1>2, <1>3, <1>4, <1>5, <1>6, <1>7, <1>8 DEF Next

-----------------------------------------------------------------------------
LEMMA Invariance == Spec => []IInv
  <1>1. Init => IInv  BY InitIInv
  <1>2. IInv /\ [Next]_vars => IInv'  BY NextIInv
  <1> QED  BY <1>1, <1>2, PTL DEF Spec

\* The files, the tables and the run keep their types, for any files and symbols.
THEOREM TypeCorrect == Spec => []TypeOK
  <1>1. IInv => TypeOK  BY DEF IInv
  <1> QED  BY <1>1, Invariance, PTL

\* Whatever is saved while runs collect, and whatever of them fails, the daemon
\* has exactly the symbols of every file as saved last, unless the file still
\* waits for its run.
THEOREM SymbolsFollowTheFiles == Spec => []SymbolsMatch
  <1>1. IInv => SymbolsMatch  BY DEF IInv
  <1> QED  BY <1>1, Invariance, PTL

\* No delta and no full index leaves an indexed edge that starts at a method
\* that is gone.
THEOREM NoEdgeOfAGoneMethod == Spec => []NoOrphans
  <1>1. IInv => NoOrphans  BY DEF IInv
  <1> QED  BY <1>1, Invariance, PTL

\* Between runs the indexed edges out of a symbol are the calls in its body to
\* symbols the index knows, whatever full and on-save runs came before, in
\* batches, with which saves between their steps and with which failures,
\* unless the symbol is suspect.
THEOREM CallsFollowTheSource == Spec => []CallsMatchSource
  <1>1. Init => IInv /\ ExactInv  BY InitIInv, InitExact
  <1>2. IInv /\ ExactInv /\ [Next]_vars => IInv' /\ ExactInv'  BY NextIInv, NextExact
  <1>3. ExactInv => CallsMatchSource
    <2> SUFFICES ASSUME ExactInv, at = "idle", NEW r \in table, r.id \notin suspect
                 PROVE  Callees(calls, r.id) = r.body \cap Ids(table)
      BY DEF CallsMatchSource, Callees
    <2>1. calls \cup {} = calls  OBVIOUS
    <2> QED  BY <2>1 DEF ExactInv, StoredInv, Exact
  <1> QED  BY <1>1, <1>2, <1>3, PTL DEF Spec

\* Indexing what was saved never removes an edge the user drew.
THEOREM DrawnEdgesStay == Spec => ManualKept
  <1>1. IInv /\ [Next]_vars => [KeepsManual]_vars  BY NextIInv
  <1>2. [][KeepsManual]_vars => ManualKept  BY PTL DEF ManualKept, KeepsManual
  <1> QED  BY <1>1, <1>2, Invariance, PTL DEF Spec
=============================================================================
