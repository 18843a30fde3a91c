------------------------------ MODULE IndexStore ------------------------------
(***************************************************************************)
(* The index tables of the daemon's SQLite store, as far as indexing       *)
(* writes them: symbols and method_calls (server/pkg/db/store.go,          *)
(* store_incremental.go), and the two ways a source position is turned     *)
(* into a symbol.  The operators are pure: each transaction either commits *)
(* as a whole or is rolled back, so it is a function from tables to        *)
(* tables.                                                                 *)
(*                                                                         *)
(* A row stands for a symbol of one version of a file.  Its body is the    *)
(* set of symbols the text of the body calls; bodies with equal sets have  *)
(* equal body_hash.  Lines of calls, names, signatures and timestamps are  *)
(* left out, and with them the difference between a set of edges and the   *)
(* table's bag.                                                            *)
(***************************************************************************)
EXTENDS Naturals

CONSTANTS
    Symbols,    \* symbol ids
    Files,      \* source files
    FileOf,     \* the file a symbol is declared in
    KindOf      \* "method" (methods and constructors) or "function"

ASSUME FileOfAssumption == FileOf \in [Symbols -> Files]
ASSUME KindOfAssumption == KindOf \in [Symbols -> {"method", "function"}]

Row == [id : Symbols, line : Nat, end : Nat, body : SUBSET Symbols]
Edge == [caller : Symbols, callee : Symbols, manual : BOOLEAN]

Ids(rows) == {r.id : r \in rows}
RowsOf(rows, f) == {r \in rows : FileOf[r.id] = f}
Manual(calls) == {e \in calls : e.manual}

-----------------------------------------------------------------------------
\* INSERT OR REPLACE INTO symbols.
Upsert(table, rows) == {r \in table : r.id \notin Ids(rows)} \cup rows

\* ReplaceIndexData: the edges that stay, and the edges of the new index.
\* The mutant clears manual edges whatever rebuild says.
KeptByEveryRebuild(calls, rebuild) == {}
KeptByReplace(calls, rebuild) == IF rebuild THEN {} ELSE Manual(calls)
ReplaceCalls(calls, edges, rebuild) == KeptByReplace(calls, rebuild) \cup edges

\* ApplyFileDelta: upsert the symbols of the file, delete its other rows.
\* The mutant leaves the rows of symbols that are gone.
DeltaKeepsRows(table, f, rows) == Upsert(table, rows)
DeltaSymbols(table, f, rows) ==
    {r \in Upsert(table, rows) : FileOf[r.id] = f => r.id \in Ids(rows)}

\* Indexed edges out of what changed or was removed, or into what was removed.
\* Mutants: only out of what changed; only of what was removed.
StaleOfChanged(calls, changed, removed) ==
    {e \in calls : ~e.manual /\ (e.caller \in changed \/ e.callee \in removed)}
StaleOfRemoved(calls, changed, removed) ==
    {e \in calls : ~e.manual /\ (e.caller \in removed \/ e.callee \in removed)}
StaleCalls(calls, changed, removed) ==
    {e \in calls :
        ~e.manual /\ (e.caller \in changed \cup removed \/ e.callee \in removed)}
DeltaCalls(calls, changed, removed, edges) ==
    (calls \ StaleCalls(calls, changed, removed)) \cup edges

-----------------------------------------------------------------------------
(* index.scanFile compares the scanned rows with the stored hashes.  Only  *)
(* hashes of methods and constructors are looked up: a function is         *)
(* reported as changed by every scan and as removed by none.               *)

OldRows(table, f) == {r \in RowsOf(table, f) : KindOf[r.id] = "method"}

ChangedIds(table, f, rows) ==
    {r.id : r \in {r \in rows :
        ~\E old \in OldRows(table, f) : old.id = r.id /\ old.body = r.body}}

RemovedIds(table, f, rows) == Ids(OldRows(table, f)) \ Ids(rows)

-----------------------------------------------------------------------------
(* From a position to symbols.  The sets have one member or none when no   *)
(* two rows of a file start in the same line.                              *)

\* ResolveSymbolIDsByLocations: the row that starts last before the line and
\* does not end before it; end_line 0 is "unknown".
Spanning(table, f, line) ==
    {r \in RowsOf(table, f) : r.line <= line /\ (r.end = 0 \/ line <= r.end)}

ResolveByQuery(table, f, line) ==
    {r.id : r \in {r \in Spanning(table, f, line) :
        \A q \in Spanning(table, f, line) : q.line <= r.line}}

\* resolveSymbolIDByInterval: the narrowest interval around the line, and of
\* those the one that starts first.
LastLine(r) == IF r.end > r.line THEN r.end ELSE r.line
Around(rows, f, line) ==
    {r \in RowsOf(rows, f) : r.line <= line /\ line <= LastLine(r)}
Span(r) == LastLine(r) - r.line

ResolveByInterval(rows, f, line) ==
    {r.id : r \in {r \in Around(rows, f, line) :
        \A q \in Around(rows, f, line) :
            Span(r) < Span(q) \/ (Span(r) = Span(q) /\ r.line <= q.line)}}
=============================================================================
