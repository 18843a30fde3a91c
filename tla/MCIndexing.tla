------------------------------ MODULE MCIndexing ------------------------------
(***************************************************************************)
(* Instances of Indexing for TLC: the methods m1 and m2 of a file A and    *)
(* the function h of a file B.                                             *)
(***************************************************************************)
EXTENDS Indexing

MCSymbols == {"m1", "m2", "h"}
MCFiles == {"A", "B"}
MCFileOf == [m1 |-> "A", m2 |-> "A", h |-> "B"]
MCKindOf == [m1 |-> "method", m2 |-> "method", h |-> "function"]

At(id, line, body) == [id |-> id, line |-> line, end |-> line + 2, body |-> body]
Long(id, line, body) == [id |-> id, line |-> line, end |-> line + 7, body |-> body]

MCContents ==
    [A |-> {{Long("m1", 1, {"m2"}), At("m2", 5, {})},         \* m2 inside m1
            {At("m2", 1, {}), At("m1", 5, {"m2"})},   \* the methods change places
            {At("m1", 1, {"h"})}},                    \* m2 is gone
     B |-> {{At("h", 1, {"m1"})}, {At("h", 5, {"m2"})}, {}}]
MCDrawn == {<<"m2", "m1">>}

\* Extracting a method: m1 calls a new m2.
ExtractContents ==
    [A |-> {{At("m1", 1, {})}, {At("m1", 1, {"m2"}), At("m2", 5, {})}},
     B |-> {{At("h", 1, {"m1"})}}]

\* The index was just built, files are saved one after the other, each when
\* the run of the last is over, and nothing fails.
CalmSpec ==
    /\ Init
    /\ [][\/ at = "idle" /\ dirty = {} /\ table # {} /\ \E f \in Files : Save(f)
          \/ table = {} /\ FullScan
          \/ FullCollect \/ FullStore \/ FullAppend
          \/ table # {} /\ \E f \in Files : OnSaveScan(f)
          \/ OnSaveCollect \/ OnSaveStore]_vars
=============================================================================
