------------------------------ MODULE DaemonGraph ------------------------------
(***************************************************************************)
(* The graph in the daemon as its users may take it to be: the view, which *)
(* changes it by requests (GraphView), and the tables behind the handlers  *)
(* (GraphStore).                                                           *)
(*                                                                         *)
(* A request takes effect at once or not at all.  An edge is drawn between *)
(* nodes that exist; a node takes its drawn edges along; clearing leaves   *)
(* nothing virtual; loading adds what a kept snapshot captured, and no row *)
(* for an edge the index has; only the index changes symbols and its own   *)
(* edges, and of the rest it takes nothing but, when it is rebuilt, every  *)
(* drawn edge at once.                                                     *)
(***************************************************************************)
CONSTANTS Symbols, Vids

VARIABLES
    nodes,      \* symbols and virtual nodes
    calls,      \* edges of the index
    drawn,      \* edges the user drew, or loaded
    kept        \* the graphs of the saved snapshots

vars == <<nodes, calls, drawn, kept>>

Ends(p) == {p[1], p[2]}

\* Of the rest anything, that earlier sessions left.
Init ==
    /\ nodes \subseteq Symbols \cup Vids
    /\ calls \subseteq Symbols \X Symbols
    /\ drawn \subseteq (Symbols \cup Vids) \X (Symbols \cup Vids)
    /\ \A g \in kept : g.nodes # {}

Create(v) ==
    /\ nodes' = nodes \cup {v}
    /\ UNCHANGED <<calls, drawn, kept>>

Delete(v) ==
    /\ nodes' = nodes \ {v}
    /\ drawn' = {p \in drawn : v \notin Ends(p)}
    /\ UNCHANGED <<calls, kept>>

Draw ==
    /\ \E p \in drawn' : drawn' = drawn \cup {p} /\ Ends(p) \subseteq nodes
    /\ UNCHANGED <<nodes, calls, kept>>

Erase ==
    /\ \E p \in drawn : drawn' = drawn \ {p}
    /\ UNCHANGED <<nodes, calls, kept>>

Clear ==
    /\ nodes' = nodes \ Vids
    /\ drawn' = {}
    /\ UNCHANGED <<calls, kept>>

Capture ==
    /\ \E g \in kept' : kept' = kept \cup {g} /\ g.nodes # {}
    /\ UNCHANGED <<nodes, calls, drawn>>

Forget ==
    /\ \E g \in kept : kept' = kept \ {g}
    /\ UNCHANGED <<nodes, calls, drawn>>

\* The edges of a virtual node that was captured, and those of symbols that
\* still exist, unless the index has them.
Restored(g) ==
    {p \in g.edges \ calls :
        \/ Ends(p) \cap g.nodes \cap Vids # {}
        \/ Ends(p) \subseteq nodes \cap Symbols}

Load(g) ==
    /\ nodes' = nodes \cup (g.nodes \cap Vids)
    /\ drawn' = drawn \cup Restored(g)
    /\ UNCHANGED <<calls, kept>>

Reindex ==
    /\ nodes' \cap Vids = nodes \cap Vids /\ nodes' \subseteq Symbols \cup Vids
    /\ calls' \subseteq nodes' \X nodes'
    /\ drawn' \in {drawn, {}}
    /\ UNCHANGED kept

Next ==
    \/ \E v \in Vids : Create(v) \/ Delete(v)
    \/ Draw \/ Erase \/ Clear
    \/ Capture \/ Forget
    \/ \E g \in kept : Load(g)
    \/ Reindex

Spec == Init /\ [][Next]_vars
=============================================================================
