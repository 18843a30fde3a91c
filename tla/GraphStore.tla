------------------------------ MODULE GraphStore ------------------------------
(***************************************************************************)
(* What the user adds on top of the index: virtual nodes, manual edges,    *)
(* annotations of nodes and edges, and snapshots of them                   *)
(* (server/pkg/db/virtual_nodes.go, annotations.go, callgraph.go,          *)
(* snapshots.go, behind the handlers of server/pkg/api).                   *)
(*                                                                         *)
(* The daemon serves one request at a time, so a handler is one step.  One *)
(* that fails leaves the tables alone, as what writes more than one is in  *)
(* a transaction; except for edges.create and edges.delete, which ignore   *)
(* the error of a statement.  Requests name ids the client has seen at     *)
(* some time, not ids that exist now.                                      *)
(*                                                                         *)
(* A label, a type and a virtual directory are left out: no property tells *)
(* them apart.  A description and the AI remarks are one text.             *)
(***************************************************************************)
EXTENDS Integers, FiniteSets

CONSTANTS
    Symbols,    \* ids of indexed symbols
    Vids,       \* ids (UUIDs) of virtual nodes
    Pairs,      \* the <<source, target>> pairs edges are drawn between
    Texts,      \* descriptions and remarks
    SnapIds,    \* ids of snapshots
    MaxRows,    \* bound: rows of method_calls for one manual edge
    MaxEdits    \* bound: requests other than clear and the snapshots'

ASSUME IdsAssumption == Symbols \cap Vids = {}
ASSUME PairsAssumption == Pairs \subseteq (Symbols \cup Vids) \X (Symbols \cup Vids)
ASSUME BoundsAssumption == MaxRows \in Nat \ {0} /\ MaxEdits \in Nat

Node == Symbols \cup Vids
NoNode == "no node"
NoText == "no text"
Nowhere == "nowhere"
Cleared == "cleared"

ASSUME NamesAssumption ==
    /\ NoNode \notin Node
    /\ NoText \notin Texts
    /\ {Nowhere, Cleared} \cap SnapIds = {}

VARIABLES
    symbols,    \* symbols: the ids in the table
    calls,      \* method_calls: pairs with a row the index wrote
    vnodes,     \* virtual_nodes: the ids in the table
    classOf,    \* virtual_nodes.virtual_class_id
    notes,      \* node_annotations
    manual,     \* method_calls: number of 'manual' rows of a pair
    remarks,    \* edge_annotations
    saved,      \* snapshots: the ids in the table
    snapshots,  \* snapshots: what each captured
    \* History.
    used,       \* virtual ids ever given out
    late,       \* virtual ids annotated while they were not in the table
    free,       \* pairs whose remark was written while no manual row was there, or
                \* not deleted with it: that failed, or the index was rebuilt
    dangling,   \* pairs captured while a virtual end of theirs was not displayed
    loaded,     \* Cleared, or the snapshot the virtual state was loaded from
                \* after it was cleared, or Nowhere
    edits       \* requests so far, for the bound

tables == <<symbols, calls, vnodes, classOf, notes, manual, remarks,
            saved, snapshots>>
vars == <<tables, used, late, free, dangling, loaded, edits>>

Text == Texts \cup {NoText}
Touches(p, n) == p[1] = n \/ p[2] = n
IsVirtualPair(p) == p[1] \in vnodes \/ p[2] \in vnodes
Exists(n) == n \in symbols \cup vnodes
Visible(p) == manual[p] > 0 \/ p \in calls

EmptySnapshot ==
    [nodes |-> {}, context |-> {}, parent |-> [v \in Vids |-> NoNode],
     note |-> [n \in Node |-> NoText], edges |-> {},
     remark |-> [p \in Pairs |-> NoText]]

Init ==
    /\ symbols = Symbols /\ calls \in SUBSET (Pairs \cap (Symbols \X Symbols))
    /\ vnodes = {} /\ classOf = [v \in Vids |-> NoNode]
    /\ notes = [n \in Node |-> NoText]
    /\ manual = [p \in Pairs |-> 0] /\ remarks = [p \in Pairs |-> NoText]
    /\ saved = {} /\ snapshots = [k \in SnapIds |-> EmptySnapshot]
    /\ used = {} /\ late = {} /\ free = {} /\ dangling = {}
    /\ loaded = Nowhere /\ edits = 0

\* Any request but these leaves what was loaded from a snapshot behind.
Edit ==
    /\ edits < MaxEdits
    /\ edits' = edits + 1
    /\ loaded' = Nowhere
    /\ UNCHANGED dangling

-----------------------------------------------------------------------------
(* Nodes.                                                                  *)

\* nodes.create: a fresh UUID; the class is not checked to exist.
CreateNode(v, class) ==
    /\ v \notin used
    /\ used' = used \cup {v}
    /\ vnodes' = vnodes \cup {v}
    /\ classOf' = [classOf EXCEPT ![v] = class]
    /\ Edit
    /\ UNCHANGED <<symbols, calls, notes, manual, remarks, saved, snapshots, late, free>>

\* nodes.update: virtualClassId is written whether or not the request names
\* one; NoNode stands for a request that does not.
UpdateNode(v, class) ==
    /\ v \in vnodes
    /\ classOf' = [classOf EXCEPT ![v] = class]
    /\ Edit
    /\ UNCHANGED <<symbols, calls, vnodes, notes, manual, remarks, saved, snapshots,
                   used, late, free>>

\* DeleteVirtualNodeCascade, for any id.  Mutant: the manual edges are kept.
CascadeNodeOnly(v) == manual
CascadeManual(v) == [p \in Pairs |-> IF Touches(p, v) THEN 0 ELSE manual[p]]

DeleteNode(v) ==
    /\ v \in used
    /\ notes' = [notes EXCEPT ![v] = NoText]
    /\ remarks' = [p \in Pairs |-> IF Touches(p, v) THEN NoText ELSE remarks[p]]
    /\ manual' = CascadeManual(v)
    /\ vnodes' = vnodes \ {v}
    /\ classOf' = [classOf EXCEPT ![v] = NoNode]
    /\ late' = late \ {v}
    /\ free' = {p \in free : ~Touches(p, v)}
    /\ Edit
    /\ UNCHANGED <<symbols, calls, saved, snapshots, used>>

\* nodes.annotation.update: an upsert, whether or not the node exists.
SetNote(n, t) ==
    /\ n \in Symbols \cup used
    /\ notes' = [notes EXCEPT ![n] = t]
    /\ late' = IF n \in used \ vnodes THEN late \cup {n} ELSE late
    /\ Edit
    /\ UNCHANGED <<symbols, calls, vnodes, classOf, manual, remarks, saved, snapshots,
                   used, free>>

-----------------------------------------------------------------------------
(* Edges.                                                                  *)

\* edges.create: a new row every time; the remark only when there is one, and
\* when it cannot be written the edge is there without.
CreateEdge(p, t) ==
    /\ Exists(p[1]) /\ Exists(p[2])
    /\ manual[p] < MaxRows
    /\ manual' = [manual EXCEPT ![p] = @ + 1]
    /\ \/ UNCHANGED <<remarks, free>>
       \/ t # NoText /\ remarks' = [remarks EXCEPT ![p] = t] /\ free' = free \ {p}
    /\ Edit
    /\ UNCHANGED <<symbols, calls, vnodes, classOf, notes, saved, snapshots, used, late>>

\* edges.delete: all manual rows of the pair, and always the annotation; either
\* may fail, and the reply is the same.
\* Mutant: the annotation is left to the index.
DeleteEdgeAnnotationNever(p) == remarks
DeleteEdgeAnnotation(p) == [remarks EXCEPT ![p] = NoText]

DeleteEdge(p) ==
    /\ manual' \in {manual, [manual EXCEPT ![p] = 0]}
    /\ \/ remarks' = DeleteEdgeAnnotation(p) /\ free' = free \ {p}
       \/ /\ UNCHANGED remarks
          /\ free' = IF manual'[p] = 0 /\ remarks[p] # NoText THEN free \cup {p} ELSE free
    /\ Edit
    /\ UNCHANGED <<symbols, calls, vnodes, classOf, notes, saved, snapshots, used, late>>

\* edges.annotation.update: an upsert, whether or not the edge exists.
SetRemark(p, t) ==
    /\ {p[1], p[2]} \subseteq Symbols \cup used
    /\ remarks' = [remarks EXCEPT ![p] = t]
    /\ free' = IF manual[p] = 0 THEN free \cup {p} ELSE free \ {p}
    /\ Edit
    /\ UNCHANGED <<symbols, calls, vnodes, classOf, notes, manual, saved, snapshots,
                   used, late>>

-----------------------------------------------------------------------------
(* graph.clearVirtual: ClearAllVirtualState.                               *)

\* The annotations that go: of manual edges and of edges of virtual nodes.
\* Mutants: of edges of virtual nodes only; none, the rows are gone already.
ClearedRemarksOfVirtual == {p \in Pairs : IsVirtualPair(p)}
ClearedRemarks == {p \in Pairs : manual[p] > 0 \/ IsVirtualPair(p)}
\* Mutant: node annotations are left.
ClearedNotesNone == {}
ClearedNotes == vnodes

Clear ==
    /\ notes' = [n \in Node |-> IF n \in ClearedNotes THEN NoText ELSE notes[n]]
    /\ remarks' = [p \in Pairs |-> IF p \in ClearedRemarks THEN NoText ELSE remarks[p]]
    /\ manual' = [p \in Pairs |-> 0]
    /\ vnodes' = {}
    /\ classOf' = [v \in Vids |-> NoNode]
    /\ free' = free \ ClearedRemarks
    /\ late' = late \ vnodes
    /\ loaded' = Cleared
    /\ UNCHANGED <<symbols, calls, saved, snapshots, used, dangling, edits>>

-----------------------------------------------------------------------------
(* Snapshots.                                                              *)

\* The edges a client may display, beside any nodes: its copy may be older than
\* the tables, and an edge whose creation is answered after the canvas was
\* emptied is displayed without its ends.
Drawable == {p \in Pairs : {p[1], p[2]} \subseteq Symbols \cup used}
EndsShown(p, shown) == {p[1], p[2]} \cap Vids \subseteq shown

\* What the client sends: the nodes and edges it displays.
SnapshotOf(shown, drawn) ==
    [nodes |-> shown \cap Vids,
     context |-> shown \cap Symbols,
     parent |-> [v \in Vids |-> IF v \in shown THEN classOf[v] ELSE NoNode],
     note |-> [n \in Node |-> IF n \in shown THEN notes[n] ELSE NoText],
     edges |-> drawn,
     remark |-> [p \in Pairs |-> IF p \in drawn THEN remarks[p] ELSE NoText]]

CreateSnapshot(k, shown, drawn) ==
    /\ k \notin saved
    /\ shown # {}
    /\ saved' = saved \cup {k}
    /\ snapshots' = [snapshots EXCEPT ![k] = SnapshotOf(shown, drawn)]
    /\ dangling' = dangling \cup {p \in drawn : ~EndsShown(p, shown)}
    /\ UNCHANGED <<symbols, calls, vnodes, classOf, notes, manual, remarks,
                   used, late, free, loaded, edits>>

DeleteSnapshot(k) ==
    /\ k \in saved
    /\ saved' = saved \ {k}
    /\ snapshots' = [snapshots EXCEPT ![k] = EmptySnapshot]
    /\ loaded' = IF loaded = k THEN Nowhere ELSE loaded
    /\ UNCHANGED <<symbols, calls, vnodes, classOf, notes, manual, remarks,
                   used, late, free, dangling, edits>>

InSnapshot(s, p) == p[1] \in s.nodes \/ p[2] \in s.nodes

\* An edge is restored when it has a virtual end, or both symbols still exist.
Restorable(s, p) ==
    /\ p \in s.edges
    /\ InSnapshot(s, p) \/ (p[1] \in symbols /\ p[2] \in symbols)

\* A manual row is added unless the relation is there.  Mutant: always.
RowMissingAlways(s, p) == TRUE
RowMissing(s, p) ==
    /\ manual[p] = 0
    /\ InSnapshot(s, p) \/ p \notin calls

\* The parent survives when the snapshot holds it.  Mutant: as recorded.
RestoredParentAsRecorded(s, v) == s.parent[v]
RestoredParent(s, v) == IF s.parent[v] \in s.nodes THEN s.parent[v] ELSE NoNode

RestoredNote(s, n) ==
    s.note[n] # NoText /\ (n \in s.nodes \/ n \in s.context \cap symbols)

LoadSnapshot(k) ==
    /\ k \in saved
    /\ LET s == snapshots[k]
           noted == {p \in Pairs : Restorable(s, p) /\ s.remark[p] # NoText}
       IN /\ vnodes' = vnodes \cup s.nodes
          /\ classOf' = [v \in Vids |->
                            IF v \in s.nodes THEN RestoredParent(s, v) ELSE classOf[v]]
          /\ notes' = [n \in Node |->
                            IF RestoredNote(s, n) THEN s.note[n] ELSE notes[n]]
          /\ manual' = [p \in Pairs |->
                            IF Restorable(s, p) /\ RowMissing(s, p)
                            THEN manual[p] + 1 ELSE manual[p]]
          /\ remarks' = [p \in Pairs |-> IF p \in noted THEN s.remark[p] ELSE remarks[p]]
          /\ free' = (free \ noted) \cup {p \in noted : manual'[p] = 0}
    /\ loaded' = IF loaded \in {Cleared, k} THEN k ELSE Nowhere
    /\ UNCHANGED <<symbols, calls, saved, snapshots, used, late, dangling, edits>>

-----------------------------------------------------------------------------
(* The index replaces symbols and the rows it wrote, between a clear and   *)
(* the load that follows it as well.  ReplaceIndexData keeps manual rows   *)
(* unless the user asked for a rebuild; remarks it does not touch.         *)

\* Pairs with a remark that lose their rows.
Orphaned(rebuild) == {p \in Pairs : rebuild /\ manual[p] > 0 /\ remarks[p] # NoText}

Reindex(syms, cs, rebuild) ==
    /\ cs \subseteq syms \X syms
    /\ symbols' = syms
    /\ calls' = cs
    /\ manual' = IF rebuild THEN [p \in Pairs |-> 0] ELSE manual
    /\ free' = free \cup Orphaned(rebuild)
    /\ edits < MaxEdits /\ edits' = edits + 1
    /\ loaded' = IF loaded = Cleared THEN Cleared ELSE Nowhere
    /\ UNCHANGED <<vnodes, classOf, notes, remarks, saved, snapshots,
                   used, late, dangling>>

Next ==
    \/ \E v \in Vids : \E class \in used \cup {NoNode} :
          CreateNode(v, class) \/ UpdateNode(v, class)
    \/ \E v \in Vids : DeleteNode(v)
    \/ \E n \in Node, t \in Text : SetNote(n, t)
    \/ \E p \in Pairs, t \in Text : CreateEdge(p, t) \/ SetRemark(p, t)
    \/ \E p \in Pairs : DeleteEdge(p)
    \/ Clear
    \/ \E k \in SnapIds :
          \/ \E shown \in SUBSET (Symbols \cup used) : \E drawn \in SUBSET Drawable :
                CreateSnapshot(k, shown, drawn)
          \/ DeleteSnapshot(k)
          \/ LoadSnapshot(k)
    \/ \E syms \in SUBSET Symbols : \E cs \in SUBSET (Pairs \cap (syms \X syms)) :
          \E rebuild \in BOOLEAN : Reindex(syms, cs, rebuild)

Spec == Init /\ [][Next]_vars

-----------------------------------------------------------------------------
(* What the four invariants below rest on.                                 *)

\* A snapshot is closed: the virtual ends of its edges are nodes of it.
SnapshotsClosed ==
    \A k \in SnapIds : \A p \in snapshots[k].edges \ dangling :
        EndsShown(p, snapshots[k].nodes)

\* After a clear nothing virtual is left; what is loaded is still saved.
LoadedFromEmpty ==
    /\ loaded = Cleared => vnodes = {} /\ \A p \in Pairs : manual[p] = 0
    /\ loaded \in SnapIds => loaded \in saved

Snapshot ==
    [nodes : SUBSET Vids, context : SUBSET Symbols,
     parent : [Vids -> Vids \cup {NoNode}], note : [Node -> Text],
     edges : SUBSET Pairs, remark : [Pairs -> Text]]

TypeOK ==
    /\ symbols \subseteq Symbols /\ calls \subseteq Pairs
    /\ vnodes \subseteq Vids /\ used \subseteq Vids
    /\ classOf \in [Vids -> Vids \cup {NoNode}]
    /\ notes \in [Node -> Text]
    /\ manual \in [Pairs -> 0 .. MaxRows]
    /\ remarks \in [Pairs -> Text]
    /\ saved \subseteq SnapIds /\ snapshots \in [SnapIds -> Snapshot]
    /\ late \subseteq Vids /\ free \subseteq Pairs /\ dangling \subseteq Pairs
    /\ loaded \in SnapIds \cup {Nowhere, Cleared} /\ edits \in 0 .. MaxEdits

\* A manual edge never outlives a virtual node it ends at: deleting the node,
\* clearing and loading a snapshot over any state keep it so, unless it was
\* captured without that node, and a load restored it without.
ManualEdgesHaveEnds ==
    \A p \in Pairs \ dangling : manual[p] > 0 => EndsShown(p, vnodes)

\* A virtual node's description never outlives the node, unless it was written
\* after the node was deleted: it would come back with the next snapshot that
\* restores the same id.
NotesOfLiveNodes ==
    \A v \in Vids : notes[v] # NoText => v \in vnodes \cup late

\* "so real-real manual edges don't leak remarks onto future indexed edges": a
\* remark written on an edge the user drew goes when the edge goes, whichever
\* of the three ways (edge, node, clear) the edge is removed, unless it was
\* written where no edge was drawn or its own deletion failed.  A rebuild of
\* the index is a fourth way, and leaves the remark behind.
NoLeakedRemarks ==
    \A p \in Pairs : remarks[p] # NoText /\ p \notin free => manual[p] > 0

\* Clearing and then loading a snapshot, once or again, shows exactly what the
\* snapshot captured: its nodes, their classes and descriptions, and every edge
\* whose ends still exist, once and with its remark.  Where it captured none, what
\* is `late' or `free' may be found there.
RoundTrip ==
    \A k \in SnapIds : loaded = k =>
        LET s == snapshots[k]
        IN  /\ vnodes = s.nodes
            /\ \A v \in s.nodes :
                  /\ classOf[v] \in vnodes \cup {NoNode}
                  /\ s.parent[v] \in s.nodes => classOf[v] = s.parent[v]
                  /\ notes[v] = s.note[v] \/ (s.note[v] = NoText /\ v \in late)
            /\ \A p \in s.edges :
                  Exists(p[1]) /\ Exists(p[2]) =>
                    /\ Visible(p)
                    /\ remarks[p] = s.remark[p] \/ (s.remark[p] = NoText /\ p \in free)
            /\ \A p \in Pairs : manual[p] <= (IF p \in s.edges THEN 1 ELSE 0)

-----------------------------------------------------------------------------
(* What is behind the handlers implements DaemonGraph.                     *)

Captured(s) == [nodes |-> s.nodes \cup s.context, edges |-> s.edges]

D == INSTANCE DaemonGraph WITH
        nodes <- symbols \cup vnodes,
        drawn <- {p \in Pairs : manual[p] > 0},
        kept <- {Captured(snapshots[k]) : k \in saved}

\* Every request leaves the graph as its users take it to be: rows of the three
\* tables that change in one request change together, however often an edge was
\* drawn, and none is left of what was deleted, cleared or loaded twice.
ImplementsDaemonGraph == D!Spec

\* Inductive: the invariants and what they rest on.
IInv ==
    /\ TypeOK /\ SnapshotsClosed /\ LoadedFromEmpty
    /\ ManualEdgesHaveEnds /\ NotesOfLiveNodes /\ NoLeakedRemarks /\ RoundTrip
=============================================================================
