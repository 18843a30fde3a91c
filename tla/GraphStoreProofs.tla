--------------------------- MODULE GraphStoreProofs ---------------------------
(***************************************************************************)
(* The invariants of GraphStore hold for every set of symbols, virtual     *)
(* nodes, pairs, texts and snapshots, and for every bound.                 *)
(***************************************************************************)
EXTENDS GraphStore, TLAPS

USE BoundsAssumption

\* One lemma cuts Next into the handlers: a property that every handler and a
\* stuttering step preserve is preserved by every step.
Handlers ==
    \/ \E v \in Vids : \E class \in used \cup {NoNode} :
          CreateNode(v, class) \/ UpdateNode(v, class)
    \/ \E v \in Vids : DeleteNode(v)
    \/ \E n \in Node, t \in Text : SetNote(n, t)
    \/ \E p \in Pairs, t \in Text : CreateEdge(p, t) \/ SetRemark(p, t)
    \/ \E p \in Pairs : DeleteEdge(p)
    \/ Clear
    \/ \E k \in SnapIds, shown \in SUBSET (Symbols \cup Vids) :
          \E drawn \in SUBSET Pairs : CreateSnapshot(k, shown, drawn)
    \/ \E k \in SnapIds : DeleteSnapshot(k) \/ LoadSnapshot(k)
    \/ \E syms \in SUBSET Symbols, cs \in SUBSET Pairs, rebuild \in BOOLEAN :
          Reindex(syms, cs, rebuild)
    \/ UNCHANGED vars

LEMMA StepIsHandler == TypeOK /\ [Next]_vars => Handlers
<1> SUFFICES ASSUME TypeOK, [Next]_vars PROVE Handlers
  OBVIOUS
<1>1. SUBSET (Symbols \cup used) \subseteq SUBSET (Symbols \cup Vids)
  BY DEF TypeOK
<1>2. SUBSET Drawable \subseteq SUBSET Pairs
  BY DEF Drawable
<1> QED BY <1>1, <1>2 DEF Next, Handlers

\* What a client can put in a snapshot is a snapshot.
LEMMA SnapshotOfType ==
    ASSUME TypeOK, NEW shown \in SUBSET (Symbols \cup Vids),
           NEW drawn \in SUBSET Pairs
    PROVE  SnapshotOf(shown, drawn) \in Snapshot
<1>1. shown \cap Vids \in SUBSET Vids /\ shown \cap Symbols \in SUBSET Symbols
  OBVIOUS
<1>2. [v \in Vids |-> IF v \in shown THEN classOf[v] ELSE NoNode]
         \in [Vids -> Vids \cup {NoNode}]
  BY DEF TypeOK
<1>3. [n \in Node |-> IF n \in shown THEN notes[n] ELSE NoText] \in [Node -> Text]
  BY DEF TypeOK, Text
<1>4. drawn \in SUBSET Pairs
  OBVIOUS
<1>5. [p \in Pairs |-> IF p \in drawn THEN remarks[p] ELSE NoText] \in [Pairs -> Text]
  BY DEF TypeOK, Text
<1> QED BY <1>1, <1>2, <1>3, <1>4, <1>5 DEF SnapshotOf, Snapshot

LEMMA EmptySnapshotType == EmptySnapshot \in Snapshot
BY DEF EmptySnapshot, Snapshot, Text

LEMMA InitTypeOK == Init => TypeOK
<1> SUFFICES ASSUME Init PROVE TypeOK OBVIOUS
<1>1. snapshots \in [SnapIds -> Snapshot]
  BY EmptySnapshotType DEF Init
<1>2. manual \in [Pairs -> 0 .. MaxRows]
  BY DEF Init
<1>3. edits \in 0 .. MaxEdits /\ loaded \in SnapIds \cup {Nowhere, Cleared}
  BY DEF Init
<1> QED BY <1>1, <1>2, <1>3 DEF Init, TypeOK, Text

\* Every handler keeps the types.
LEMMA StepTypeOK == TypeOK /\ [Next]_vars => TypeOK'
<1> SUFFICES ASSUME TypeOK, Handlers PROVE TypeOK'
  BY StepIsHandler
<1> USE DEF TypeOK
<1>1. ASSUME NEW v \in Vids, NEW class \in used \cup {NoNode}, CreateNode(v, class)
      PROVE TypeOK'
  BY <1>1 DEF CreateNode, Edit
<1>2. ASSUME NEW v \in Vids, NEW class \in used \cup {NoNode}, UpdateNode(v, class)
      PROVE TypeOK'
  BY <1>2 DEF UpdateNode, Edit
<1>3. ASSUME NEW v \in Vids, DeleteNode(v) PROVE TypeOK'
  <2>1. manual' \in [Pairs -> 0 .. MaxRows]
    BY <1>3 DEF DeleteNode, CascadeManual
  <2>2. remarks' \in [Pairs -> Text]
    BY <1>3 DEF DeleteNode, Text
  <2>3. notes' \in [Node -> Text] /\ classOf' \in [Vids -> Vids \cup {NoNode}]
    BY <1>3 DEF DeleteNode, Text
  <2>4. vnodes' \subseteq Vids /\ late' \subseteq Vids /\ free' \subseteq Pairs
    BY <1>3 DEF DeleteNode
  <2> QED BY <1>3, <2>1, <2>2, <2>3, <2>4 DEF DeleteNode, Edit
<1>4. ASSUME NEW n \in Node, NEW t \in Text, SetNote(n, t) PROVE TypeOK'
  BY <1>4 DEF SetNote, Edit
<1>5. ASSUME NEW p \in Pairs, NEW t \in Text, CreateEdge(p, t) PROVE TypeOK'
  BY <1>5 DEF CreateEdge, Edit
<1>6. ASSUME NEW p \in Pairs, NEW t \in Text, SetRemark(p, t) PROVE TypeOK'
  BY <1>6 DEF SetRemark, Edit
<1>7. ASSUME NEW p \in Pairs, DeleteEdge(p) PROVE TypeOK'
  <2>1. manual' \in [Pairs -> 0 .. MaxRows]
    BY <1>7 DEF DeleteEdge
  <2>2. remarks' \in [Pairs -> Text] /\ free' \subseteq Pairs
    BY <1>7 DEF DeleteEdge, DeleteEdgeAnnotation, Text
  <2> QED BY <1>7, <2>1, <2>2 DEF DeleteEdge, Edit
<1>8. ASSUME Clear PROVE TypeOK'
  <2>1. manual' \in [Pairs -> 0 .. MaxRows] /\ classOf' \in [Vids -> Vids \cup {NoNode}]
    BY <1>8 DEF Clear
  <2>2. notes' \in [Node -> Text] /\ remarks' \in [Pairs -> Text]
    BY <1>8 DEF Clear, Text
  <2> QED BY <1>8, <2>1, <2>2 DEF Clear
<1>9. ASSUME NEW k \in SnapIds, NEW shown \in SUBSET (Symbols \cup Vids),
             NEW drawn \in SUBSET Pairs, CreateSnapshot(k, shown, drawn)
      PROVE TypeOK'
  BY <1>9, SnapshotOfType DEF CreateSnapshot
<1>10. ASSUME NEW k \in SnapIds, DeleteSnapshot(k) PROVE TypeOK'
  BY <1>10, EmptySnapshotType DEF DeleteSnapshot
<1>11. ASSUME NEW k \in SnapIds, LoadSnapshot(k) PROVE TypeOK'
  <2> DEFINE s == snapshots[k]
  <2>0. /\ s \in Snapshot
        /\ s.nodes \subseteq Vids /\ s.parent \in [Vids -> Vids \cup {NoNode}]
        /\ s.note \in [Node -> Text] /\ s.remark \in [Pairs -> Text]
    BY DEF Snapshot
  <2> HIDE DEF s
  <2>1. manual' \in [Pairs -> 0 .. MaxRows]
    BY <1>11 DEF LoadSnapshot, RowMissing, s
  <2>2. classOf' \in [Vids -> Vids \cup {NoNode}]
    BY <1>11, <2>0 DEF LoadSnapshot, RestoredParent, s
  <2>3. notes' \in [Node -> Text]
    BY <1>11, <2>0 DEF LoadSnapshot, s
  <2>4. remarks' \in [Pairs -> Text] /\ free' \subseteq Pairs
    BY <1>11, <2>0 DEF LoadSnapshot, s
  <2>5. vnodes' \subseteq Vids /\ loaded' \in SnapIds \cup {Nowhere, Cleared}
    BY <1>11, <2>0 DEF LoadSnapshot, s
  <2> QED BY <1>11, <2>1, <2>2, <2>3, <2>4, <2>5 DEF LoadSnapshot
<1>12. ASSUME NEW syms \in SUBSET Symbols, NEW cs \in SUBSET Pairs,
              NEW rebuild \in BOOLEAN, Reindex(syms, cs, rebuild)
       PROVE TypeOK'
  <2>1. manual' \in [Pairs -> 0 .. MaxRows]
    BY <1>12, BoundsAssumption DEF Reindex
  <2>2. free' \subseteq Pairs
    BY <1>12 DEF Reindex, Orphaned
  <2> QED BY <1>12, <2>1, <2>2 DEF Reindex
<1>13. ASSUME UNCHANGED vars PROVE TypeOK'
  BY <1>13 DEF vars, tables
<1> HIDE DEF TypeOK
<1> QED
  BY <1>1, <1>2, <1>3, <1>4, <1>5, <1>6, <1>7, <1>8, <1>9, <1>10, <1>11, <1>12, <1>13
  DEF Handlers

-----------------------------------------------------------------------------
(* Snapshots stay closed, and what is loaded is saved.                     *)

LEMMA StepSnapshotsClosed == IInv /\ [Next]_vars => SnapshotsClosed'
<1> SUFFICES ASSUME IInv, Handlers PROVE SnapshotsClosed'
  BY StepIsHandler DEF IInv
<1> USE DEF SnapshotsClosed, EndsShown
<1>0. TypeOK /\ SnapshotsClosed
  BY DEF IInv
<1>1. ASSUME NEW k \in SnapIds, NEW shown \in SUBSET (Symbols \cup Vids),
             NEW drawn \in SUBSET Pairs, CreateSnapshot(k, shown, drawn)
      PROVE SnapshotsClosed'
  <2>1. \A p \in drawn \ dangling' : EndsShown(p, shown \cap Vids)
    BY <1>1 DEF CreateSnapshot
  <2>2. /\ snapshots'[k].edges = drawn /\ dangling \subseteq dangling'
        /\ snapshots'[k].nodes = shown \cap Vids
        /\ \A j \in SnapIds \ {k} : snapshots'[j] = snapshots[j]
    BY <1>0, <1>1 DEF CreateSnapshot, SnapshotOf, TypeOK
  <2> QED BY <1>0, <2>1, <2>2
<1>2. ASSUME NEW k \in SnapIds, DeleteSnapshot(k) PROVE SnapshotsClosed'
  <2>1. /\ snapshots'[k].edges = {}
        /\ \A j \in SnapIds \ {k} : snapshots'[j] = snapshots[j]
    BY <1>0, <1>2 DEF DeleteSnapshot, EmptySnapshot, TypeOK
  <2>2. dangling' = dangling
    BY <1>2 DEF DeleteSnapshot
  <2> QED BY <1>0, <2>1, <2>2
<1>3. ASSUME UNCHANGED <<snapshots, dangling>> PROVE SnapshotsClosed'
  BY <1>0, <1>3
<1>4. \/ UNCHANGED <<snapshots, dangling>>
      \/ \E k \in SnapIds, shown \in SUBSET (Symbols \cup Vids) :
            \E drawn \in SUBSET Pairs : CreateSnapshot(k, shown, drawn)
      \/ \E k \in SnapIds : DeleteSnapshot(k)
  BY DEF Handlers, CreateNode, UpdateNode, DeleteNode, SetNote, CreateEdge,
         SetRemark, DeleteEdge, Clear, LoadSnapshot, Reindex, Edit, vars, tables
<1> QED BY <1>1, <1>2, <1>3, <1>4

\* A request of an editor forgets what was loaded; these do not, nor does the
\* index that a snapshot is about to be loaded.
LEMMA LoadedChanges ==
    ASSUME Handlers
    PROVE  \/ loaded' = Nowhere
           \/ Clear
           \/ \E k \in SnapIds : LoadSnapshot(k)
           \/ \E k \in SnapIds : DeleteSnapshot(k) /\ loaded' = loaded /\ loaded # k
           \/ \E k \in SnapIds, shown \in SUBSET (Symbols \cup Vids) :
                 \E drawn \in SUBSET Pairs : CreateSnapshot(k, shown, drawn)
           \/ /\ loaded' = Cleared /\ UNCHANGED <<loaded, vnodes>>
              /\ manual' \in {manual, [p \in Pairs |-> 0]}
           \/ UNCHANGED vars
BY DEF Handlers, CreateNode, UpdateNode, DeleteNode, SetNote, CreateEdge,
       SetRemark, DeleteEdge, Reindex, Edit, DeleteSnapshot

LEMMA StepLoadedFromEmpty == IInv /\ [Next]_vars => LoadedFromEmpty'
<1> SUFFICES ASSUME IInv, Handlers PROVE LoadedFromEmpty'
  BY StepIsHandler DEF IInv
<1> USE NamesAssumption DEF LoadedFromEmpty
<1>0. TypeOK /\ LoadedFromEmpty
  BY DEF IInv
<1>1. CASE loaded' = Nowhere
  BY <1>1 DEF Nowhere, Cleared
<1>2. CASE Clear
  BY <1>2 DEF Clear, Cleared
<1>3. ASSUME NEW k \in SnapIds, LoadSnapshot(k) PROVE LoadedFromEmpty'
  BY <1>3 DEF LoadSnapshot, Nowhere, Cleared
<1>4. ASSUME NEW k \in SnapIds, DeleteSnapshot(k), loaded' = loaded, loaded # k
      PROVE LoadedFromEmpty'
  BY <1>0, <1>4 DEF DeleteSnapshot
<1>5. ASSUME NEW k \in SnapIds, NEW shown \in SUBSET (Symbols \cup Vids),
             NEW drawn \in SUBSET Pairs, CreateSnapshot(k, shown, drawn)
      PROVE LoadedFromEmpty'
  BY <1>0, <1>5 DEF CreateSnapshot
<1>6. CASE UNCHANGED vars
  BY <1>0, <1>6 DEF vars, tables
<1>7. CASE /\ loaded' = Cleared /\ UNCHANGED <<loaded, vnodes>>
           /\ manual' \in {manual, [p \in Pairs |-> 0]}
  BY <1>0, <1>7
<1> QED BY <1>1, <1>2, <1>3, <1>4, <1>5, <1>6, <1>7, LoadedChanges

-----------------------------------------------------------------------------
(* The three invariants about what must not be left behind.                *)

LEMMA StepManualEdgesHaveEnds == IInv /\ [Next]_vars => ManualEdgesHaveEnds'
<1> SUFFICES ASSUME IInv, Handlers PROVE ManualEdgesHaveEnds'
  BY StepIsHandler DEF IInv
<1> USE DEF ManualEdgesHaveEnds, EndsShown
<1>0. TypeOK /\ SnapshotsClosed /\ ManualEdgesHaveEnds
  BY DEF IInv
<1>1. ASSUME NEW p \in Pairs, NEW t \in Text, CreateEdge(p, t)
      PROVE ManualEdgesHaveEnds'
  BY <1>0, <1>1, IdsAssumption DEF CreateEdge, Edit, Exists, TypeOK
<1>2. ASSUME NEW v \in Vids, DeleteNode(v) PROVE ManualEdgesHaveEnds'
  BY <1>0, <1>2 DEF DeleteNode, Edit, CascadeManual, Touches, TypeOK
<1>3. ASSUME NEW p \in Pairs, DeleteEdge(p) PROVE ManualEdgesHaveEnds'
  BY <1>0, <1>3 DEF DeleteEdge, Edit, TypeOK
<1>4. CASE Clear
  BY <1>4 DEF Clear
<1>5. ASSUME NEW k \in SnapIds, LoadSnapshot(k) PROVE ManualEdgesHaveEnds'
  <2> SUFFICES ASSUME NEW p \in Pairs \ dangling, manual'[p] > 0
               PROVE  EndsShown(p, vnodes')
    BY <1>5 DEF LoadSnapshot
  <2>1. vnodes' = vnodes \cup snapshots[k].nodes
    BY <1>5 DEF LoadSnapshot
  <2>2. manual[p] > 0 \/ p \in snapshots[k].edges
    BY <1>5 DEF LoadSnapshot, Restorable
  <2> QED BY <1>0, <2>1, <2>2 DEF SnapshotsClosed
<1>6. ASSUME manual' \in {manual, [p \in Pairs |-> 0]}, vnodes \subseteq vnodes',
             dangling \subseteq dangling'
      PROVE  ManualEdgesHaveEnds'
  BY <1>0, <1>6
<1>7. \/ /\ manual' \in {manual, [p \in Pairs |-> 0]}
         /\ vnodes \subseteq vnodes' /\ dangling \subseteq dangling'
      \/ \E p \in Pairs, t \in Text : CreateEdge(p, t)
      \/ \E v \in Vids : DeleteNode(v)
      \/ \E p \in Pairs : DeleteEdge(p)
      \/ Clear
      \/ \E k \in SnapIds : LoadSnapshot(k)
  BY DEF Handlers, CreateNode, UpdateNode, SetNote, SetRemark, CreateSnapshot,
         DeleteSnapshot, Reindex, Edit, vars, tables
<1> QED BY <1>1, <1>2, <1>3, <1>4, <1>5, <1>6, <1>7

LEMMA StepNotesOfLiveNodes == IInv /\ [Next]_vars => NotesOfLiveNodes'
<1> SUFFICES ASSUME IInv, Handlers PROVE NotesOfLiveNodes'
  BY StepIsHandler DEF IInv
<1> USE DEF NotesOfLiveNodes
<1>0. TypeOK /\ NotesOfLiveNodes
  BY DEF IInv
<1>1. ASSUME NEW n \in Node, NEW t \in Text, SetNote(n, t) PROVE NotesOfLiveNodes'
  BY <1>0, <1>1, IdsAssumption DEF SetNote, Node, TypeOK
<1>2. ASSUME NEW v \in Vids, DeleteNode(v) PROVE NotesOfLiveNodes'
  BY <1>0, <1>2 DEF DeleteNode, Node, TypeOK
<1>3. CASE Clear
  BY <1>0, <1>3 DEF Clear, ClearedNotes, Node, TypeOK
<1>4. ASSUME NEW k \in SnapIds, LoadSnapshot(k) PROVE NotesOfLiveNodes'
  <2> SUFFICES ASSUME NEW v \in Vids, notes'[v] # NoText
               PROVE  v \in vnodes' \cup late'
    OBVIOUS
  <2>1. vnodes' = vnodes \cup snapshots[k].nodes /\ late' = late
    BY <1>4 DEF LoadSnapshot
  <2>2. v \in snapshots[k].nodes \/ v \in snapshots[k].context \cap symbols
           \/ notes[v] # NoText
    BY <1>4 DEF LoadSnapshot, RestoredNote, Node
  <2>3. symbols \cap Vids = {}
    BY <1>0, IdsAssumption DEF TypeOK
  <2> QED BY <1>0, <2>1, <2>2, <2>3
<1>5. ASSUME notes' = notes, vnodes \subseteq vnodes', late' = late
      PROVE NotesOfLiveNodes'
  BY <1>0, <1>5
<1>6. \/ notes' = notes /\ vnodes \subseteq vnodes' /\ late' = late
      \/ \E n \in Node, t \in Text : SetNote(n, t)
      \/ \E v \in Vids : DeleteNode(v)
      \/ Clear
      \/ \E k \in SnapIds : LoadSnapshot(k)
  BY DEF Handlers, CreateNode, UpdateNode, CreateEdge, DeleteEdge, SetRemark,
         CreateSnapshot, DeleteSnapshot, Reindex, vars, tables
<1> QED BY <1>1, <1>2, <1>3, <1>4, <1>5, <1>6

LEMMA StepNoLeakedRemarks == IInv /\ [Next]_vars => NoLeakedRemarks'
<1> SUFFICES ASSUME IInv, Handlers PROVE NoLeakedRemarks'
  BY StepIsHandler DEF IInv
<1> USE DEF NoLeakedRemarks
<1>0. TypeOK /\ NoLeakedRemarks
  BY DEF IInv
<1>1. ASSUME NEW p \in Pairs, NEW t \in Text, CreateEdge(p, t) PROVE NoLeakedRemarks'
  BY <1>0, <1>1 DEF CreateEdge, TypeOK
<1>2. ASSUME NEW p \in Pairs, NEW t \in Text, SetRemark(p, t) PROVE NoLeakedRemarks'
  BY <1>0, <1>2 DEF SetRemark, TypeOK
<1>3. ASSUME NEW p \in Pairs, DeleteEdge(p) PROVE NoLeakedRemarks'
  BY <1>0, <1>3 DEF DeleteEdge, DeleteEdgeAnnotation, TypeOK
<1>4. ASSUME NEW v \in Vids, DeleteNode(v) PROVE NoLeakedRemarks'
  BY <1>0, <1>4 DEF DeleteNode, CascadeManual, TypeOK
<1>5. CASE Clear
  BY <1>0, <1>5 DEF Clear, ClearedRemarks, TypeOK
<1>6. ASSUME NEW k \in SnapIds, LoadSnapshot(k) PROVE NoLeakedRemarks'
  <2> DEFINE noted == {p \in Pairs : /\ Restorable(snapshots[k], p)
                                     /\ snapshots[k].remark[p] # NoText}
  <2> SUFFICES ASSUME NEW p \in Pairs, remarks'[p] # NoText, p \notin free'
               PROVE  manual'[p] > 0
    OBVIOUS
  <2>1. manual'[p] >= manual[p] /\ manual'[p] \in Nat
    BY <1>0, <1>6 DEF LoadSnapshot, TypeOK
  <2>2. CASE p \in noted
    BY <1>6, <2>1, <2>2 DEF LoadSnapshot
  <2>3. CASE p \notin noted
    <3>1. remarks[p] # NoText /\ p \notin free
      BY <1>6, <2>3 DEF LoadSnapshot
    <3> QED BY <1>0, <2>1, <3>1 DEF TypeOK
  <2> QED BY <2>2, <2>3
<1>7. ASSUME UNCHANGED <<manual, remarks, free>> PROVE NoLeakedRemarks'
  BY <1>0, <1>7
<1>8. ASSUME NEW syms \in SUBSET Symbols, NEW cs \in SUBSET Pairs,
             NEW rebuild \in BOOLEAN, Reindex(syms, cs, rebuild)
      PROVE NoLeakedRemarks'
  BY <1>0, <1>8 DEF Reindex, Orphaned, TypeOK
<1>9. \/ UNCHANGED <<manual, remarks, free>>
      \/ \E p \in Pairs, t \in Text : CreateEdge(p, t) \/ SetRemark(p, t)
      \/ \E p \in Pairs : DeleteEdge(p)
      \/ \E v \in Vids : DeleteNode(v)
      \/ Clear
      \/ \E k \in SnapIds : LoadSnapshot(k)
      \/ \E syms \in SUBSET Symbols, cs \in SUBSET Pairs, rebuild \in BOOLEAN :
            Reindex(syms, cs, rebuild)
  BY DEF Handlers, CreateNode, UpdateNode, SetNote, CreateSnapshot,
         DeleteSnapshot, vars, tables
<1> QED BY <1>1, <1>2, <1>3, <1>4, <1>5, <1>6, <1>7, <1>8, <1>9

-----------------------------------------------------------------------------
(* The round trip of a snapshot: from the empty virtual state, and again.  *)

\* RoundTrip, for one snapshot and the tables of now.
Restored(k) ==
    LET s == snapshots[k]
    IN  /\ vnodes = s.nodes
        /\ \A v \in s.nodes :
              /\ classOf[v] \in vnodes \cup {NoNode}
              /\ s.parent[v] \in s.nodes => classOf[v] = s.parent[v]
              /\ notes[v] = s.note[v] \/ (s.note[v] = NoText /\ v \in late)
        /\ \A p \in s.edges :
              Exists(p[1]) /\ Exists(p[2]) =>
                /\ Visible(p)
                /\ remarks[p] = s.remark[p] \/ (s.remark[p] = NoText /\ p \in free)
        /\ \A p \in Pairs : manual[p] <= (IF p \in s.edges THEN 1 ELSE 0)

LEMMA RoundTripRestored == RoundTrip <=> \A k \in SnapIds : loaded = k => Restored(k)
BY DEF RoundTrip, Restored

\* The tables a load may start from: empty, or what the same load left.
LEMMA LoadRestores ==
    ASSUME IInv, NEW k \in SnapIds, LoadSnapshot(k), loaded \in {Cleared, k}
    PROVE  Restored(k)'
<1> DEFINE s == snapshots[k]
<1>0. /\ TypeOK /\ LoadedFromEmpty
      /\ NotesOfLiveNodes /\ NoLeakedRemarks
  BY DEF IInv
<1>1. loaded = k => Restored(k)
  BY RoundTripRestored DEF IInv
<1>2. /\ s \in Snapshot /\ s.nodes \subseteq Vids /\ s.edges \subseteq Pairs
      /\ s.parent \in [Vids -> Vids \cup {NoNode}]
      /\ s.note \in [Node -> Text] /\ s.remark \in [Pairs -> Text]
  BY <1>0 DEF TypeOK, Snapshot
<1>3. snapshots' = snapshots /\ symbols' = symbols /\ calls' = calls /\ late' = late
  BY DEF LoadSnapshot
<1>4. /\ vnodes = {} \/ vnodes = s.nodes
      /\ \A p \in Pairs : manual[p] <= (IF p \in s.edges THEN 1 ELSE 0)
  BY <1>0, <1>1 DEF LoadedFromEmpty, Restored, TypeOK
<1>5. vnodes' = s.nodes
  BY <1>4 DEF LoadSnapshot
<1>6. ASSUME NEW v \in s.nodes
      PROVE  /\ classOf'[v] \in vnodes' \cup {NoNode}
             /\ s.parent[v] \in s.nodes => classOf'[v] = s.parent[v]
  BY <1>2, <1>5, <1>6 DEF LoadSnapshot, RestoredParent
<1>7. ASSUME NEW v \in s.nodes
      PROVE  notes'[v] = s.note[v] \/ (s.note[v] = NoText /\ v \in late')
  <2>1. CASE s.note[v] # NoText
    BY <1>2, <2>1 DEF LoadSnapshot, RestoredNote, Node
  <2>2. CASE s.note[v] = NoText
    <3>1. notes'[v] = notes[v]
      BY <1>2, <2>2 DEF LoadSnapshot, RestoredNote, Node
    <3>2. CASE loaded = k
      BY <1>1, <1>3, <2>2, <3>1, <3>2 DEF Restored
    <3>3. CASE loaded = Cleared
      BY <1>0, <1>2, <1>3, <2>2, <3>1, <3>3 DEF LoadedFromEmpty, NotesOfLiveNodes
    <3> QED BY <3>2, <3>3
  <2> QED BY <2>1, <2>2
<1>8. ASSUME NEW p \in s.edges, Exists(p[1])', Exists(p[2])'
      PROVE  /\ Visible(p)'
             /\ remarks'[p] = s.remark[p] \/ (s.remark[p] = NoText /\ p \in free')
  <2>0. p \in Pairs /\ manual[p] \in Nat
    BY <1>0, <1>2 DEF TypeOK
  <2>1. Restorable(s, p)
    BY <1>3, <1>5, <1>8 DEF Restorable, InSnapshot, Exists
  <2>2. Visible(p)'
    BY <1>3, <2>0, <2>1 DEF LoadSnapshot, RowMissing, Visible
  <2>3. CASE s.remark[p] # NoText
    BY <2>0, <2>1, <2>2, <2>3 DEF LoadSnapshot
  <2>4. CASE s.remark[p] = NoText
    <3>1. remarks'[p] = remarks[p] /\ (p \in free => p \in free')
      BY <2>0, <2>4 DEF LoadSnapshot
    <3>2. CASE loaded = k
      <4>1. Exists(p[1]) /\ Exists(p[2])
        BY <1>1, <1>3, <1>5, <1>8, <3>2 DEF Exists, Restored
      <4> QED BY <1>1, <2>2, <2>4, <3>1, <3>2, <4>1 DEF Restored
    <3>3. CASE loaded = Cleared
      BY <1>0, <2>0, <2>2, <2>4, <3>1, <3>3 DEF LoadedFromEmpty, NoLeakedRemarks
    <3> QED BY <3>2, <3>3
  <2> QED BY <2>2, <2>3, <2>4
<1>9. ASSUME NEW p \in Pairs
      PROVE  manual'[p] <= (IF p \in s.edges THEN 1 ELSE 0)
  BY <1>0, <1>4, <1>9 DEF LoadSnapshot, Restorable, RowMissing, TypeOK
<1> QED BY <1>3, <1>5, <1>6, <1>7, <1>8, <1>9 DEF Restored

LEMMA StepRoundTrip == IInv /\ [Next]_vars => RoundTrip'
<1> SUFFICES ASSUME IInv, Handlers PROVE RoundTrip'
  BY StepIsHandler DEF IInv
<1>0. TypeOK /\ LoadedFromEmpty /\ RoundTrip
  BY DEF IInv
<1>1. CASE loaded' = Nowhere
  BY <1>1, NamesAssumption DEF RoundTrip
<1>2. CASE Clear
  BY <1>2, NamesAssumption DEF RoundTrip, Clear
<1>3. ASSUME NEW k \in SnapIds, LoadSnapshot(k) PROVE RoundTrip'
  <2>1. CASE loaded \in {Cleared, k}
    <3>1. loaded' = k
      BY <1>3, <2>1 DEF LoadSnapshot
    <3>2. Restored(k)'
      BY <1>3, <2>1, LoadRestores
    <3> QED BY <3>1, <3>2 DEF RoundTrip, Restored
  <2>2. CASE loaded \notin {Cleared, k}
    BY <1>3, <2>2, NamesAssumption DEF LoadSnapshot, RoundTrip
  <2> QED BY <2>1, <2>2
<1>4. ASSUME NEW k \in SnapIds, DeleteSnapshot(k), loaded' = loaded, loaded # k
      PROVE RoundTrip'
  BY <1>0, <1>4 DEF DeleteSnapshot, TypeOK, RoundTrip, Exists, Visible
<1>5. ASSUME NEW k \in SnapIds, NEW shown \in SUBSET (Symbols \cup Vids),
             NEW drawn \in SUBSET Pairs, CreateSnapshot(k, shown, drawn)
      PROVE RoundTrip'
  BY <1>0, <1>5 DEF CreateSnapshot, LoadedFromEmpty, TypeOK, RoundTrip, Exists, Visible
<1>6. CASE UNCHANGED vars
  BY <1>0, <1>6 DEF vars, tables, RoundTrip, Exists, Visible
<1>7. CASE loaded' = Cleared
  BY <1>7, NamesAssumption DEF RoundTrip
<1> QED BY <1>1, <1>2, <1>3, <1>4, <1>5, <1>6, <1>7, LoadedChanges

-----------------------------------------------------------------------------
\* Every step keeps the inductive invariant, and it holds at the start.
THEOREM Invariance == Spec => []IInv
<1>1. Init => IInv
  <2> SUFFICES ASSUME Init PROVE IInv
    OBVIOUS
  <2>1. TypeOK
    BY InitTypeOK
  <2>2. SnapshotsClosed
    BY DEF Init, SnapshotsClosed, EmptySnapshot
  <2>3. LoadedFromEmpty /\ RoundTrip
    BY NamesAssumption DEF Init, LoadedFromEmpty, RoundTrip
  <2>4. ManualEdgesHaveEnds /\ NotesOfLiveNodes /\ NoLeakedRemarks
    BY DEF Init, ManualEdgesHaveEnds, NotesOfLiveNodes, NoLeakedRemarks, Node
  <2> QED BY <2>1, <2>2, <2>3, <2>4 DEF IInv
<1>2. IInv /\ [Next]_vars => IInv'
  <2>1. IInv => TypeOK
    BY DEF IInv
  <2> QED BY <2>1, StepTypeOK, StepSnapshotsClosed, StepLoadedFromEmpty,
             StepManualEdgesHaveEnds, StepNotesOfLiveNodes, StepNoLeakedRemarks,
             StepRoundTrip DEF IInv
<1> QED BY <1>1, <1>2, PTL DEF Spec

\* The tables keep their types, whatever the client asks for.
THEOREM TypeCorrect == Spec => []TypeOK
<1>1. IInv => TypeOK
  BY DEF IInv
<1> QED BY <1>1, Invariance, PTL

\* Deleting nodes, clearing and loading leave no manual edge without its
\* virtual ends.
THEOREM EdgesHaveEnds == Spec => []ManualEdgesHaveEnds
<1>1. IInv => ManualEdgesHaveEnds
  BY DEF IInv
<1> QED BY <1>1, Invariance, PTL

\* No description outlives its virtual node unnoticed.
THEOREM NotesAreOfLiveNodes == Spec => []NotesOfLiveNodes
<1>1. IInv => NotesOfLiveNodes
  BY DEF IInv
<1> QED BY <1>1, Invariance, PTL

\* No remark of a manual edge that was erased, cleared or went with its node is
\* left for a future indexed edge; one that a rebuild of the index took may be
\* (`free', by ReplaceIndexData).
THEOREM RemarksDoNotLeak == Spec => []NoLeakedRemarks
<1>1. IInv => NoLeakedRemarks
  BY DEF IInv
<1> QED BY <1>1, Invariance, PTL

\* Clear and load restore what the snapshot captured, and loading again
\* changes nothing, whatever was indexed or rebuilt before; but for the remarks
\* that a rebuild, or a deletion that failed, had left behind.
THEOREM SnapshotRoundTrip == Spec => []RoundTrip
<1>1. IInv => RoundTrip
  BY DEF IInv
<1> QED BY <1>1, Invariance, PTL

-----------------------------------------------------------------------------
(* Every handler is a step of DaemonGraph, or none.                        *)

\* The index writes edges of symbols only.
SymbolCalls == calls \subseteq Symbols \X Symbols

Drawn == {p \in Pairs : manual[p] > 0}
Saved == {Captured(snapshots[k]) : k \in saved}

LEMMA SymbolCallsInvariant == Spec => []SymbolCalls
<1>1. Init => SymbolCalls
  BY DEF Init, SymbolCalls
<1>2. SymbolCalls /\ [Next]_vars => SymbolCalls'
  <2> SUFFICES ASSUME SymbolCalls, [Next]_vars PROVE calls' = calls \/ SymbolCalls'
    BY DEF SymbolCalls
  <2>1. ASSUME NEW syms \in SUBSET Symbols, NEW cs, NEW rebuild, Reindex(syms, cs, rebuild)
        PROVE  SymbolCalls'
    BY <2>1 DEF Reindex, SymbolCalls
  <2> QED
    BY <2>1 DEF Next, CreateNode, UpdateNode, DeleteNode, SetNote, CreateEdge, SetRemark,
        DeleteEdge, Clear, CreateSnapshot, DeleteSnapshot, LoadSnapshot, vars, tables
<1> QED BY <1>1, <1>2, PTL DEF Spec

\* The substitution of the instance, spelled out once.
LEMMA GraphStutters ==
    ASSUME symbols' \cup vnodes' = symbols \cup vnodes, calls' = calls,
           Drawn' = Drawn, Saved' = Saved
    PROVE  UNCHANGED D!vars
BY DEF D!vars, Drawn, Saved

LEMMA CreateNodeCreates ==
    ASSUME NEW v \in Vids, NEW class, CreateNode(v, class)
    PROVE  D!Create(v)
<1>1. symbols' \cup vnodes' = (symbols \cup vnodes) \cup {v}
  BY DEF CreateNode
<1>2. calls' = calls /\ manual' = manual /\ saved' = saved /\ snapshots' = snapshots
  BY DEF CreateNode
<1> QED BY <1>1, <1>2 DEF D!Create

LEMMA DeleteNodeDeletes ==
    ASSUME TypeOK, NEW v \in Vids, DeleteNode(v)
    PROVE  D!Delete(v)
<1>1. symbols' \cup vnodes' = (symbols \cup vnodes) \ {v}
  BY IdsAssumption DEF DeleteNode, TypeOK
<1>2. Drawn' = {p \in Drawn : v \notin D!Ends(p)}
  BY DEF DeleteNode, CascadeManual, Touches, Drawn, D!Ends, TypeOK
<1>3. calls' = calls /\ saved' = saved /\ snapshots' = snapshots
  BY DEF DeleteNode
<1> QED BY <1>1, <1>2, <1>3 DEF D!Delete, Drawn

LEMMA CreateEdgeDraws ==
    ASSUME TypeOK, NEW p \in Pairs, NEW t, CreateEdge(p, t)
    PROVE  D!Draw
<1>1. p \in Drawn' /\ Drawn' = Drawn \cup {p}
  BY DEF CreateEdge, Drawn, TypeOK
<1>2. D!Ends(p) \subseteq symbols \cup vnodes
  BY DEF CreateEdge, Exists, D!Ends
<1>3. calls' = calls /\ symbols' = symbols /\ vnodes' = vnodes
         /\ saved' = saved /\ snapshots' = snapshots
  BY DEF CreateEdge
<1> QED BY <1>1, <1>2, <1>3 DEF D!Draw, Drawn

LEMMA DeleteEdgeErases ==
    ASSUME TypeOK, NEW p \in Pairs, DeleteEdge(p)
    PROVE  D!Erase \/ UNCHANGED D!vars
<1>1. calls' = calls /\ symbols' = symbols /\ vnodes' = vnodes
         /\ saved' = saved /\ snapshots' = snapshots
  BY DEF DeleteEdge
<1>2. CASE manual' = [manual EXCEPT ![p] = 0] /\ p \in Drawn
  <2>1. Drawn' = Drawn \ {p}
    BY <1>2 DEF Drawn, TypeOK
  <2> QED BY <1>1, <1>2, <2>1 DEF D!Erase, Drawn
<1>3. CASE manual' = manual \/ p \notin Drawn
  <2>1. Drawn' = Drawn
    BY <1>3 DEF DeleteEdge, Drawn, TypeOK
  <2> QED BY <1>1, <2>1, GraphStutters DEF Saved
<1> QED BY <1>2, <1>3 DEF DeleteEdge

LEMMA ClearClears == TypeOK /\ Clear => D!Clear
<1> SUFFICES ASSUME TypeOK, Clear PROVE D!Clear
  OBVIOUS
<1>1. symbols' \cup vnodes' = (symbols \cup vnodes) \ Vids
  BY IdsAssumption DEF Clear, TypeOK
<1>2. Drawn' = {}
  BY DEF Clear, Drawn
<1>3. calls' = calls /\ saved' = saved /\ snapshots' = snapshots
  BY DEF Clear
<1> QED BY <1>1, <1>2, <1>3 DEF D!Clear, Drawn

LEMMA CreateSnapshotCaptures ==
    ASSUME TypeOK, NEW k \in SnapIds, NEW shown \in SUBSET (Symbols \cup Vids),
           NEW drawn, CreateSnapshot(k, shown, drawn)
    PROVE  D!Capture
<1> DEFINE g == Captured(SnapshotOf(shown, drawn))
<1>1. g.nodes = shown /\ shown # {}
  BY DEF CreateSnapshot, SnapshotOf, Captured
<1>2. /\ saved' = saved \cup {k} /\ k \notin saved
      /\ snapshots'[k] = SnapshotOf(shown, drawn)
      /\ \A j \in saved : snapshots'[j] = snapshots[j]
  BY DEF CreateSnapshot, TypeOK
<1> HIDE DEF g
<1>3. g \in Saved' /\ Saved' = Saved \cup {g}
  BY <1>2 DEF Saved, g
<1>4. calls' = calls /\ symbols' = symbols /\ vnodes' = vnodes /\ manual' = manual
  BY DEF CreateSnapshot
<1> QED BY <1>1, <1>3, <1>4 DEF D!Capture, Saved

LEMMA DeleteSnapshotForgets ==
    ASSUME TypeOK, NEW k \in SnapIds, DeleteSnapshot(k)
    PROVE  D!Forget \/ UNCHANGED D!vars
<1> DEFINE g == Captured(snapshots[k])
<1>1. /\ saved' = saved \ {k} /\ k \in saved
      /\ \A j \in saved' : snapshots'[j] = snapshots[j]
  BY DEF DeleteSnapshot, TypeOK
<1>2. calls' = calls /\ symbols' = symbols /\ vnodes' = vnodes /\ manual' = manual
  BY DEF DeleteSnapshot
<1> HIDE DEF g
<1>3. Saved' = {Captured(snapshots[j]) : j \in saved \ {k}} /\ g \in Saved
  BY <1>1 DEF Saved, g
<1>4. CASE \E j \in saved \ {k} : Captured(snapshots[j]) = g
  <2>1. Saved' = Saved
    BY <1>3, <1>4 DEF Saved, g
  <2> QED BY <1>2, <2>1, GraphStutters DEF Drawn
<1>5. CASE ~ \E j \in saved \ {k} : Captured(snapshots[j]) = g
  <2>1. Saved' = Saved \ {g}
    BY <1>1, <1>3, <1>5 DEF Saved, g
  <2> QED BY <1>2, <1>3, <2>1 DEF D!Forget, Saved
<1> QED BY <1>4, <1>5

\* What a load adds to the rows is what it adds to the graph.
LEMMA LoadSnapshotLoads ==
    ASSUME TypeOK, SymbolCalls, NEW k \in SnapIds, LoadSnapshot(k)
    PROVE  \E g \in Saved : D!Load(g)
<1> DEFINE s == snapshots[k]
<1>0. PICK g : g = Captured(s)
  OBVIOUS
<1>1. /\ s.nodes \subseteq Vids /\ s.context \subseteq Symbols /\ s.edges \subseteq Pairs
      /\ g.nodes = s.nodes \cup s.context /\ g.edges = s.edges
  BY <1>0 DEF TypeOK, Snapshot, Captured
<1>2. g \in Saved
  BY <1>0 DEF LoadSnapshot, Saved
<1>3. /\ calls' = calls /\ symbols' = symbols /\ saved' = saved /\ snapshots' = snapshots
      /\ vnodes' = vnodes \cup s.nodes
  BY DEF LoadSnapshot
<1>4. \A p \in Pairs : manual'[p] > 0 <=>
          manual[p] > 0 \/ (Restorable(s, p) /\ RowMissing(s, p))
  BY DEF LoadSnapshot, TypeOK
<1> HIDE DEF s
<1>5. g.nodes \cap Vids = s.nodes
  BY <1>1, IdsAssumption
<1>6. (symbols \cup vnodes) \cap Symbols = symbols
  BY IdsAssumption DEF TypeOK
<1>7. ASSUME NEW p \in Pairs, manual[p] = 0
      PROVE  Restorable(s, p) /\ RowMissing(s, p) <=> p \in D!Restored(g)
  <2>1. InSnapshot(s, p) => p \notin calls
    BY <1>1, IdsAssumption DEF InSnapshot, SymbolCalls
  <2>2. InSnapshot(s, p) <=> D!Ends(p) \cap g.nodes \cap Vids # {}
    BY <1>5 DEF InSnapshot, D!Ends
  <2>3. p[1] \in symbols /\ p[2] \in symbols
           <=> D!Ends(p) \subseteq (symbols \cup vnodes) \cap Symbols
    BY <1>6 DEF D!Ends
  <2> QED BY <1>1, <1>7, <2>1, <2>2, <2>3 DEF Restorable, RowMissing, D!Restored
<1>8. D!Restored(g) \subseteq Pairs
  BY <1>1 DEF D!Restored
<1>9. Drawn' = Drawn \cup D!Restored(g)
  <2>1. \A p \in Pairs : p \in Drawn' <=> p \in Drawn \cup D!Restored(g)
    BY <1>4, <1>7 DEF Drawn, TypeOK
  <2> QED BY <1>8, <2>1 DEF Drawn
<1>10. symbols' \cup vnodes' = (symbols \cup vnodes) \cup (g.nodes \cap Vids)
  BY <1>3, <1>5
<1>11. D!Load(g)
  BY <1>3, <1>9, <1>10 DEF D!Load, Drawn
<1> QED BY <1>2, <1>11

LEMMA ReindexReindexes ==
    ASSUME TypeOK, NEW syms \in SUBSET Symbols, NEW cs, NEW rebuild \in BOOLEAN,
           Reindex(syms, cs, rebuild)
    PROVE  D!Reindex
<1>1. symbols' = syms /\ calls' = cs /\ cs \subseteq syms \X syms
         /\ vnodes' = vnodes /\ manual' \in {manual, [p \in Pairs |-> 0]}
         /\ saved' = saved /\ snapshots' = snapshots
  BY DEF Reindex
<1>2. vnodes \subseteq Vids /\ symbols \subseteq Symbols
  BY DEF TypeOK
<1>3. (symbols' \cup vnodes') \cap Vids = (symbols \cup vnodes) \cap Vids
  BY <1>1, <1>2, IdsAssumption
<1>4. symbols' \cup vnodes' \subseteq Symbols \cup Vids
  BY <1>1, <1>2
<1>5. calls' \subseteq (symbols' \cup vnodes') \X (symbols' \cup vnodes')
  BY <1>1
<1> QED BY <1>1, <1>3, <1>4, <1>5 DEF D!Reindex

LEMMA StepIsDaemonGraphStep ==
    TypeOK /\ SymbolCalls /\ [Next]_vars => [D!Next]_(D!vars)
<1> SUFFICES ASSUME TypeOK, SymbolCalls, Handlers PROVE D!Next \/ UNCHANGED D!vars
  BY StepIsHandler
<1>1. ASSUME NEW v \in Vids, NEW class \in used \cup {NoNode}, CreateNode(v, class)
      PROVE D!Next
  BY <1>1, CreateNodeCreates DEF D!Next
<1>2. ASSUME NEW v \in Vids, DeleteNode(v) PROVE D!Next
  BY <1>2, DeleteNodeDeletes DEF D!Next
<1>3. ASSUME NEW p \in Pairs, NEW t \in Text, CreateEdge(p, t) PROVE D!Next
  BY <1>3, CreateEdgeDraws DEF D!Next
<1>4. ASSUME NEW p \in Pairs, DeleteEdge(p) PROVE D!Next \/ UNCHANGED D!vars
  BY <1>4, DeleteEdgeErases DEF D!Next
<1>5. CASE Clear
  BY <1>5, ClearClears DEF D!Next
<1>6. ASSUME NEW k \in SnapIds, NEW shown \in SUBSET (Symbols \cup Vids),
             NEW drawn \in SUBSET Pairs, CreateSnapshot(k, shown, drawn)
      PROVE D!Next
  BY <1>6, CreateSnapshotCaptures DEF D!Next
<1>7. ASSUME NEW k \in SnapIds, DeleteSnapshot(k) PROVE D!Next \/ UNCHANGED D!vars
  BY <1>7, DeleteSnapshotForgets DEF D!Next
<1>8. ASSUME NEW k \in SnapIds, LoadSnapshot(k) PROVE D!Next
  BY <1>8, LoadSnapshotLoads DEF D!Next, Saved
<1>9. ASSUME NEW syms \in SUBSET Symbols, NEW cs \in SUBSET Pairs,
             NEW rebuild \in BOOLEAN, Reindex(syms, cs, rebuild)
      PROVE D!Next
  BY <1>9, ReindexReindexes DEF D!Next
<1>10. CASE UNCHANGED <<symbols, calls, vnodes, manual, saved, snapshots>>
  BY <1>10 DEF D!vars
<1>11. \/ UNCHANGED <<symbols, calls, vnodes, manual, saved, snapshots>>
       \/ \E v \in Vids, class \in used \cup {NoNode} : CreateNode(v, class)
       \/ \E v \in Vids : DeleteNode(v)
       \/ \E p \in Pairs, t \in Text : CreateEdge(p, t)
       \/ \E p \in Pairs : DeleteEdge(p)
       \/ Clear
       \/ \E k \in SnapIds, shown \in SUBSET (Symbols \cup Vids) :
             \E drawn \in SUBSET Pairs : CreateSnapshot(k, shown, drawn)
       \/ \E k \in SnapIds : DeleteSnapshot(k) \/ LoadSnapshot(k)
       \/ \E syms \in SUBSET Symbols, cs \in SUBSET Pairs, rebuild \in BOOLEAN :
          Reindex(syms, cs, rebuild)
  BY DEF Handlers, UpdateNode, SetNote, SetRemark, vars, tables
<1> QED BY <1>1, <1>2, <1>3, <1>4, <1>5, <1>6, <1>7, <1>8, <1>9, <1>10, <1>11

\* The tables behind the handlers are a graph as DaemonGraph has it: one
\* request is one change of it, though it writes several tables, and so is a
\* re-index, whether it keeps the drawn edges or takes them all.
THEOREM StoreIsDaemonGraph == Spec => ImplementsDaemonGraph
<1>1. Init => D!Init
  <2> SUFFICES ASSUME Init PROVE D!Init
    OBVIOUS
  <2>1. symbols \cup vnodes \subseteq Symbols /\ calls \subseteq Symbols \X Symbols
    BY DEF Init
  <2>2. Drawn = {} /\ Saved = {}
    BY DEF Init, Drawn, Saved
  <2> QED BY <2>1, <2>2 DEF D!Init, Drawn, Saved
<1> QED BY <1>1, StepIsDaemonGraphStep, TypeCorrect, SymbolCallsInvariant, PTL
        DEF Spec, ImplementsDaemonGraph, D!Spec
=============================================================================
