------------------------------ MODULE ViewProofs ------------------------------
(***************************************************************************)
(* Proofs about the graph view: the canvas component (GraphCanvas), for    *)
(* any nodes, any graphs to display and any number of renders and inputs;  *)
(* and the state above it with its asynchronous handlers (GraphView), for  *)
(* any ids, any number of requests in flight, of events and of failures.   *)
(***************************************************************************)
EXTENDS GraphView, GraphCanvas, SequenceTheorems, TLAPS

-----------------------------------------------------------------------------
(* The canvas component.                                                   *)

\* What is in Cytoscape, and what the component believes is there.
Instance == [nodes : SUBSET Ids, parent : [Ids -> Ids \cup {NoNode}],
             kind : [Ids -> Layers], version : [Ids -> Nat], edges : SUBSET (Ids \X Ids)]
InstanceInv ==
    /\ graph \in GraphProp
    /\ cy \in Instance
    /\ cy.parent \in [Ids -> cy.nodes \cup {NoNode}]
    /\ \A n \in Ids \ cy.nodes : cy.parent[n] = NoNode
    /\ cy.edges \subseteq cy.nodes \X cy.nodes
    /\ prev = [nodes |-> cy.nodes, edges |-> cy.edges]

\* Nothing is left of a canvas that is gone.
UnmountedInv ==
    ~mounted => /\ cy.nodes = {} /\ timer = NoNode /\ ~recent /\ ~doubled
                /\ hidden = {} /\ selected = {} /\ overlay = NoNode

\* The second tap of a double tap leaves no click behind.
TapInv == timer # NoNode => ~doubled

BesideInv ==
    /\ hidden \subseteq cy.nodes /\ selected \subseteq cy.nodes
    /\ overlay # NoNode => overlay \in selected

ScalarInv ==
    /\ mounted \in BOOLEAN /\ recent \in BOOLEAN /\ drawMode \in BOOLEAN /\ doubled \in BOOLEAN
    /\ visible \in [Layers -> BOOLEAN] /\ timer \in Ids \cup {NoNode}
    /\ changes \in 0 .. MaxChanges /\ inputs \in 0 .. MaxInputs

CanvasIInv ==
    /\ InstanceInv /\ UnmountedInv /\ TapInv /\ BesideInv /\ ScalarInv
    /\ CanvasIsGraph /\ LayersAreHidden

-----------------------------------------------------------------------------
(* buildCytoscapeElements.                                                 *)

\* Elements are closed: parents and ends of edges are among the nodes.
LEMMA ElementsAreClosed ==
  ASSUME NEW g \in GraphProp
  PROVE  /\ Elements(g) \in Instance
         /\ Elements(g).nodes = g.nodes
         /\ Elements(g).parent \in [Ids -> g.nodes \cup {NoNode}]
         /\ \A n \in Ids \ g.nodes : Elements(g).parent[n] = NoNode
         /\ Elements(g).edges \subseteq g.nodes \X g.nodes
  <1> DEFINE e == Elements(g)
  <1>1. \A n \in g.nodes : EffectiveParent(g, n) \in g.nodes \cup {NoNode}
    BY DEF EffectiveParent
  <1>2. g.nodes \subseteq Ids /\ g.kind \in [Ids -> Layers] /\ g.version \in Nat
        /\ g.edges \subseteq Ids \X Ids
    BY DEF GraphProp
  <1>3. /\ e.nodes = g.nodes /\ e.kind = g.kind
        /\ e.parent = [n \in Ids |-> IF n \in g.nodes THEN EffectiveParent(g, n) ELSE NoNode]
        /\ e.version = [n \in Ids |-> g.version]
        /\ e.edges = {d \in g.edges : d[1] \in g.nodes /\ d[2] \in g.nodes}
        /\ e = [nodes |-> e.nodes, parent |-> e.parent, kind |-> e.kind,
                version |-> e.version, edges |-> e.edges]
    BY DEF Elements
  <1>4. e.parent \in [Ids -> g.nodes \cup {NoNode}]
        /\ \A n \in Ids \ g.nodes : e.parent[n] = NoNode
    BY <1>1, <1>3
  <1>5. e.edges \subseteq g.nodes \X g.nodes  BY <1>2, <1>3
  <1>6. e.edges \in SUBSET (Ids \X Ids)  BY <1>2, <1>3
  <1>7. e.version \in [Ids -> Nat]  BY <1>2, <1>3
  <1>8. e.parent \in [Ids -> Ids \cup {NoNode}]  BY <1>2, <1>4
  <1>9. e \in Instance
    <2> HIDE DEF e
    <2> QED  BY <1>2, <1>3, <1>6, <1>7, <1>8 DEF Instance
  <1> QED  BY <1>3, <1>4, <1>5, <1>9

-----------------------------------------------------------------------------
(* Cytoscape.                                                              *)

\* Nodes that hold no node beside themselves go alone.
LEMMA NothingElseWithin ==
  ASSUME NEW c \in Instance, NEW N \in SUBSET c.nodes,
         \A n \in c.nodes \ N : c.parent[n] \notin N
  PROVE  Within(c, N) = N
  <1>1. \A S \in SUBSET c.nodes :
           {m \in c.nodes : m \in N \/ c.parent[m] \in S} \subseteq S => N \subseteq S
    OBVIOUS
  <1>2. {m \in c.nodes : m \in N \/ c.parent[m] \in N} \subseteq N
    OBVIOUS
  <1>3. N \subseteq Within(c, N)  BY <1>1 DEF Within
  <1>4. Within(c, N) \subseteq N  BY <1>2 DEF Within
  <1> QED  BY <1>3, <1>4

-----------------------------------------------------------------------------
(* The batch: what was displayed becomes what is to be displayed.          *)

LEMMA DifferMakesTheGraph ==
  ASSUME InstanceInv, NEW g \in GraphProp
  PROVE  LET e == Elements(g)
             c == Differ(cy, e)
         IN  /\ c \in Instance
             /\ c.nodes = e.nodes /\ c.edges = e.edges /\ c.parent = e.parent
             /\ \A n \in c.nodes : c.kind[n] = e.kind[n] /\ c.version[n] = e.version[n]
  <1> DEFINE e == Elements(g)
             added == e.nodes \ prev.nodes
             going == prev.nodes \ e.nodes
             kept == e.nodes \cap prev.nodes
             c1 == [cy EXCEPT !.edges = @ \ (prev.edges \ e.edges)]
             c2 == AddNodes(c1, added, e)
             c3 == RefreshNodes(c2, kept \cap c2.nodes, e)
             c4 == Promote(c3, going, e.nodes)
             c5 == Remove(c4, going)
             c6 == [c5 EXCEPT !.edges = @ \cup (e.edges \ prev.edges)]
  <1>1. Differ(cy, e) = c6  BY DEF Differ
  <1>2. /\ e \in Instance /\ e.nodes \in SUBSET Ids
        /\ e.parent \in [Ids -> e.nodes \cup {NoNode}]
        /\ \A n \in Ids \ e.nodes : e.parent[n] = NoNode
        /\ e.edges \subseteq e.nodes \X e.nodes
    BY ElementsAreClosed DEF Instance
  <1>3. /\ cy \in Instance /\ prev.nodes = cy.nodes /\ prev.edges = cy.edges
        /\ prev.nodes \in SUBSET Ids /\ NoNode \notin Ids
        /\ cy.edges \subseteq cy.nodes \X cy.nodes
        /\ cy.parent \in [Ids -> cy.nodes \cup {NoNode}]
        /\ \A n \in Ids \ cy.nodes : cy.parent[n] = NoNode
    BY GraphsAssumption DEF InstanceInv, Instance
  <1> HIDE DEF e
  <1>4. /\ c1 \in Instance /\ c1.nodes = cy.nodes /\ c1.edges = cy.edges \cap e.edges
        /\ c1.parent = cy.parent
    BY <1>3 DEF Instance
  <1> HIDE DEF c1
  <1>5. /\ c2 \in Instance /\ c2.nodes = cy.nodes \cup e.nodes
        /\ c2.edges = cy.edges \cap e.edges
        /\ \A n \in Ids \ added : c2.parent[n] = cy.parent[n]
        /\ \A n \in added : /\ c2.parent[n] = e.parent[n]
                            /\ c2.kind[n] = e.kind[n] /\ c2.version[n] = e.version[n]
    <2>1. added \in SUBSET Ids  BY <1>2
    <2>2. /\ c2 \in Instance /\ c2.nodes = c1.nodes \cup added /\ c2.edges = c1.edges
          /\ \A n \in Ids : n \notin added => c2.parent[n] = c1.parent[n]
          /\ \A n \in added :
               /\ c2.parent[n] = IF e.parent[n] \in c1.nodes \cup added
                                 THEN e.parent[n] ELSE NoNode
               /\ c2.kind[n] = e.kind[n] /\ c2.version[n] = e.version[n]
      <3> HIDE DEF added
      <3> QED  BY <2>1, <1>2, <1>4 DEF AddNodes, Instance
    <2>3. \A n \in added : e.parent[n] \in e.nodes \cup {NoNode}  BY <1>2
    <2>4. c1.nodes \cup added = cy.nodes \cup e.nodes  BY <1>3, <1>4
    <2> HIDE DEF c2
    <2> QED  BY <2>2, <2>3, <2>4, <1>4
  <1> HIDE DEF c2
  <1>6. /\ c3 \in Instance /\ c3.nodes = cy.nodes \cup e.nodes
        /\ c3.edges = cy.edges \cap e.edges
        /\ \A n \in Ids \ e.nodes : c3.parent[n] = cy.parent[n]
        /\ \A n \in e.nodes : /\ c3.parent[n] = e.parent[n]
                              /\ c3.kind[n] = e.kind[n] /\ c3.version[n] = e.version[n]
    <2>1. kept \cap c2.nodes = kept /\ kept \in SUBSET Ids  BY <1>2, <1>5
    <2>2. c3 = RefreshNodes(c2, kept, e)  BY <2>1
    <2> HIDE DEF c3, kept
    <2>3. /\ c3 \in Instance /\ c3.nodes = c2.nodes /\ c3.edges = c2.edges
          /\ \A n \in Ids : n \notin kept =>
               /\ c3.parent[n] = c2.parent[n]
               /\ c3.kind[n] = c2.kind[n] /\ c3.version[n] = c2.version[n]
          /\ \A n \in kept : /\ c3.parent[n] = e.parent[n]
                             /\ c3.kind[n] = e.kind[n] /\ c3.version[n] = e.version[n]
      BY <2>1, <2>2, <1>2, <1>5 DEF RefreshNodes, RefreshNodesInPlace, Instance
    <2> USE DEF kept
    <2>4. \A n \in e.nodes : n \in Ids /\ (n \in kept \/ (n \in added /\ n \notin kept))
      BY <1>2
    <2>5. \A n \in Ids \ e.nodes : n \notin kept /\ n \in Ids \ added  OBVIOUS
    <2> HIDE DEF kept, added
    <2> QED  BY <2>3, <2>4, <2>5, <1>5
  <1> HIDE DEF c3
  <1>7. /\ c4 \in Instance /\ c4.nodes = cy.nodes \cup e.nodes
        /\ c4.edges = cy.edges \cap e.edges
        /\ \A n \in Ids \ e.nodes : c4.parent[n] = cy.parent[n]
        /\ \A n \in e.nodes : /\ c4.parent[n] = e.parent[n]
                              /\ c4.kind[n] = e.kind[n] /\ c4.version[n] = e.version[n]
    <2>1. \A n \in e.nodes : e.parent[n] \notin going  BY <1>2, <1>3
    <2>2. /\ c4 \in Instance /\ c4.nodes = c3.nodes /\ c4.edges = c3.edges
          /\ c4.kind = c3.kind /\ c4.version = c3.version
          /\ \A n \in Ids : c4.parent[n] = IF n \in e.nodes /\ c3.parent[n] \in going
                                         THEN NoNode ELSE c3.parent[n]
      BY <1>6 DEF Promote, Instance
    <2>3. \A n \in Ids : c4.parent[n] = c3.parent[n]  BY <2>1, <2>2, <1>6
    <2> HIDE DEF c4
    <2> QED  BY <2>2, <2>3, <1>2, <1>6
  <1> HIDE DEF c4
  <1>8. /\ c5 \in Instance /\ c5.nodes = e.nodes
        /\ c5.edges = cy.edges \cap e.edges
        /\ \A n \in Ids : c5.parent[n] = e.parent[n]
        /\ \A n \in e.nodes : c5.kind[n] = e.kind[n] /\ c5.version[n] = e.version[n]
    <2>1. going \in SUBSET c4.nodes /\ c4.nodes \ going = e.nodes  BY <1>3, <1>7
    <2>2. \A n \in c4.nodes \ going : c4.parent[n] \notin going  BY <2>1, <1>2, <1>3, <1>7
    <2>3. /\ c5 \in Instance /\ c5.nodes = e.nodes
          /\ c5.edges = {a \in c4.edges : a[1] \notin going /\ a[2] \notin going}
          /\ c5.kind = c4.kind /\ c5.version = c4.version
          /\ \A n \in Ids : c5.parent[n] = IF n \in going THEN NoNode ELSE c4.parent[n]
      <3>1. Within(c4, going) = going  BY <2>1, <2>2, <1>7, NothingElseWithin
      <3>2. c5 = [c4 EXCEPT !.nodes = @ \ going,
                            !.parent = [n \in Ids |-> IF n \in going THEN NoNode ELSE @[n]],
                            !.edges = @ \ Touching(going)]
        BY <3>1 DEF Remove
      <3> HIDE DEF c5, going
      <3>3. /\ c5 \in Instance /\ c5.nodes = c4.nodes \ going
            /\ c5.edges = c4.edges \ Touching(going)
            /\ c5.kind = c4.kind /\ c5.version = c4.version
            /\ \A n \in Ids : c5.parent[n] = IF n \in going THEN NoNode ELSE c4.parent[n]
        BY <3>2, <1>7 DEF Instance
      <3>4. c4.edges \ Touching(going) = {a \in c4.edges : a[1] \notin going /\ a[2] \notin going}
        BY <1>7 DEF Touching, Instance
      <3> QED  BY <2>1, <3>3, <3>4
    <2>4. \A a \in c4.edges : a[1] \notin going /\ a[2] \notin going  BY <1>2, <1>7
    <2>5. c5.edges = cy.edges \cap e.edges  BY <2>3, <2>4, <1>7
    <2>6. \A n \in Ids : c5.parent[n] = e.parent[n]
      <3> SUFFICES ASSUME NEW n \in Ids PROVE c5.parent[n] = e.parent[n]  OBVIOUS
      <3>1. CASE n \in e.nodes  BY <3>1, <2>3, <1>7
      <3>2. CASE n \notin e.nodes
        <4>1. e.parent[n] = NoNode  BY <3>2, <1>2
        <4>2. n \notin going => c4.parent[n] = NoNode  BY <3>2, <1>3, <1>7
        <4> QED  BY <4>1, <4>2, <2>3
      <3> QED  BY <3>1, <3>2
    <2>7. \A n \in e.nodes : c5.kind[n] = e.kind[n] /\ c5.version[n] = e.version[n]
      BY <2>3, <1>7
    <2> QED  BY <2>3, <2>5, <2>6, <2>7
  <1> HIDE DEF c5
  <1>9. /\ c6 \in Instance /\ c6.nodes = e.nodes /\ c6.edges = e.edges
        /\ c6.parent = e.parent
        /\ \A n \in e.nodes : c6.kind[n] = e.kind[n] /\ c6.version[n] = e.version[n]
    <2>1. c6.nodes = c5.nodes /\ c6.parent = c5.parent /\ c6.kind = c5.kind
          /\ c6.version = c5.version
          /\ c6.edges = c5.edges \cup (e.edges \ prev.edges)
      BY <1>8 DEF Instance
    <2>2. c6.edges = e.edges  BY <2>1, <1>3, <1>8
    <2>3. c6.parent = e.parent  BY <2>1, <1>2, <1>8 DEF Instance
    <2>4. c6 \in Instance  BY <2>2, <1>2, <1>8 DEF Instance
    <2> QED  BY <2>1, <2>2, <2>3, <2>4, <1>8
  <1> HIDE DEF c6
  <1> QED  BY <1>1, <1>9 DEF e

-----------------------------------------------------------------------------
LEMMA CanvasInitIInv == CanvasInit => CanvasIInv
  <1> SUFFICES ASSUME CanvasInit PROVE CanvasIInv  OBVIOUS
  <1>1. InstanceInv
    <2>1. graph \in GraphProp  BY DEF CanvasInit, GraphProp, Blank, NoneAt, Layers
    <2>2. cy \in Instance  BY DEF CanvasInit, Instance, Blank, NoneAt, Layers
    <2>3. /\ cy.parent \in [Ids -> cy.nodes \cup {NoNode}]
          /\ \A n \in Ids \ cy.nodes : cy.parent[n] = NoNode
          /\ cy.edges \subseteq cy.nodes \X cy.nodes
          /\ prev = [nodes |-> cy.nodes, edges |-> cy.edges]
      BY DEF CanvasInit, Blank, NoneAt
    <2> QED  BY <2>1, <2>2, <2>3 DEF InstanceInv
  <1>2. UnmountedInv /\ TapInv  BY DEF CanvasInit, UnmountedInv, TapInv
  <1>3. BesideInv  BY DEF CanvasInit, BesideInv
  <1>4. ScalarInv
    <2>1. mounted \in BOOLEAN /\ recent \in BOOLEAN /\ drawMode \in BOOLEAN
          /\ doubled \in BOOLEAN
      BY DEF CanvasInit
    <2>2. visible \in [Layers -> BOOLEAN] /\ timer \in Ids \cup {NoNode}  BY DEF CanvasInit
    <2>3. changes \in 0 .. MaxChanges /\ inputs \in 0 .. MaxInputs
      BY InputsAssumption DEF CanvasInit
    <2> QED  BY <2>1, <2>2, <2>3 DEF ScalarInv
  <1>5. CanvasIsGraph
    <2>1. graph.nodes = {} /\ graph.edges = {} /\ cy = Blank  BY DEF CanvasInit
    <2>2. /\ Elements(graph).nodes = {} /\ Elements(graph).edges = {}
          /\ Elements(graph).parent = [n \in Ids |-> NoNode]
      BY <2>1 DEF Elements
    <2>3. cy.nodes = {} /\ cy.edges = {} /\ cy.parent = [n \in Ids |-> NoNode]
      BY <2>1 DEF Blank, NoneAt
    <2> QED  BY <2>2, <2>3 DEF CanvasIsGraph
  <1>6. LayersAreHidden  BY DEF CanvasInit, LayersAreHidden, Blank
  <1> QED  BY <1>1, <1>2, <1>3, <1>4, <1>5, <1>6 DEF CanvasIInv

-----------------------------------------------------------------------------
(* What changes the elements.                                              *)

\* The effect of a render brings canvas, selection, overlay and layers along.
LEMMA GraphEffectStep ==
  ASSUME InstanceInv, BesideInv, LayersAreHidden, NEW g \in GraphProp, graph' = g,
         GraphEffect(g), mounted', visible' = visible
  PROVE  InstanceInv' /\ CanvasIsGraph' /\ BesideInv' /\ LayersAreHidden'
  <1> DEFINE e == Elements(g)
             c == Differ(cy, e)
             added == ~(e.nodes \subseteq prev.nodes /\ e.edges \subseteq prev.edges)
  <1>1. /\ cy' = c /\ prev' = [nodes |-> e.nodes, edges |-> e.edges]
        /\ selected' = selected \cap c.nodes /\ overlay' = OverlayAfter(c)
        /\ hidden' = HiddenAfter(c, added)
        /\ retyped' = IF added THEN {}
                      ELSE {n \in c.nodes : n \in retyped \/ cy.kind[n] # c.kind[n]}
    BY DEF GraphEffect
  <1>2. /\ c \in Instance /\ c.nodes = e.nodes /\ c.edges = e.edges /\ c.parent = e.parent
        /\ \A n \in c.nodes : c.kind[n] = e.kind[n] /\ c.version[n] = e.version[n]
    BY DifferMakesTheGraph
  <1>3. /\ e.nodes = g.nodes
        /\ e.parent \in [Ids -> e.nodes \cup {NoNode}]
        /\ \A n \in Ids \ e.nodes : e.parent[n] = NoNode
        /\ e.edges \subseteq e.nodes \X e.nodes
    BY ElementsAreClosed
  <1>4. Elements(graph)' = e  BY DEF Elements, EffectiveParent
  <1>5. prev.nodes = cy.nodes /\ NoNode \notin Ids /\ cy \in Instance
    BY GraphsAssumption DEF InstanceInv
  <1> HIDE DEF e, c
  <1>6. InstanceInv'  BY <1>1, <1>2, <1>3 DEF InstanceInv
  <1>7. CanvasIsGraph'  BY <1>1, <1>2, <1>4 DEF CanvasIsGraph
  <1>8. BesideInv'
    <2>1. hidden' \subseteq c.nodes  BY <1>1 DEF HiddenAfter, Hidden
    <2>2. overlay' # NoNode => overlay' \in selected'
      BY <1>1 DEF OverlayAfter, BesideInv
    <2> QED  BY <2>1, <2>2, <1>1 DEF BesideInv
  <1>9. LayersAreHidden'
    <2> SUFFICES ASSUME NEW n \in c.nodes, n \notin retyped'
                 PROVE  n \in hidden' <=> ~visible[c.kind[n]]
      BY <1>1 DEF LayersAreHidden
    <2>1. CASE added  BY <2>1, <1>1 DEF HiddenAfter, Hidden
    <2>2. CASE ~added
      <3>1. n \in cy.nodes  BY <2>2, <1>2, <1>5
      <3>2. n \notin retyped /\ cy.kind[n] = c.kind[n]  BY <2>2, <1>1
      <3>3. n \in hidden' <=> n \in hidden  BY <2>2, <1>1 DEF HiddenAfter
      <3> QED  BY <3>1, <3>2, <3>3 DEF LayersAreHidden
    <2> QED  BY <2>1, <2>2
  <1> QED  BY <1>6, <1>7, <1>8, <1>9

LEMMA NewGraphStep ==
  ASSUME CanvasIInv, NEW g \in Graphs, NewGraph(g) PROVE CanvasIInv'
  <1>1. g \in GraphProp  BY GraphsAssumption
  <1>2. /\ graph' = g /\ changes' = changes + 1 /\ changes < MaxChanges
        /\ UNCHANGED <<mounted, visible, timer, recent, doubled, drawMode, inputs>>
    BY DEF NewGraph, Change, inputVars
  <1>3. ScalarInv'
    <2>1. changes' \in 0 .. MaxChanges  BY <1>2, InputsAssumption DEF CanvasIInv, ScalarInv
    <2> QED  BY <2>1, <1>2 DEF CanvasIInv, ScalarInv
  <1>4. TapInv'  BY <1>2 DEF CanvasIInv, TapInv
  <1>5. CASE mounted
    <2>1. GraphEffect(g)  BY <1>5 DEF NewGraph
    <2>2. InstanceInv' /\ CanvasIsGraph' /\ BesideInv' /\ LayersAreHidden'
      BY <2>1, <1>1, <1>2, <1>5, GraphEffectStep DEF CanvasIInv
    <2>3. UnmountedInv'  BY <1>2, <1>5 DEF UnmountedInv
    <2> QED  BY <2>2, <2>3, <1>3, <1>4 DEF CanvasIInv
  <1>6. CASE ~mounted
    <2>1. UNCHANGED <<cy, prev, selected, overlay, hidden, retyped>>  BY <1>6 DEF NewGraph
    <2>2. InstanceInv'  BY <2>1, <1>1, <1>2 DEF CanvasIInv, InstanceInv
    <2>3. UnmountedInv' /\ BesideInv' /\ LayersAreHidden'
      BY <2>1, <1>2 DEF CanvasIInv, UnmountedInv, BesideInv, LayersAreHidden
    <2>4. CanvasIsGraph'  BY <1>2, <1>6 DEF CanvasIsGraph
    <2> QED  BY <2>2, <2>3, <2>4, <1>3, <1>4 DEF CanvasIInv
  <1> QED  BY <1>5, <1>6

LEMMA UnmountStep == ASSUME CanvasIInv, Unmount PROVE CanvasIInv'
  <1>1. /\ graph' = graph /\ ~mounted' /\ cy' = Blank /\ prev' = [nodes |-> {}, edges |-> {}]
        /\ mounted' = FALSE
        /\ selected' = {} /\ hidden' = {} /\ overlay' = NoNode /\ retyped' = {}
        /\ visible' = [l \in Layers |-> TRUE] /\ timer' = NoNode /\ recent' = FALSE
        /\ doubled' = FALSE /\ drawMode' = FALSE
        /\ changes' = changes + 1 /\ changes < MaxChanges /\ inputs' = inputs
    BY DEF Unmount, Change
  <1>2. InstanceInv'
    <2>1. cy' \in Instance  BY <1>1 DEF Instance, Blank, NoneAt, Layers
    <2>2. /\ cy'.parent \in [Ids -> cy'.nodes \cup {NoNode}]
          /\ \A n \in Ids \ cy'.nodes : cy'.parent[n] = NoNode
          /\ cy'.edges \subseteq cy'.nodes \X cy'.nodes
          /\ prev' = [nodes |-> cy'.nodes, edges |-> cy'.edges]
      BY <1>1 DEF Blank, NoneAt
    <2> QED  BY <2>1, <2>2, <1>1 DEF CanvasIInv, InstanceInv
  <1>3. UnmountedInv' /\ TapInv' /\ BesideInv' /\ CanvasIsGraph' /\ LayersAreHidden'
    BY <1>1 DEF UnmountedInv, TapInv, BesideInv, CanvasIsGraph, LayersAreHidden, Blank
  <1>4. ScalarInv'
    <2>1. changes' \in 0 .. MaxChanges  BY <1>1, InputsAssumption DEF CanvasIInv, ScalarInv
    <2>2. visible' \in [Layers -> BOOLEAN] /\ recent' \in BOOLEAN /\ drawMode' \in BOOLEAN
          /\ doubled' \in BOOLEAN /\ mounted' \in BOOLEAN
      BY <1>1
    <2> QED  BY <2>1, <2>2, <1>1 DEF CanvasIInv, ScalarInv
  <1> QED  BY <1>2, <1>3, <1>4 DEF CanvasIInv

\* A canvas that comes back starts from nothing.
LEMMA MountStep == ASSUME CanvasIInv, Mount PROVE CanvasIInv'
  <1>1. /\ mounted' = TRUE /\ GraphEffect(graph)
        /\ UNCHANGED <<graph, visible, timer, recent, doubled, drawMode, changes, inputs>>
    BY DEF Mount, inputVars
  <1>2. graph \in GraphProp  BY DEF CanvasIInv, InstanceInv
  <1>3. InstanceInv' /\ CanvasIsGraph' /\ BesideInv' /\ LayersAreHidden'
    BY <1>1, <1>2, GraphEffectStep DEF CanvasIInv
  <1>4. UnmountedInv' /\ TapInv'  BY <1>1 DEF CanvasIInv, UnmountedInv, TapInv
  <1>5. ScalarInv'  BY <1>1 DEF CanvasIInv, ScalarInv
  <1> QED  BY <1>3, <1>4, <1>5 DEF CanvasIInv

-----------------------------------------------------------------------------
(* What leaves the elements alone.                                         *)

LEMMA ElementsStay ==
  ASSUME CanvasIInv, UNCHANGED <<graph, mounted, cy, prev>>
  PROVE  InstanceInv' /\ CanvasIsGraph'
  <1>1. InstanceInv'  BY DEF CanvasIInv, InstanceInv
  <1>2. Elements(graph)' = Elements(graph)  BY DEF Elements, EffectiveParent
  <1>3. CanvasIsGraph'  BY <1>2 DEF CanvasIInv, CanvasIsGraph
  <1> QED  BY <1>1, <1>3

LEMMA LayersStay ==
  ASSUME CanvasIInv, UNCHANGED <<cy, retyped, hidden, visible>>
  PROVE  LayersAreHidden'
  BY DEF CanvasIInv, LayersAreHidden

LEMMA InputCounted ==
  ASSUME CanvasIInv, Input
  PROVE  mounted /\ inputs' \in 0 .. MaxInputs /\ changes' = changes
  BY InputsAssumption DEF CanvasIInv, ScalarInv, Input

\* Taps and changes of the selection.
LEMMA SelectionStep ==
  ASSUME CanvasIInv,
         (\E n \in Ids : TapNode(n) \/ SelectAlso(n) \/ Unselect(n)) \/ TapBackground
         \/ \E e \in cy.edges : TapEdge(e)
  PROVE  CanvasIInv'
  <1>1. /\ UNCHANGED <<graph, mounted, cy, prev, retyped, hidden, visible, drawMode>>
        /\ Input
    BY DEF TapNode, SelectAlso, Unselect, TapBackground, TapEdge, elementVars
  <1>2. InstanceInv' /\ CanvasIsGraph' /\ LayersAreHidden'
    BY <1>1, ElementsStay, LayersStay
  <1>3. mounted /\ inputs' \in 0 .. MaxInputs /\ changes' = changes  BY <1>1, InputCounted
  <1>4. UnmountedInv'  BY <1>1, <1>3 DEF UnmountedInv
  <1>5. /\ selected' \subseteq cy.nodes
        /\ overlay' # NoNode => overlay' \in selected'
    <2>1. ASSUME NEW n \in Ids, TapNode(n) \/ SelectAlso(n)
          PROVE  n \in cy.nodes /\ overlay' = n /\ n \in selected' /\ selected' \subseteq selected \cup {n}
      BY <2>1 DEF TapNode, SelectAlso
    <2>2. ASSUME NEW n \in Ids, Unselect(n)
          PROVE  selected' \subseteq selected /\ overlay' \in selected' \cup {NoNode}
      BY <2>2 DEF Unselect
    <2>3. ASSUME TapBackground \/ \E e \in cy.edges : TapEdge(e)
          PROVE  selected' = {} /\ overlay' = NoNode
      BY <2>3 DEF TapBackground, TapEdge
    <2> QED  BY <2>1, <2>2, <2>3 DEF CanvasIInv, BesideInv
  <1>6. BesideInv'  BY <1>1, <1>5 DEF CanvasIInv, BesideInv
  <1>7. /\ TapInv' /\ recent' \in BOOLEAN /\ doubled' \in BOOLEAN
        /\ timer' \in Ids \cup {NoNode}
    <2>1. ASSUME NEW n \in Ids, TapNode(n)
          PROVE  timer' = (IF recent THEN NoNode ELSE n) /\ doubled' = recent /\ recent' = ~recent
      BY <2>1 DEF TapNode, TimerAfter
    <2>2. ASSUME ~\E n \in Ids : TapNode(n)
          PROVE  UNCHANGED <<timer, doubled>> /\ (recent' = recent \/ recent' = ~recent)
      BY <2>2 DEF SelectAlso, Unselect, TapBackground, TapEdge, inputVars
    <2>3. /\ recent \in BOOLEAN /\ doubled \in BOOLEAN /\ timer \in Ids \cup {NoNode}
          /\ TapInv
      BY DEF CanvasIInv, ScalarInv
    <2>4. CASE \E n \in Ids : TapNode(n)
      <3>1. /\ timer' \in Ids \cup {NoNode} /\ doubled' = recent /\ recent' = ~recent
            /\ recent => timer' = NoNode
        BY <2>1, <2>4
      <3>2. doubled' \in BOOLEAN  BY <3>1, <2>3
      <3>3. recent' \in BOOLEAN  BY <3>1
      <3>4. TapInv'  BY <3>1 DEF TapInv
      <3> QED  BY <3>1, <3>2, <3>3, <3>4
    <2>5. CASE ~\E n \in Ids : TapNode(n)
      <3>1. UNCHANGED <<timer, doubled>> /\ (recent' = recent \/ recent' = ~recent)
        BY <2>2, <2>5
      <3>2. recent' \in BOOLEAN  BY <3>1, <2>3
      <3>3. TapInv'  BY <3>1, <2>3 DEF TapInv
      <3> QED  BY <3>1, <3>2, <3>3, <2>3
    <2> QED  BY <2>4, <2>5
  <1>8. ScalarInv'  BY <1>1, <1>3, <1>7 DEF CanvasIInv, ScalarInv
  <1> QED  BY <1>2, <1>4, <1>6, <1>7, <1>8 DEF CanvasIInv

\* The two timers.
LEMMA TimersStep ==
  ASSUME CanvasIInv, ClickTimer \/ NoLongerRecent
  PROVE  CanvasIInv' /\ (ClickTimer => ~doubled)
  <1>1. UNCHANGED <<graph, mounted, cy, prev, retyped, hidden, visible, drawMode, selected,
                    overlay, doubled, changes, inputs>>
    BY DEF ClickTimer, NoLongerRecent, elementVars
  <1>2. /\ timer' \in {timer, NoNode} /\ (recent' = recent \/ recent' = FALSE)
        /\ ClickTimer => timer # NoNode
    BY DEF ClickTimer, NoLongerRecent
  <1>3. InstanceInv' /\ CanvasIsGraph' /\ LayersAreHidden'
    BY <1>1, ElementsStay, LayersStay
  <1>4. UnmountedInv' /\ TapInv' /\ BesideInv'
    <2>1. (timer = NoNode => timer' = NoNode) /\ (~recent => ~recent')  BY <1>2
    <2>2. UnmountedInv'  BY <2>1, <1>1 DEF CanvasIInv, UnmountedInv
    <2> QED  BY <2>1, <2>2, <1>1 DEF CanvasIInv, TapInv, BesideInv
  <1>5. ScalarInv'  BY <1>1, <1>2 DEF CanvasIInv, ScalarInv
  <1>6. ClickTimer => ~doubled  BY <1>2 DEF CanvasIInv, TapInv
  <1> QED  BY <1>3, <1>4, <1>5, <1>6 DEF CanvasIInv

\* Inputs that only call App.tsx or switch the drawing of edges.
LEMMA TellingStep ==
  ASSUME CanvasIInv,
         \/ DeleteKey \/ ToggleEdgeDraw
         \/ \E n \in Ids : RightClick(n)
         \/ \E s, t \in Ids : CompleteEdge(s, t)
  PROVE  CanvasIInv'
  <1>1. /\ UNCHANGED <<graph, mounted, cy, prev, retyped, hidden, visible, selected, overlay,
                       timer, recent, doubled>>
        /\ drawMode' \in {drawMode, ~drawMode} /\ Input
    BY DEF DeleteKey, ToggleEdgeDraw, RightClick, CompleteEdge, elementVars, inputVars
  <1>2. InstanceInv' /\ CanvasIsGraph' /\ LayersAreHidden'
    BY <1>1, ElementsStay, LayersStay
  <1>3. mounted /\ inputs' \in 0 .. MaxInputs /\ changes' = changes  BY <1>1, InputCounted
  <1>4. UnmountedInv' /\ TapInv' /\ BesideInv'
    BY <1>1 DEF CanvasIInv, UnmountedInv, TapInv, BesideInv
  <1>5. ScalarInv'  BY <1>1, <1>3 DEF CanvasIInv, ScalarInv
  <1> QED  BY <1>2, <1>4, <1>5 DEF CanvasIInv

LEMMA ToggleLayerStep ==
  ASSUME CanvasIInv, NEW l \in Layers, ToggleLayer(l) PROVE CanvasIInv'
  <1>1. /\ UNCHANGED <<graph, mounted, cy, prev, selected, overlay, timer, recent, doubled,
                       drawMode>>
        /\ visible' = [visible EXCEPT ![l] = ~@] /\ hidden' = Hidden(cy, visible') /\ Input
    BY DEF ToggleLayer, inputVars
  <1>2. InstanceInv' /\ CanvasIsGraph'  BY <1>1, ElementsStay
  <1>3. mounted /\ inputs' \in 0 .. MaxInputs /\ changes' = changes  BY <1>1, InputCounted
  <1>4. LayersAreHidden' /\ hidden' \subseteq cy.nodes
    BY <1>1 DEF LayersAreHidden, Hidden
  <1>5. UnmountedInv' /\ TapInv' /\ BesideInv'
    BY <1>1, <1>3, <1>4 DEF CanvasIInv, UnmountedInv, TapInv, BesideInv
  <1>6. ScalarInv'  BY <1>1, <1>3 DEF CanvasIInv, ScalarInv
  <1> QED  BY <1>2, <1>4, <1>5, <1>6 DEF CanvasIInv

-----------------------------------------------------------------------------
LEMMA CanvasNextStep == CanvasIInv /\ [CanvasNext]_componentVars => CanvasIInv'
  <1> SUFFICES ASSUME CanvasIInv, [CanvasNext]_componentVars PROVE CanvasIInv'  OBVIOUS
  <1>1. CASE \E g \in Graphs : NewGraph(g)  BY <1>1, NewGraphStep
  <1>2. CASE Unmount \/ Mount  BY <1>2, UnmountStep, MountStep
  <1>3. CASE (\E n \in Ids : TapNode(n) \/ SelectAlso(n) \/ Unselect(n)) \/ TapBackground
             \/ \E e \in cy.edges : TapEdge(e)
    BY <1>3, SelectionStep
  <1>4. CASE ClickTimer \/ NoLongerRecent  BY <1>4, TimersStep
  <1>5. CASE \/ DeleteKey \/ ToggleEdgeDraw
             \/ \E n \in Ids : RightClick(n)
             \/ \E s, t \in Ids : CompleteEdge(s, t)
    BY <1>5, TellingStep
  <1>6. CASE \E l \in Layers : ToggleLayer(l)  BY <1>6, ToggleLayerStep
  <1>7. CASE UNCHANGED componentVars
    <2>1. UNCHANGED <<graph, mounted, cy, prev, retyped, selected, hidden, visible, overlay,
                      timer, recent, doubled, drawMode, changes, inputs>>
      BY <1>7 DEF componentVars, elementVars, inputVars
    <2>2. InstanceInv' /\ CanvasIsGraph' /\ LayersAreHidden'
      BY <2>1, ElementsStay, LayersStay
    <2>3. UnmountedInv' /\ TapInv' /\ BesideInv' /\ ScalarInv'
      BY <2>1 DEF CanvasIInv, UnmountedInv, TapInv, BesideInv, ScalarInv
    <2> QED  BY <2>2, <2>3 DEF CanvasIInv
  <1> QED  BY <1>1, <1>2, <1>3, <1>4, <1>5, <1>6, <1>7 DEF CanvasNext

LEMMA CanvasInvariance == CanvasSpec => []CanvasIInv
  BY CanvasInitIInv, CanvasNextStep, PTL DEF CanvasSpec

-----------------------------------------------------------------------------
(* Theorems.                                                               *)

\* The variables keep their types, and no edge of the canvas dangles.
THEOREM CanvasTypeCorrect == CanvasSpec => []CanvasTypeOK
  <1>1. CanvasIInv => CanvasTypeOK
    <2> SUFFICES ASSUME CanvasIInv PROVE CanvasTypeOK  OBVIOUS
    <2>1. graph.nodes \subseteq Ids  BY DEF CanvasIInv, InstanceInv, GraphProp
    <2>2. cy.nodes \subseteq Ids /\ prev.nodes \subseteq Ids
      BY DEF CanvasIInv, InstanceInv, Instance
    <2>3. /\ cy.parent \in [Ids -> cy.nodes \cup {NoNode}]
          /\ cy.edges \subseteq cy.nodes \X cy.nodes
      BY DEF CanvasIInv, InstanceInv
    <2> QED  BY <2>1, <2>2, <2>3 DEF CanvasIInv, ScalarInv, BesideInv, CanvasTypeOK
  <1> QED  BY <1>1, CanvasInvariance, PTL

\* Whatever graphs follow each other, in whatever order nodes come, go, move
\* and change their kind, the batch of differences makes of the canvas what
\* building it anew would: GraphCanvas.tsx:646-742.
THEOREM CanvasIsTheGraph == CanvasSpec => []CanvasIsGraph
  <1>1. CanvasIInv => CanvasIsGraph  BY DEF CanvasIInv
  <1> QED  BY <1>1, CanvasInvariance, PTL

\* Layers, selection and overlay follow what Cytoscape does by itself.
THEOREM BesideFollows == CanvasSpec => []KeptBesideFollows
  <1>1. CanvasIInv => KeptBesideFollows
    BY DEF CanvasIInv, BesideInv, KeptBesideFollows, OverlayIsSelected
  <1> QED  BY <1>1, CanvasInvariance, PTL

\* The click of the second tap of a double tap is never told.
THEOREM NoLateClick == CanvasSpec => NoClickAfterExpansion
  <1>1. CanvasIInv /\ [CanvasNext]_componentVars => [ClickTimer => ~doubled]_componentVars
    BY TimersStep
  <1> QED  BY <1>1, CanvasInvariance, PTL DEF CanvasSpec, NoClickAfterExpansion

-----------------------------------------------------------------------------
(* The graph view: what requests take from the daemon and make there, and  *)
(* what it means that a graph is true but for the requests in flight.      *)

Done(r) == r.reply \notin {NoReply, Error}

\* Requests that take something from the daemon, or make something there.
TakesNode(r, n) ==
    Done(r) /\ (r.op = "clear" \/ (r.op = "deleteNode" /\ r.arg = n))
TakesEdge(r, p) ==
    Done(r) /\ (\/ r.op = "clear"
                \/ r.op = "deleteNode" /\ r.arg \in Ends(p)
                \/ r.op = "deleteEdge" /\ r.arg = p)
MakesNode(r, n) == r.arg = n /\ (r.op = "note" \/ (r.op = "createNode" /\ Done(r)))
MakesEdge(r, p) == r.arg = p /\ r.op = "createEdge" /\ Done(r)

\* Requests of a handler that empties the canvas, and those after which it
\* loads the graph.
FlowEntry(r) == r.op \in {"load", "detail"} \/ r.then \in {"cleared", "snapshot"}
Rebuilds(r) == r.op \in {"clear", "load"} \/ (r.op = "get" /\ r.then \in {"cleared", "snapshot"})

After(q, i) == {j \in DOMAIN q : i < j}
NodeGoes(q, i, n) == \E j \in After(q, i) : TakesNode(q[j], n)
EdgeGoes(q, i, p) == \E j \in After(q, i) : TakesEdge(q[j], p)
NodeComes(q, i, n) == \E j \in After(q, i) : MakesNode(q[j], n)
EdgeComes(q, i, p) == \E j \in After(q, i) : MakesEdge(q[j], p)
Rebuilt(q, i) == \E j \in After(q, i) : Rebuilds(q[j])
LoadedAfter(q, i) == \E j \in After(q, i) : q[j].op = "load" /\ Done(q[j])

\* The daemon, which has d, has what g has but for what requests after the i-th
\* took; and g has what the daemon has but for what they made.
Holds(d, q, i, g) ==
    /\ \A n \in g.nodes : n \in d.nodes \/ NodeGoes(q, i, n)
    /\ \A p \in g.edges : p \in d.edges \/ EdgeGoes(q, i, p)
Complete(d, q, i, g) ==
    /\ \A n \in d.nodes : n \in g.nodes \/ NodeComes(q, i, n)
    /\ \A p \in d.edges : p \in g.edges \/ EdgeComes(q, i, p)

-----------------------------------------------------------------------------
(* The invariant.                                                          *)

Proper(r) ==
    /\ r.op \in {"createNode", "note", "deleteNode"} => r.arg \in Vids
    /\ r.op \in {"createEdge", "deleteEdge"} => r.arg \in Pairs
    /\ r.op = "expand" => r.arg \in Node
    /\ r.op = "get" /\ r.then = "add" => r.arg \in Node
    /\ r.op = "clear" => r.then \in {"cleared", "snapshot"}
    /\ r.op = "get" => r.then \in {"show", "refresh", "cleared", "snapshot", "add"}
    /\ r.op = "createNode" => r.then \in {"place", "annotate"}
    /\ r.op = "createEdge" => r.then \in {"drawn", "form"}
    /\ r.op \notin {"get", "clear", "createNode", "createEdge"} => r.then = "none"
    /\ r.reply = NoReply => r.current
    /\ r.op = "get" => r.reply # Error
ProperInv == \A i \in DOMAIN queue : Proper(queue[i])

\* Requests are served in order, and what comes after an answer that is
\* current is current.
FifoInv ==
    \A i, j \in DOMAIN queue : i < j =>
        /\ queue[j].reply # NoReply => queue[i].reply # NoReply
        /\ queue[i].current /\ queue[i].reply # NoReply => queue[j].current

\* Nobody loads a snapshot before there is one.
NotYet ==
    snapshot = NoGraph =>
        /\ ~listed
        /\ \A i \in DOMAIN queue :
              queue[i].op \notin {"load", "detail"} /\ queue[i].then # "snapshot"

\* Ids whose node is not created yet are known to nobody.
Waits(r) == r.op = "createNode" /\ r.reply = NoReply
Waiting == {i \in DOMAIN queue : Waits(queue[i])}
Born == {v \in given : \A i \in Waiting : queue[i].arg # v}
Known(g, B) ==
    g.nodes \cap Vids \subseteq B /\ \A p \in g.edges : Ends(p) \cap Vids \subseteq B
KnownRequest(r, B, G) ==
    /\ Done(r) => Known(r.reply, B)
    /\ r.op \in {"createNode", "note", "deleteNode"} /\ ~Waits(r) => r.arg \in B
    /\ Waits(r) => r.arg \in G
    /\ r.op = "createEdge" /\ Done(r) => Ends(r.arg) \cap Vids \subseteq B
IdsInv ==
    /\ nodes \cap Vids \subseteq Born
    /\ \A p \in manual : Ends(p) \cap Vids \subseteq Born
    /\ \A p \in calls : Ends(p) \subseteq Symbols
    /\ \A g \in {snapshot, ref, next, shown, display} : Known(g, Born)
    /\ \A i \in DOMAIN queue : KnownRequest(queue[i], Born, given)
    /\ \A i, j \in Waiting : queue[i].arg = queue[j].arg => i = j

\* What was taken is gone, unless it was made or loaded again.
TakenInv ==
    \A j \in DOMAIN queue : Done(queue[j]) =>
        /\ queue[j].op = "deleteNode" => queue[j].arg \notin nodes \/ LoadedAfter(queue, j)
        /\ queue[j].op = "deleteEdge" =>
              \/ queue[j].arg \notin manual \/ LoadedAfter(queue, j)
              \/ EdgeComes(queue, j, queue[j].arg)

\* A current answer is true but for what came after it.
AnswerTrue(d, q, i) ==
    Done(q[i]) /\ q[i].current =>
        /\ q[i].op \in {"get", "expand"} => Holds(d, q, i, q[i].reply)
        /\ q[i].op = "createEdge" => q[i].arg \in d.edges \/ EdgeGoes(q, i, q[i].arg)
        /\ q[i].op = "get" => d.nodes \cap Symbols \subseteq q[i].reply.nodes
        /\ q[i].op = "get" /\ ~Rebuilt(q, i) => Complete(d, q, i, q[i].reply)
AnswersInv == \A i \in DOMAIN queue : AnswerTrue(Served, queue, i)

\* And so is the view's graph.
NextInv ==
    ~behind /\ ~lost /\ ~Rebuilt(queue, 0) =>
        Holds(Served, queue, 0, next) /\ Complete(Served, queue, 0, next)

Calm == ~canvasBehind /\ ~raced
SymbolMissing(d, p) == \E n \in Ends(p) \cap Symbols : n \notin d.nodes
\* What is marked stale lacks a symbol, or is a placeholder.
StaleInv ==
    Calm => \A x \in stale :
               \/ x \in (Symbols \ nodes) \cup Files \cup Dirs
               \/ x \in Pairs /\ SymbolMissing(Served, x)

\* What is displayed is there, or about to be removed.
Visible(d, q, g, x) ==
    /\ \A n \in g.nodes : n \in d.nodes \cup x \cup Files \cup Dirs \/ NodeGoes(q, 0, n)
    /\ \A p \in g.edges : p \in d.edges \cup x \/ EdgeGoes(q, 0, p)
ShownInv == Calm => Visible(Served, queue, display, stale)
\* Answers older than the index are followed by a handler that empties the canvas.
OldInv ==
    Calm => \A j \in DOMAIN queue : ~queue[j].current =>
        ~FlowEntry(queue[j]) /\ \E k \in After(queue, j) : FlowEntry(queue[k])

\* Loading a snapshot: what it restored is in the daemon, then in the graph
\* that is fetched, but for what is taken away before the canvas is filled.
Back(d, s, q, i) ==
    /\ \A v \in s.nodes \cap Vids : v \in d.nodes \/ NodeGoes(q, i, v)
    /\ \A p \in SnapshotDisplay(s).edges :
          p \in d.edges \/ SymbolMissing(d, p) \/ EdgeGoes(q, i, p)
Fetched(d, s, q, i) ==
    /\ \A v \in s.nodes \cap Vids :
          v \in q[i].reply.nodes \/ \E j \in 1 .. i - 1 : TakesNode(q[j], v)
    /\ \A p \in SnapshotDisplay(s).edges :
          \/ p \in q[i].reply.edges \/ SymbolMissing(d, p)
          \/ \E j \in 1 .. i - 1 : TakesEdge(q[j], p)
Found(d, s, g) ==
    /\ \A v \in s.nodes \cap Vids : v \in g.nodes
    /\ \A p \in SnapshotDisplay(s).edges : p \in g.edges \/ SymbolMissing(d, p)
FetchesFor(r) == r.op = "get" /\ r.then = "snapshot"
FlowTrue(d, s, q, i) ==
    /\ q[i].op = "load" /\ Done(q[i]) => Back(d, s, q, i)
    /\ FetchesFor(q[i]) /\ ~Done(q[i]) => Back(d, s, q, 0)
    /\ FetchesFor(q[i]) /\ Done(q[i]) => Fetched(d, s, q, i)
    /\ q[i].op = "detail" =>
          /\ Holds(d, q, 0, q[i].closure)
          /\ d.nodes \cap Symbols \subseteq q[i].closure.nodes
          /\ Found(d, IF Done(q[i]) THEN q[i].reply ELSE s, q[i].closure)
FlowInv == Calm => \A i \in DOMAIN queue : FlowTrue(Served, snapshot, queue, i)

\* A view that is not behind waits for no old answer.
CurrentInv == ~behind => \A i \in DOMAIN queue : queue[i].current

QueueInv == ProperInv /\ FifoInv /\ NotYet /\ CurrentInv
ViewIInv ==
    /\ TypeOK /\ QueueInv /\ IdsInv
    /\ TakenInv /\ AnswersInv /\ NextInv
    /\ StaleInv /\ ShownInv /\ OldInv /\ FlowInv

-----------------------------------------------------------------------------
(* Graphs and requests.                                                    *)

\* What stands for no graph is none.
LEMMA GraphsAreGraphs ==
  ASSUME NEW g \in Graph
  PROVE  /\ g \notin {NoGraph, Dropped, NoReply, Error}
         /\ g.nodes \subseteq Node /\ g.edges \subseteq Pairs
  <1>1. DOMAIN g = {"nodes", "edges"}
    BY DEF Graph
  <1>2. "none" \in DOMAIN NoGraph /\ "none" \in DOMAIN Dropped
        /\ "reply" \in DOMAIN NoReply /\ "reply" \in DOMAIN Error
    BY DEF NoGraph, Dropped, NoReply, Error
  <1>3. g.nodes \subseteq Node /\ g.edges \subseteq Pairs
    BY DEF Graph
  <1> QED BY <1>1, <1>2, <1>3

\* What stands for no answer is no refusal.
LEMMA NoReplyIsNoAnswer == NoReply # Error /\ NoGraph # Dropped
  BY DEF NoReply, Error, NoGraph, Dropped

\* An answered request is a graph, and every request has its fields.
LEMMA RequestFields ==
  ASSUME NEW r \in Request
  PROVE  /\ r.arg \in Node \cup Pairs \cup {NoArg} /\ r.closure \in Graph
         /\ r.current \in BOOLEAN /\ r.reply \in Graph \cup {NoReply, Error}
         /\ Done(r) => r.reply \in Graph
  BY DEF Request, Done

-----------------------------------------------------------------------------
(* How the queue changes.                                                  *)

Unanswered(r) == r.reply = NoReply /\ r.current
\* A request is sent.
Extended(q, q2) ==
    /\ q2 \in Seq(Request) /\ Len(q2) = Len(q) + 1
    /\ \A k \in DOMAIN q : q2[k] = q[k]
    /\ Unanswered(q2[Len(q) + 1])

\* The first one is settled, and its handler may send another.
Popped(q, q2) ==
    /\ q2 \in Seq(Request) /\ Len(q) > 0
    /\ Len(q2) = Len(q) - 1 \/ (Len(q2) = Len(q) /\ Unanswered(q2[Len(q)]))
    /\ \A k \in 1 .. Len(q) - 1 : q2[k] = q[k + 1]

\* The i-th one is answered.
AnsweredAt(q, q2, i) ==
    /\ q2 \in Seq(Request) /\ Len(q2) = Len(q) /\ i \in DOMAIN q
    /\ q[i].reply = NoReply /\ q2[i].reply # NoReply
    /\ q2[i].op = q[i].op /\ q2[i].then = q[i].then /\ q2[i].arg = q[i].arg
    /\ q2[i].closure = q[i].closure /\ q2[i].current = q[i].current
    /\ \A k \in DOMAIN q \ {i} : q2[k] = q[k]

\* What followed the i-th request of q follows the j-th of q2.
Becomes(r, r2) ==
    /\ r2.op = r.op /\ r2.then = r.then /\ r2.arg = r.arg
    /\ Done(r) => Done(r2)
Follows(q, i, q2, j) ==
    \A k \in After(q, i) : \E m \in After(q2, j) : Becomes(q[k], q2[m])

\* Requests keep their place when another is sent.
LEMMA ExtendedFollows ==
  ASSUME NEW q \in Seq(Request), NEW q2, Extended(q, q2), NEW i \in 0 .. Len(q)
  PROVE  Follows(q, i, q2, i)
  <1>1. DOMAIN q = 1 .. Len(q) /\ DOMAIN q2 = 1 .. Len(q) + 1
    BY DEF Extended
  <1>2. \A k \in After(q, i) : k \in After(q2, i) /\ Becomes(q[k], q2[k])
    BY <1>1 DEF Extended, After, Becomes
  <1> QED BY <1>2 DEF Follows

\* They move up when the first one is settled.
LEMMA PoppedFollows ==
  ASSUME NEW q \in Seq(Request), NEW q2, Popped(q, q2), NEW i \in 0 .. Len(q) - 1
  PROVE  Follows(q, i + 1, q2, i)
  <1>1. DOMAIN q = 1 .. Len(q) /\ DOMAIN q2 = 1 .. Len(q2) /\ Len(q2) >= Len(q) - 1
        /\ Len(q) \in Nat /\ Len(q2) \in Nat
    BY DEF Popped
  <1>2. \A k \in After(q, i + 1) : k - 1 \in After(q2, i) /\ q2[k - 1] = q[k]
    <2> TAKE k \in After(q, i + 1)
    <2>1. k \in 1 .. Len(q) /\ i + 1 < k
      BY <1>1 DEF After
    <2>2. k - 1 \in 1 .. Len(q) - 1 /\ i < k - 1 /\ (k - 1) + 1 = k
      BY <1>1, <2>1
    <2>3. q2[k - 1] = q[(k - 1) + 1]
      BY <2>2 DEF Popped
    <2> QED BY <1>1, <2>2, <2>3 DEF After
  <1>3. \A k \in After(q, i + 1) : Becomes(q[k], q2[k - 1])
    BY <1>2 DEF Becomes
  <1> QED BY <1>2, <1>3 DEF Follows

\* They keep their place when one is answered.
LEMMA AnsweredFollows ==
  ASSUME NEW q \in Seq(Request), NEW q2, NEW i, AnsweredAt(q, q2, i), NEW j \in 0 .. Len(q)
  PROVE  Follows(q, j, q2, j)
  <1>1. DOMAIN q = 1 .. Len(q) /\ DOMAIN q2 = 1 .. Len(q)
    BY DEF AnsweredAt
  <1>2. \A k \in After(q, j) : k \in After(q2, j) /\ Becomes(q[k], q2[k])
    BY <1>1 DEF AnsweredAt, After, Becomes, Done
  <1> QED BY <1>2 DEF Follows

\* What later requests take, make or load again, they do in both queues.
LEMMA FollowsKeeps ==
  ASSUME NEW q, NEW q2, NEW i, NEW j, Follows(q, i, q2, j)
  PROVE  /\ \A n : NodeGoes(q, i, n) => NodeGoes(q2, j, n)
         /\ \A p : EdgeGoes(q, i, p) => EdgeGoes(q2, j, p)
         /\ \A n : NodeComes(q, i, n) => NodeComes(q2, j, n)
         /\ \A p : EdgeComes(q, i, p) => EdgeComes(q2, j, p)
         /\ Rebuilt(q, i) => Rebuilt(q2, j)
         /\ LoadedAfter(q, i) => LoadedAfter(q2, j)
  <1>1. \A n : NodeGoes(q, i, n) => NodeGoes(q2, j, n)
    BY DEF Follows, Becomes, NodeGoes, TakesNode
  <1>2. \A p : EdgeGoes(q, i, p) => EdgeGoes(q2, j, p)
    BY DEF Follows, Becomes, EdgeGoes, TakesEdge
  <1>3. \A n : NodeComes(q, i, n) => NodeComes(q2, j, n)
    BY DEF Follows, Becomes, NodeComes, MakesNode
  <1>4. \A p : EdgeComes(q, i, p) => EdgeComes(q2, j, p)
    BY DEF Follows, Becomes, EdgeComes, MakesEdge
  <1>5. Rebuilt(q, i) => Rebuilt(q2, j)
    BY DEF Follows, Becomes, Rebuilt, Rebuilds
  <1>6. LoadedAfter(q, i) => LoadedAfter(q2, j)
    BY DEF Follows, Becomes, LoadedAfter
  <1> QED BY <1>1, <1>2, <1>3, <1>4, <1>5, <1>6

\* A graph that held before a change holds after it if the daemon's old graph does.
LEMMA HoldsCarries ==
  ASSUME NEW q, NEW q2, NEW i, NEW j, NEW d, NEW d2, NEW g, Follows(q, i, q2, j),
         Holds(d, q, i, g), Holds(d2, q2, j, d)
  PROVE  Holds(d2, q2, j, g)
  BY FollowsKeeps DEF Holds

\* So does a graph that was complete.
LEMMA CompleteCarries ==
  ASSUME NEW q, NEW q2, NEW i, NEW j, NEW d, NEW d2, NEW g, Follows(q, i, q2, j),
         Complete(d, q, i, g), Complete(d2, q2, j, d)
  PROVE  Complete(d2, q2, j, g)
  BY FollowsKeeps DEF Complete

\* The daemon's graph holds and is complete.
LEMMA HoldsItself ==
  ASSUME NEW d, NEW q, NEW i
  PROVE  Holds(d, q, i, d) /\ Complete(d, q, i, d)
  BY DEF Holds, Complete

\* What could be displayed before a change can be after it.
LEMMA VisibleCarries ==
  ASSUME NEW q, NEW q2, NEW d, NEW d2, NEW g, NEW x, Follows(q, 0, q2, 0),
         Visible(d, q, g, x), Holds(d2, q2, 0, d)
  PROVE  Visible(d2, q2, g, x)
  BY FollowsKeeps DEF Visible, Holds

\* The same symbols are there.
SameSymbols(d, d2) == d2.nodes \cap Symbols = d.nodes \cap Symbols

\* An edge lacks a symbol as long as the same symbols are there.
LEMMA SameSymbolsMiss ==
  ASSUME NEW d, NEW d2, SameSymbols(d, d2)
  PROVE  \A p : SymbolMissing(d, p) => SymbolMissing(d2, p)
  BY DEF SameSymbols, SymbolMissing

\* What a load restored stays there but for what is taken.
LEMMA BackCarries ==
  ASSUME NEW q, NEW q2, NEW i, NEW j, NEW d, NEW d2, NEW s, Follows(q, i, q2, j),
         Back(d, s, q, i), Holds(d2, q2, j, d), SameSymbols(d, d2)
  PROVE  Back(d2, s, q2, j)
  BY FollowsKeeps, SameSymbolsMiss DEF Back, Holds

-----------------------------------------------------------------------------
(* Types.                                                                  *)

\* A new request is one, and it is not answered.
LEMMA AskIsRequest ==
  ASSUME NEW op \in {"get", "expand", "clear", "load", "detail", "createNode", "note",
                     "createEdge", "deleteNode", "deleteEdge", "drop"},
         NEW then \in {"show", "refresh", "cleared", "snapshot", "add", "place", "annotate",
                       "drawn", "form", "none"},
         NEW arg \in Node \cup Pairs \cup {NoArg}, NEW closure \in Graph
  PROVE  /\ Ask(op, then, arg, closure) \in Request
         /\ Unanswered(Ask(op, then, arg, closure))
         /\ ~Done(Ask(op, then, arg, closure))
         /\ Ask(op, then, arg, closure).op = op /\ Ask(op, then, arg, closure).then = then
         /\ Ask(op, then, arg, closure).arg = arg
         /\ Ask(op, then, arg, closure).closure = closure
  BY DEF Ask, Request, Unanswered, Done

\* So is one about nothing in particular.
LEMMA PlainIsRequest ==
  ASSUME NEW op \in {"get", "clear", "load", "drop"},
         NEW then \in {"show", "refresh", "cleared", "snapshot", "none"}
  PROVE  /\ Plain(op, then) \in Request /\ Unanswered(Plain(op, then)) /\ ~Done(Plain(op, then))
         /\ Plain(op, then).op = op /\ Plain(op, then).then = then
  <1>1. Empty \in Graph
    BY DEF Empty, Graph
  <1> QED BY <1>1, AskIsRequest DEF Plain

\* Appending a request sends it.
LEMMA SendExtends ==
  ASSUME NEW q \in Seq(Request), NEW r \in Request, Unanswered(r)
  PROVE  Extended(q, Append(q, r)) /\ Append(q, r)[Len(q) + 1] = r
  BY AppendProperties DEF Extended

\* The tail of the queue is the queue without its first request.
LEMMA TailPops ==
  ASSUME NEW q \in Seq(Request), q # <<>>
  PROVE  /\ Popped(q, Tail(q)) /\ Tail(q) \in Seq(Request) /\ Len(q) > 0
         /\ Len(Tail(q)) = Len(q) - 1 /\ Head(q) = q[1] /\ q[1] \in Request
  <1>1. Tail(q) \in Seq(Request) /\ Len(Tail(q)) = Len(q) - 1 /\ Len(q) > 0
        /\ \A k \in 1 .. Len(q) - 1 : Tail(q)[k] = q[k + 1]
    BY HeadTailProperties
  <1>2. Head(q) = q[1] /\ q[1] \in Request
    BY <1>1
  <1> QED BY <1>1, <1>2 DEF Popped

\* The same when the handler sends another.
LEMMA TailAppendPops ==
  ASSUME NEW q \in Seq(Request), q # <<>>, NEW r \in Request, Unanswered(r)
  PROVE  /\ Popped(q, Append(Tail(q), r)) /\ Append(Tail(q), r)[Len(q)] = r
         /\ Len(Append(Tail(q), r)) = Len(q)
  <1>1. Tail(q) \in Seq(Request) /\ Len(Tail(q)) = Len(q) - 1 /\ Len(q) \in Nat
        /\ \A k \in 1 .. Len(q) - 1 : Tail(q)[k] = q[k + 1]
    BY TailPops DEF Popped
  <1>2. Append(Tail(q), r) \in Seq(Request) /\ Len(Append(Tail(q), r)) = Len(q)
        /\ Append(Tail(q), r)[Len(q)] = r
        /\ \A k \in 1 .. Len(q) - 1 : Append(Tail(q), r)[k] = Tail(q)[k]
    BY <1>1, AppendProperties
  <1> QED BY <1>1, <1>2, TailPops DEF Popped

\* What the view's functions build is a graph.
LEMMA BuildersBuild ==
  ASSUME NEW g \in Graph, NEW h \in Graph
  PROVE  /\ Empty \in Graph /\ Merge(g, h) \in Graph /\ Refreshed(g, h) \in Graph
         /\ \A n : WithoutNode(g, n) \in Graph
         /\ \A p : WithoutEdge(g, p) \in Graph
         /\ \A n \in Node : NodeOnly(n) \in Graph
         /\ \A p \in Pairs : EdgeOnly(p) \in Graph
         /\ \A n \in Node : \A ids : WithNeighbors(g, n, ids) \in Graph
         /\ SnapshotDisplay(g) \in Graph /\ SnapshotStale(g, h) \subseteq Node \cup Pairs
  <1>1. g.nodes \subseteq Node /\ g.edges \subseteq Pairs
        /\ h.nodes \subseteq Node /\ h.edges \subseteq Pairs
    BY DEF Graph
  <1>2. Empty \in Graph /\ Merge(g, h) \in Graph
    BY <1>1 DEF Empty, Merge, Graph
  <1>3. (\A n : WithoutNode(g, n) \in Graph) /\ \A p : WithoutEdge(g, p) \in Graph
    BY <1>1 DEF WithoutNode, WithoutEdge, Graph
  <1>4. (\A n \in Node : NodeOnly(n) \in Graph) /\ \A p \in Pairs : EdgeOnly(p) \in Graph
    BY DEF NodeOnly, EdgeOnly, Graph
  <1>5. \A n \in Node : \A ids : WithNeighbors(g, n, ids) \in Graph
    BY <1>1 DEF WithNeighbors, Graph
  <1>6. Refreshed(g, h) \in Graph
    BY <1>1, <1>2 DEF Refreshed, Synthetic, Graph
  <1>7. SnapshotDisplay(g) \in Graph /\ SnapshotDisplay(g).nodes \subseteq Node
        /\ SnapshotDisplay(g).edges \subseteq Pairs
    BY <1>1 DEF SnapshotDisplay, Graph
  <1>8. SnapshotStale(g, h) \subseteq Node \cup Pairs
    BY <1>7 DEF SnapshotStale
  <1> QED BY <1>2, <1>3, <1>4, <1>5, <1>6, <1>7, <1>8

\* Files and directories that are listed are placeholders, and more symbols are
\* in no fewer of them.
LEMMA PlacesAreListed == \A ns : Places(ns) \subseteq Files \cup Dirs
  <1>1. (\A s \in Symbols : FileOf[s] \in Files) /\ \A f \in Files : DirOf[f] \in Dirs
    BY PlacesAssumption
  <1> QED BY <1>1 DEF Places

LEMMA PlacesGrow ==
  ASSUME NEW ns, NEW ms, ns \cap Symbols \subseteq ms
  PROVE  Places(ns) \subseteq Places(ms)
  BY DEF Places

\* What a double click adds comes from the graph it looks into.
LEMMA ExpandedFromBoth ==
  ASSUME NEW d \in Graph, NEW g \in Graph, NEW n
  PROVE  /\ Expanded(d, n, g) \in Graph
         /\ Expanded(d, n, g).nodes \subseteq d.nodes \cup g.nodes
         /\ Expanded(d, n, g).edges \subseteq d.edges \cup g.edges
  <1> DEFINE connected == {p \in g.edges : n \in Ends(p)}
             neighbors == g.nodes \cap UNION {Ends(p) \ {n} : p \in connected}
             ids == d.nodes \cup neighbors \cup {n}
             es == {p \in connected : Ends(p) \subseteq ids}
  <1>1. Expanded(d, n, g) = [nodes |-> d.nodes \cup neighbors, edges |-> d.edges \cup es]
    BY DEF Expanded, Merge
  <1>2. neighbors \subseteq g.nodes /\ es \subseteq g.edges
    OBVIOUS
  <1> HIDE DEF neighbors, es
  <1>3. d.nodes \subseteq Node /\ g.nodes \subseteq Node
        /\ d.edges \subseteq Pairs /\ g.edges \subseteq Pairs
    BY DEF Graph
  <1> QED BY <1>1, <1>2, <1>3 DEF Graph

\* The daemon serves a graph.
LEMMA ServedIsGraph ==
  ASSUME TypeOK
  PROVE  Served \in Graph /\ Served.nodes = nodes
         /\ Served.edges = {p \in calls \cup manual : Ends(p) \subseteq nodes}
  BY DEF TypeOK, Served, Graph, Node

-----------------------------------------------------------------------------
(* The steps that only send a request.                                     *)

Requested(r) ==
    /\ r \in Request /\ Unanswered(r) /\ Proper(r)
    /\ r.op \notin {"load", "detail", "note"} /\ ~FetchesFor(r)
    /\ r.then = "snapshot" => listed
    /\ r.op = "deleteNode" => r.arg \in Born
    /\ IF r.op = "createNode" THEN r.arg \notin given /\ given' = given \cup {r.arg}
                              ELSE given' = given
SendStep(r) ==
    /\ Requested(r) /\ queue' = Append(queue, r)
    /\ error' \in BOOLEAN /\ steps' \in 0 .. MaxSteps /\ fails' = fails
    /\ UNCHANGED <<nodes, calls, manual, snapshot, ref, next, lost, shown, display, stale,
                   raced, listed, behind, canvasBehind>>

\* The bound of the events is kept.
LEMMA EventsCount ==
  ASSUME TypeOK, steps < MaxSteps, steps' = steps + 1
  PROVE  steps' \in 0 .. MaxSteps
  BY BoundsAssumption DEF TypeOK

\* Load All, Refresh and Retry send a request and do nothing else.
LEMMA GetsAreSent ==
  ASSUME TypeOK, LoadGraph
  PROVE  \E r : SendStep(r)
  <1>1. PICK then \in {"show", "refresh"} : Send(Plain("get", then))
    BY DEF LoadGraph
  <1> DEFINE r == Plain("get", then)
  <1>2. /\ r \in Request /\ Unanswered(r) /\ ~Done(r) /\ r.op = "get" /\ r.then = then
    BY PlainIsRequest
  <1>3. queue' = Append(queue, r)
    BY <1>1 DEF Send
  <1> HIDE DEF r
  <1>4. Proper(r) /\ ~FetchesFor(r)
    BY <1>2, NoReplyIsNoAnswer DEF Proper, FetchesFor, Unanswered
  <1>5. Requested(r)
    BY <1>2, <1>4 DEF Requested, LoadGraph, Event
  <1>6. steps' \in 0 .. MaxSteps /\ fails' = fails /\ error' \in BOOLEAN
    BY EventsCount DEF LoadGraph, Event
  <1>7. SendStep(r)
    BY <1>3, <1>5, <1>6 DEF SendStep, LoadGraph, OnlySends, daemonVars, graphVars, canvasVars
  <1> QED BY <1>7

\* So do Clear, and loading and deleting a snapshot.
LEMMA ClearsAndDropsAreSent ==
  ASSUME TypeOK, NEW op \in {"clear", "drop"}, NEW then \in {"cleared", "snapshot", "none"},
         Click, Send(Plain(op, then)), OnlySends, UNCHANGED error,
         (op = "clear") => then # "none", (op = "drop") => then = "none",
         (then = "snapshot") => listed
  PROVE  \E r : SendStep(r)
  <1> DEFINE r == Plain(op, then)
  <1>2. /\ r \in Request /\ Unanswered(r) /\ ~Done(r) /\ r.op = op /\ r.then = then
    BY PlainIsRequest
  <1>3. queue' = Append(queue, r)
    BY DEF Send
  <1> HIDE DEF r
  <1>4. Proper(r) /\ ~FetchesFor(r)
    BY <1>2, NoReplyIsNoAnswer DEF Proper, FetchesFor, Unanswered
  <1>5. Requested(r)
    BY <1>2, <1>4 DEF Requested, Click, Event
  <1>6. steps' \in 0 .. MaxSteps /\ fails' = fails /\ error' \in BOOLEAN
    BY EventsCount DEF Click, Event, TypeOK
  <1>7. SendStep(r)
    BY <1>3, <1>5, <1>6 DEF SendStep, OnlySends, daemonVars, graphVars, canvasVars
  <1> QED BY <1>7

\* Requests about a node or an edge, but not the creation of a node.
LEMMA ChangesAreSent ==
  ASSUME TypeOK, NEW op \in {"get", "expand", "createEdge", "deleteNode", "deleteEdge"},
         NEW then \in {"add", "drawn", "form", "none"}, NEW arg \in Node \cup Pairs,
         NEW closure \in Graph,
         Click, Send(Ask(op, then, arg, closure)), OnlySends, UNCHANGED error,
         (op = "get") => then = "add", (op = "createEdge") => then \in {"drawn", "form"},
         (op \in {"expand", "deleteNode", "deleteEdge"}) => then = "none",
         (op \in {"get", "expand"}) => arg \in Node,
         (op \in {"createEdge", "deleteEdge"}) => arg \in Pairs,
         (op = "deleteNode") => arg \in Vids \cap Born
  PROVE  \E r : SendStep(r)
  <1> DEFINE r == Ask(op, then, arg, closure)
  <1>2. /\ r \in Request /\ Unanswered(r) /\ ~Done(r) /\ r.op = op /\ r.then = then
        /\ r.arg = arg
    BY AskIsRequest
  <1>3. queue' = Append(queue, r)
    BY DEF Send
  <1> HIDE DEF r
  <1>4. Proper(r) /\ ~FetchesFor(r)
    BY <1>2, NoReplyIsNoAnswer DEF Proper, FetchesFor, Unanswered
  <1>5. Requested(r)
    BY <1>2, <1>4 DEF Requested, Click, Event
  <1>6. steps' \in 0 .. MaxSteps /\ fails' = fails /\ error' \in BOOLEAN
    BY EventsCount DEF Click, Event, TypeOK
  <1>7. SendStep(r)
    BY <1>3, <1>5, <1>6 DEF SendStep, OnlySends, daemonVars, graphVars, canvasVars
  <1> QED BY <1>7

\* And the creation of a node, whose id nobody had.
LEMMA CreationsAreSent ==
  ASSUME TypeOK, NEW v \in Vids, CreateNode(v)
  PROVE  \E r : SendStep(r)
  <1>1. PICK then \in {"place", "annotate"} : Send(Ask("createNode", then, v, Empty))
    BY DEF CreateNode
  <1> DEFINE r == Ask("createNode", then, v, Empty)
  <1>2. /\ r \in Request /\ Unanswered(r) /\ ~Done(r) /\ r.op = "createNode" /\ r.then = then
        /\ r.arg = v
    <2>1. Empty \in Graph /\ v \in Node
      BY DEF Empty, Graph, Node
    <2> QED BY <2>1, AskIsRequest
  <1>3. queue' = Append(queue, r)
    BY <1>1 DEF Send
  <1> HIDE DEF r
  <1>4. Proper(r) /\ ~FetchesFor(r)
    BY <1>2, NoReplyIsNoAnswer DEF Proper, FetchesFor, Unanswered
  <1>5. Requested(r)
    BY <1>2, <1>4 DEF Requested, CreateNode
  <1>6. steps' \in 0 .. MaxSteps /\ fails' = fails /\ error' \in BOOLEAN
    BY EventsCount DEF CreateNode, TypeOK
  <1>7. SendStep(r)
    BY <1>3, <1>5, <1>6 DEF SendStep, CreateNode, OnlySends, daemonVars, graphVars, canvasVars
  <1> QED BY <1>7

Sends ==
    \/ LoadGraph \/ ClickClear \/ ClickLoadSnapshot \/ ClickDeleteSnapshot
    \/ \E n \in Node : DoubleClick(n) \/ (AddToCanvas(n) /\ ref.nodes = {})
    \/ \E v \in Vids : CreateNode(v) \/ DeleteNode(v)
    \/ \E p \in Pairs : DrawEdge(p) \/ CreateEdge(p) \/ DeleteEdge(p)

\* All the clicks that only send a request do that.
LEMMA SendsSend ==
  ASSUME TypeOK, IdsInv, Sends
  PROVE  \E r : SendStep(r)
  <1>0. Empty \in Graph /\ shown \in Graph
    BY DEF Empty, Graph, TypeOK
  <1>1. CASE LoadGraph
    BY <1>1, GetsAreSent
  <1>2. CASE ClickClear
    <2>1. Click /\ Send(Plain("clear", "cleared")) /\ OnlySends /\ UNCHANGED error
      BY <1>2 DEF ClickClear
    <2> QED BY <2>1, ClearsAndDropsAreSent
  <1>3. CASE ClickLoadSnapshot
    <2>1. Click /\ listed /\ Send(Plain("clear", "snapshot")) /\ OnlySends /\ UNCHANGED error
      BY <1>3 DEF ClickLoadSnapshot
    <2> QED BY <2>1, ClearsAndDropsAreSent
  <1>4. CASE ClickDeleteSnapshot
    <2>1. Click /\ Send(Plain("drop", "none")) /\ OnlySends /\ UNCHANGED error
      BY <1>4 DEF ClickDeleteSnapshot
    <2> QED BY <2>1, ClearsAndDropsAreSent
  <1>5. ASSUME NEW n \in Node, DoubleClick(n)
        PROVE  \E r : SendStep(r)
    <2>1. Click /\ Send(Ask("expand", "none", n, Empty)) /\ OnlySends /\ UNCHANGED error
      BY <1>5 DEF DoubleClick
    <2> QED BY <1>0, <2>1, ChangesAreSent
  <1>6. ASSUME NEW n \in Node, AddToCanvas(n), ref.nodes = {}
        PROVE  \E r : SendStep(r)
    <2>1. Click /\ Send(Ask("get", "add", n, shown)) /\ OnlySends /\ UNCHANGED error
      BY <1>6 DEF AddToCanvas
    <2> QED BY <1>0, <2>1, ChangesAreSent
  <1>7. ASSUME NEW v \in Vids, DeleteNode(v)
        PROVE  \E r : SendStep(r)
    <2>1. Click /\ Send(Ask("deleteNode", "none", v, Empty)) /\ OnlySends /\ UNCHANGED error
          /\ v \in shown.nodes
      BY <1>7 DEF DeleteNode
    <2>2. v \in Vids \cap Born /\ v \in Node
      BY <2>1 DEF IdsInv, Known, Node
    <2> QED BY <1>0, <2>1, <2>2, ChangesAreSent
  <1>8. ASSUME NEW p \in Pairs, DrawEdge(p)
        PROVE  \E r : SendStep(r)
    <2>1. Click /\ Send(Ask("createEdge", "drawn", p, Empty)) /\ OnlySends /\ UNCHANGED error
      BY <1>8 DEF DrawEdge
    <2> QED BY <1>0, <2>1, ChangesAreSent
  <1>9. ASSUME NEW p \in Pairs, CreateEdge(p)
        PROVE  \E r : SendStep(r)
    <2>1. Click /\ Send(Ask("createEdge", "form", p, shown)) /\ OnlySends /\ UNCHANGED error
      BY <1>9 DEF CreateEdge
    <2> QED BY <1>0, <2>1, ChangesAreSent
  <1>10. ASSUME NEW p \in Pairs, DeleteEdge(p)
         PROVE  \E r : SendStep(r)
    <2>1. Click /\ Send(Ask("deleteEdge", "none", p, Empty)) /\ OnlySends /\ UNCHANGED error
      BY <1>10 DEF DeleteEdge
    <2> QED BY <1>0, <2>1, ChangesAreSent
  <1> QED
    BY <1>1, <1>2, <1>3, <1>4, <1>5, <1>6, <1>7, <1>8, <1>9, <1>10, CreationsAreSent DEF Sends

\* The queue's part.
LEMMA SendKeepsQueue ==
  ASSUME TypeOK, QueueInv, NEW r, SendStep(r)
  PROVE  TypeOK' /\ QueueInv'
  <1> USE DEF SendStep, Requested
  <1>1. queue \in Seq(Request) /\ DOMAIN queue = 1 .. Len(queue) /\ Len(queue) \in Nat
    BY DEF TypeOK
  <1>2. Extended(queue, queue') /\ queue'[Len(queue) + 1] = r
    BY <1>1, SendExtends
  <1>3. queue' \in Seq(Request) /\ DOMAIN queue' = 1 .. Len(queue) + 1
        /\ \A k \in DOMAIN queue : queue'[k] = queue[k]
    BY <1>1, <1>2 DEF Extended
  <1>4. given' \subseteq Vids
    BY DEF TypeOK, Proper
  <1>5. TypeOK'
    BY <1>3, <1>4 DEF TypeOK
  <1>6. ProperInv'
    BY <1>1, <1>2, <1>3 DEF QueueInv, ProperInv
  <1>7. FifoInv'
    BY <1>1, <1>2, <1>3 DEF QueueInv, FifoInv, Unanswered
  <1>8. NotYet'
    BY <1>1, <1>2, <1>3 DEF QueueInv, NotYet
  <1>9. CurrentInv'
    BY <1>1, <1>2, <1>3 DEF QueueInv, CurrentInv, Unanswered
  <1> QED BY <1>5, <1>6, <1>7, <1>8, <1>9 DEF QueueInv

\* A request that is sent makes known no id that was not given out.
LEMMA SendKeepsIds ==
  ASSUME TypeOK, IdsInv, NEW r, SendStep(r)
  PROVE  IdsInv'
  <1> USE DEF SendStep, Requested
  <1>1. queue \in Seq(Request) /\ DOMAIN queue = 1 .. Len(queue) /\ Len(queue) \in Nat
    BY DEF TypeOK
  <1>2. Extended(queue, queue') /\ queue'[Len(queue) + 1] = r
    BY <1>1, SendExtends
  <1>3. DOMAIN queue' = 1 .. Len(queue) + 1
        /\ \A k \in DOMAIN queue : queue'[k] = queue[k]
    BY <1>1, <1>2 DEF Extended
  <1>4. given \subseteq given'
    OBVIOUS
  <1>5. \A i \in Waiting' : (i \in Waiting /\ queue'[i] = queue[i])
                             \/ (i = Len(queue) + 1 /\ Waits(r))
    BY <1>1, <1>2, <1>3 DEF Waiting
  <1>6. Waits(r) => r.arg \notin given
    BY DEF Waits
  <1>7. Born \subseteq Born'
    BY <1>2, <1>4, <1>5, <1>6 DEF Born
  <1>8. \A g : Known(g, Born) => Known(g, Born')
    BY <1>7 DEF Known
  <1>9. \A i \in DOMAIN queue' : KnownRequest(queue'[i], Born', given')
    <2> TAKE i \in DOMAIN queue'
    <2>1. CASE i \in DOMAIN queue
      <3>1. KnownRequest(queue[i], Born, given) /\ queue'[i] = queue[i]
        BY <1>3, <2>1 DEF IdsInv
      <3> QED BY <3>1, <1>4, <1>7, <1>8 DEF KnownRequest
    <2>2. CASE i = Len(queue) + 1
      <3>1. queue'[i] = r /\ ~Done(r)
        BY <1>2, <2>2 DEF Unanswered, Done
      <3>2. r.op \in {"createNode", "note", "deleteNode"} /\ ~Waits(r) => r.arg \in Born
        BY DEF Waits, Unanswered
      <3>3. Waits(r) => r.arg \in given'
        BY DEF Waits
      <3> QED BY <3>1, <3>2, <3>3, <1>7 DEF KnownRequest
    <2> QED BY <1>1, <1>3, <2>1, <2>2
  <1>10. \A i, j \in Waiting' : queue'[i].arg = queue'[j].arg => i = j
    <2>1. \A i \in Waiting : queue[i].arg \in given
      BY DEF IdsInv, KnownRequest, Waiting
    <2> QED BY <1>2, <1>5, <1>6, <2>1 DEF IdsInv
  <1> QED BY <1>7, <1>8, <1>9, <1>10 DEF IdsInv

\* The rest: what was sent is not answered yet.
LEMMA SendKeepsView ==
  ASSUME TypeOK, TakenInv, AnswersInv, NextInv, StaleInv, ShownInv, OldInv, FlowInv,
         NEW r, SendStep(r)
  PROVE  /\ TakenInv' /\ AnswersInv' /\ NextInv'
         /\ StaleInv' /\ ShownInv' /\ OldInv' /\ FlowInv'
  <1> USE DEF SendStep, Requested
  <1>1. queue \in Seq(Request) /\ DOMAIN queue = 1 .. Len(queue) /\ Len(queue) \in Nat
    BY DEF TypeOK
  <1>2. Extended(queue, queue') /\ queue'[Len(queue) + 1] = r
    BY <1>1, SendExtends
  <1>3. DOMAIN queue' = 1 .. Len(queue) + 1
        /\ \A k \in DOMAIN queue : queue'[k] = queue[k]
    BY <1>1, <1>2 DEF Extended
  <1>4. PICK q2 : q2 = queue'
    OBVIOUS
  <1>5. \A i \in 0 .. Len(queue) : Follows(queue, i, q2, i)
    BY <1>1, <1>2, <1>4, ExtendedFollows
  <1>6. Served' = Served /\ snapshot' = snapshot
    BY DEF Served
  <1>7. \A i \in DOMAIN q2 : Done(q2[i]) => i \in DOMAIN queue /\ q2[i] = queue[i]
    BY <1>1, <1>2, <1>3, <1>4 DEF Unanswered, Done
  <1>8. TakenInv'
    <2> SUFFICES ASSUME NEW j \in DOMAIN q2, Done(q2[j])
                 PROVE  /\ q2[j].op = "deleteNode" => q2[j].arg \notin nodes \/ LoadedAfter(q2, j)
                        /\ q2[j].op = "deleteEdge" =>
                              \/ q2[j].arg \notin manual \/ LoadedAfter(q2, j)
                              \/ EdgeComes(q2, j, q2[j].arg)
      BY <1>4 DEF TakenInv
    <2>1. j \in DOMAIN queue /\ q2[j] = queue[j] /\ Follows(queue, j, q2, j)
      BY <1>1, <1>5, <1>7
    <2>2. /\ LoadedAfter(queue, j) => LoadedAfter(q2, j)
          /\ \A p : EdgeComes(queue, j, p) => EdgeComes(q2, j, p)
      BY <2>1, FollowsKeeps
    <2> QED BY <2>1, <2>2 DEF TakenInv
  <1>9. AnswersInv'
    <2> SUFFICES ASSUME NEW i \in DOMAIN q2
                 PROVE  AnswerTrue(Served, q2, i)
      BY <1>4, <1>6 DEF AnswersInv
    <2> SUFFICES ASSUME Done(q2[i]), q2[i].current
                 PROVE  AnswerTrue(Served, q2, i)
      BY DEF AnswerTrue
    <2>1. i \in DOMAIN queue /\ q2[i] = queue[i] /\ Follows(queue, i, q2, i)
      BY <1>1, <1>5, <1>7
    <2>2. AnswerTrue(Served, queue, i)
      BY <2>1 DEF AnswersInv
    <2>3. \A g : Holds(Served, queue, i, g) => Holds(Served, q2, i, g)
      BY <2>1, HoldsCarries, HoldsItself
    <2>4. \A g : Complete(Served, queue, i, g) => Complete(Served, q2, i, g)
      BY <2>1, CompleteCarries, HoldsItself
    <2>5. /\ \A p : EdgeGoes(queue, i, p) => EdgeGoes(q2, i, p)
          /\ Rebuilt(queue, i) => Rebuilt(q2, i)
      BY <2>1, FollowsKeeps
    <2> QED BY <2>1, <2>2, <2>3, <2>4, <2>5 DEF AnswerTrue
  <1>10. Follows(queue, 0, q2, 0)
    BY <1>1, <1>5
  <1>11. NextInv'
    <2>1. \A g : Holds(Served, queue, 0, g) => Holds(Served, q2, 0, g)
      BY <1>10, HoldsCarries, HoldsItself
    <2>2. \A g : Complete(Served, queue, 0, g) => Complete(Served, q2, 0, g)
      BY <1>10, CompleteCarries, HoldsItself
    <2>3. Rebuilt(queue, 0) => Rebuilt(q2, 0)
      BY <1>10, FollowsKeeps
    <2> QED BY <1>4, <1>6, <2>1, <2>2, <2>3 DEF NextInv
  <1>12. StaleInv'
    BY <1>6 DEF StaleInv, Calm
  <1>13. ShownInv'
    <2>1. \A g, x : Visible(Served, queue, g, x) => Visible(Served, q2, g, x)
      BY <1>10, VisibleCarries, HoldsItself
    <2> QED BY <1>4, <1>6, <2>1 DEF ShownInv, Calm
  <1>14. OldInv'
    <2> SUFFICES ASSUME Calm', NEW j \in DOMAIN q2, ~q2[j].current
                 PROVE  ~FlowEntry(q2[j]) /\ \E k \in After(q2, j) : FlowEntry(q2[k])
      BY <1>4 DEF OldInv
    <2>1. Calm /\ j \in DOMAIN queue /\ q2[j] = queue[j]
      BY <1>1, <1>2, <1>3, <1>4 DEF Calm, Unanswered
    <2>2. ~FlowEntry(queue[j]) /\ \E k \in After(queue, j) : FlowEntry(queue[k])
      BY <2>1 DEF OldInv
    <2>3. \A k \in After(queue, j) : k \in After(q2, j) /\ q2[k] = queue[k]
      BY <1>1, <1>3, <1>4 DEF After
    <2> QED BY <2>1, <2>2, <2>3
  <1>15. FlowInv'
    <2> SUFFICES ASSUME Calm', NEW i \in DOMAIN q2
                 PROVE  FlowTrue(Served, snapshot, q2, i)
      BY <1>4, <1>6 DEF FlowInv
    <2>1. Calm
      BY DEF Calm
    <2>2. CASE i \in DOMAIN queue
      <3>1. FlowTrue(Served, snapshot, queue, i) /\ q2[i] = queue[i]
        BY <1>3, <1>4, <2>1, <2>2 DEF FlowInv
      <3>2. Follows(queue, i, q2, i) /\ \A j \in 1 .. i - 1 : q2[j] = queue[j]
        BY <1>1, <1>3, <1>4, <1>5, <2>2
      <3>3. SameSymbols(Served, Served)
        BY DEF SameSymbols
      <3>4. /\ Back(Served, snapshot, queue, i) => Back(Served, snapshot, q2, i)
            /\ Back(Served, snapshot, queue, 0) => Back(Served, snapshot, q2, 0)
        BY <1>10, <3>2, <3>3, BackCarries, HoldsItself
      <3>5. Fetched(Served, snapshot, queue, i) => Fetched(Served, snapshot, q2, i)
        BY <3>1, <3>2 DEF Fetched
      <3>6. \A g : Holds(Served, queue, 0, g) => Holds(Served, q2, 0, g)
        BY <1>10, HoldsCarries, HoldsItself
      <3> QED BY <3>1, <3>4, <3>5, <3>6 DEF FlowTrue
    <2>3. CASE i = Len(queue) + 1
      <3>1. q2[i] = r /\ r.op \notin {"load", "detail"} /\ ~FetchesFor(r)
        BY <1>2, <1>4, <2>3
      <3> QED BY <3>1 DEF FlowTrue
    <2> QED BY <1>1, <1>3, <1>4, <2>2, <2>3
  <1> QED BY <1>8, <1>9, <1>11, <1>12, <1>13, <1>14, <1>15

\* The clicks that only send a request keep the invariant.
LEMMA SendKeeps ==
  ASSUME ViewIInv, Sends
  PROVE  ViewIInv'
  <1>1. TypeOK /\ QueueInv /\ IdsInv
    BY DEF ViewIInv
  <1>2. PICK r : SendStep(r)
    BY <1>1, SendsSend
  <1> QED BY <1>1, <1>2, SendKeepsQueue, SendKeepsIds, SendKeepsView DEF ViewIInv

-----------------------------------------------------------------------------
(* The steps that change what the view shows and ask the daemon nothing.   *)

DisplayStep ==
    /\ display' \in Graph /\ Known(display', Born)
    /\ raced' \in BOOLEAN /\ canvasBehind' \in BOOLEAN
    /\ stale' \subseteq stale
    /\ Calm' => Calm /\ Visible(Served, queue, display', stale')
    /\ steps' \in 0 .. MaxSteps
    /\ UNCHANGED <<nodes, calls, manual, snapshot, ref, next, lost, shown, error,
                   listed, queue, behind, given, fails>>

\* So do the clicks that change the canvas alone.
LEMMA DisplayKeeps ==
  ASSUME ViewIInv, DisplayStep
  PROVE  ViewIInv'
  <1> USE DEF DisplayStep
  <1>1. Served' = Served /\ Born' = Born /\ Waiting' = Waiting
    BY DEF Served, Born, Waiting
  <1>2. TypeOK'
    BY DEF ViewIInv, TypeOK
  <1>3. QueueInv'
    BY DEF ViewIInv, QueueInv, ProperInv, FifoInv, NotYet, CurrentInv
  <1>4. IdsInv'
    BY <1>1 DEF ViewIInv, IdsInv
  <1>5. TakenInv' /\ AnswersInv' /\ NextInv'
    BY <1>1 DEF ViewIInv, TakenInv, AnswersInv, NextInv
  <1>6. StaleInv' /\ ShownInv'
    BY <1>1 DEF ViewIInv, StaleInv, ShownInv
  <1>7. OldInv'
    BY DEF ViewIInv, OldInv
  <1>8. FlowInv'
    BY <1>1 DEF ViewIInv, FlowInv
  <1> QED BY <1>2, <1>3, <1>4, <1>5, <1>6, <1>7, <1>8 DEF ViewIInv

\* No handler empties the canvas: none loads the graph again.
LEMMA NotInFlow ==
  ASSUME NEW q, \A i \in DOMAIN q : Proper(q[i]), ~InFlow(q)
  PROVE  (\A i \in DOMAIN q : ~FlowEntry(q[i])) /\ \A i : ~Rebuilt(q, i)
  <1>1. \A i \in DOMAIN q : ~FlowEntry(q[i])
    BY DEF InFlow, FlowEntry
  <1>2. \A i \in DOMAIN q : ~Rebuilds(q[i])
    BY <1>1 DEF Rebuilds, FlowEntry, Proper
  <1> QED BY <1>1, <1>2 DEF Rebuilt, After

\* Then a ref that is not off is what the daemon has, but for the requests in flight.
LEMMA RefHolds ==
  ASSUME QueueInv, NextInv, ~RefIsOff, ~InFlow(queue)
  PROVE  ref = next /\ Holds(Served, queue, 0, ref) /\ Complete(Served, queue, 0, ref)
  <1>1. ~Rebuilt(queue, 0)
    BY NotInFlow DEF QueueInv, ProperInv
  <1> QED BY <1>1 DEF NextInv, RefIsOff

\* What is added to the canvas from a graph that holds can be seen there.
LEMMA MergeVisible ==
  ASSUME NEW d, NEW q, NEW g, NEW h, NEW x, Visible(d, q, g, x),
         \A n \in h.nodes : n \in d.nodes \cup Files \cup Dirs \/ NodeGoes(q, 0, n),
         \A p \in h.edges : p \in d.edges \/ EdgeGoes(q, 0, p)
  PROVE  Visible(d, q, Merge(g, h), x)
  <1>1. Merge(g, h).nodes = g.nodes \cup h.nodes /\ Merge(g, h).edges = g.edges \cup h.edges
    BY DEF Merge
  <1> QED BY <1>1 DEF Visible

\* Two graphs of known ids make one of known ids.
LEMMA MergeKnown ==
  ASSUME NEW g, NEW h, NEW B, Known(g, B), Known(h, B)
  PROVE  Known(Merge(g, h), B)
  BY DEF Known, Merge

\* A click is one event.
LEMMA ClicksCount ==
  ASSUME TypeOK, Click
  PROVE  steps' \in 0 .. MaxSteps /\ fails' = fails /\ given' = given
  BY EventsCount DEF Click, Event

\* Something of the graph or of the tree is put on the canvas.
LEMMA AddsKeep ==
  ASSUME ViewIInv, Click, NEW h \in Graph, Known(h, Born),
         h.nodes \subseteq ref.nodes \cup Files \cup Dirs, h.edges \subseteq ref.edges,
         Display(Merge(display, h), InFlow(queue)),
         canvasBehind' = (canvasBehind \/ RefIsOff),
         UNCHANGED <<daemonVars, graphVars, shown, stale, error, listed, queue, behind>>
  PROVE  ViewIInv'
  <1>1. display \in Graph /\ Known(display, Born) /\ raced \in BOOLEAN /\ canvasBehind \in BOOLEAN
    BY DEF ViewIInv, TypeOK, IdsInv
  <1>2. Merge(display, h) \in Graph /\ Known(Merge(display, h), Born)
    BY <1>1, BuildersBuild, MergeKnown
  <1>3. Calm' => Calm /\ ~RefIsOff /\ ~InFlow(queue)
    BY DEF Calm, Display
  <1>4. Calm' => Visible(Served, queue, Merge(display, h), stale)
    <2> SUFFICES ASSUME Calm'
                 PROVE  Visible(Served, queue, Merge(display, h), stale)
      OBVIOUS
    <2>1. Holds(Served, queue, 0, ref)
      BY <1>3, RefHolds DEF ViewIInv
    <2>2. Visible(Served, queue, display, stale)
      BY <1>3 DEF ViewIInv, ShownInv
    <2>3. \A n \in h.nodes : n \in Served.nodes \cup Files \cup Dirs \/ NodeGoes(queue, 0, n)
      BY <2>1 DEF Holds
    <2>4. \A p \in h.edges : p \in Served.edges \/ EdgeGoes(queue, 0, p)
      BY <2>1 DEF Holds
    <2> QED BY <2>2, <2>3, <2>4, MergeVisible
  <1>5. raced' \in BOOLEAN /\ canvasBehind' \in BOOLEAN /\ display' = Merge(display, h)
    BY <1>1 DEF Display, RefIsOff, InFlow, TypeOK, ViewIInv
  <1>6. steps' \in 0 .. MaxSteps /\ fails' = fails /\ given' = given
    BY ClicksCount DEF ViewIInv
  <1>7. DisplayStep
    BY <1>2, <1>3, <1>4, <1>5, <1>6 DEF DisplayStep, daemonVars, graphVars
  <1> QED BY <1>7, DisplayKeeps

\* handleAddToCanvas, when the graph was loaded.
LEMMA AddToCanvasKeeps ==
  ASSUME ViewIInv, NEW n \in Node, AddToCanvas(n), ref.nodes # {}
  PROVE  ViewIInv'
  <1> DEFINE h == WithNeighbors(ref, n, shown.nodes)
  <1>1. ref \in Graph /\ shown \in Graph /\ Known(ref, Born) /\ Known(shown, Born)
    BY DEF ViewIInv, TypeOK, IdsInv
  <1>2. /\ Click /\ n \in ref.nodes \cup Files \cup Dirs
        /\ Display(Merge(display, h), InFlow(queue))
        /\ canvasBehind' = (canvasBehind \/ RefIsOff)
        /\ UNCHANGED <<daemonVars, graphVars, shown, stale, error, listed, queue, behind>>
    BY DEF AddToCanvas, Addable
  <1>3. h.nodes = {n} /\ h.edges \subseteq ref.edges
    BY DEF WithNeighbors
  <1>4. Known(h, Born)
    BY <1>1, <1>2, <1>3, IdsAssumption DEF Known
  <1>5. h \in Graph
    BY <1>1, BuildersBuild
  <1> HIDE DEF h
  <1> QED BY <1>2, <1>3, <1>4, <1>5, AddsKeep

\* handleNodeRightClickAddParent.
LEMMA AddParentKeeps ==
  ASSUME ViewIInv, NEW n \in Node, NEW parent \in Symbols \cup Files \cup Dirs,
         AddParent(n, parent)
  PROVE  ViewIInv'
  <1> DEFINE h == NodeOnly(parent)
  <1>1. ref \in Graph /\ Known(ref, Born)
    BY DEF ViewIInv, TypeOK, IdsInv
  <1>2. /\ Click /\ parent \in ref.nodes \cup Files \cup Dirs
        /\ Display(Merge(display, h), InFlow(queue))
        /\ canvasBehind' = (canvasBehind \/ RefIsOff)
        /\ UNCHANGED <<daemonVars, graphVars, shown, stale, error, listed, queue, behind>>
    BY PlacesAreListed DEF AddParent
  <1>3. h.nodes = {parent} /\ h.edges = {}
    BY DEF NodeOnly
  <1>4. Known(h, Born)
    BY <1>1, <1>2, <1>3, IdsAssumption DEF Known
  <1>5. h \in Graph
    BY <1>1, BuildersBuild DEF Node
  <1> HIDE DEF h
  <1> QED BY <1>2, <1>3, <1>4, <1>5, AddsKeep

\* handleNodeDelete of a node that is not virtual.
LEMMA RemoveFromCanvasKeeps ==
  ASSUME ViewIInv, NEW n \in Node, RemoveFromCanvas(n)
  PROVE  ViewIInv'
  <1>1. display \in Graph /\ Known(display, Born) /\ raced \in BOOLEAN /\ canvasBehind \in BOOLEAN
    BY DEF ViewIInv, TypeOK, IdsInv
  <1>2. WithoutNode(display, n) \in Graph /\ Known(WithoutNode(display, n), Born)
    BY <1>1, BuildersBuild DEF WithoutNode, Known
  <1>3. Calm' => Calm /\ Visible(Served, queue, WithoutNode(display, n), stale')
    BY DEF RemoveFromCanvas, Display, StaleOn, Calm, ViewIInv, ShownInv, Visible, WithoutNode
  <1>4. /\ raced' \in BOOLEAN /\ canvasBehind' \in BOOLEAN /\ display' = WithoutNode(display, n)
        /\ stale' \subseteq stale
    BY <1>1 DEF RemoveFromCanvas, Display, StaleOn, InFlow
  <1>5. steps' \in 0 .. MaxSteps /\ fails' = fails /\ given' = given
    BY ClicksCount DEF ViewIInv, RemoveFromCanvas
  <1>6. DisplayStep
    BY <1>2, <1>3, <1>4, <1>5 DEF DisplayStep, RemoveFromCanvas, daemonVars, graphVars
  <1> QED BY <1>6, DisplayKeeps

\* React renders.
LEMMA RenderKeeps ==
  ASSUME ViewIInv, Render
  PROVE  ViewIInv'
  <1> USE DEF Render, daemonVars
  <1>1. Served' = Served /\ Born' = Born /\ Waiting' = Waiting /\ Calm' = Calm
    BY DEF Served, Born, Waiting, Calm
  <1>2. TypeOK'
    BY DEF ViewIInv, TypeOK
  <1>3. QueueInv'
    BY DEF ViewIInv, QueueInv, ProperInv, FifoInv, NotYet, CurrentInv
  <1>4. IdsInv'
    BY <1>1 DEF ViewIInv, IdsInv
  <1>5. TakenInv' /\ AnswersInv' /\ NextInv'
    BY <1>1 DEF ViewIInv, TakenInv, AnswersInv, NextInv
  <1>6. StaleInv' /\ ShownInv' /\ OldInv' /\ FlowInv'
    BY <1>1 DEF ViewIInv, StaleInv, ShownInv, OldInv, FlowInv
  <1> QED BY <1>2, <1>3, <1>4, <1>5, <1>6 DEF ViewIInv

\* handleCreateSnapshot.
LEMMA CaptureKeeps ==
  ASSUME ViewIInv, Capture
  PROVE  ViewIInv'
  <1> USE DEF Capture, graphVars, canvasVars
  <1>1. Served' = Served /\ Calm' = Calm
    BY DEF Served, Calm
  <1>2. steps' \in 0 .. MaxSteps /\ fails' = fails /\ given' = given
    BY ClicksCount DEF ViewIInv
  <1>3. Born' = Born /\ Waiting' = Waiting
    BY <1>2 DEF Born, Waiting
  <1>4. shown \in Graph /\ Known(shown, Born)
    BY DEF ViewIInv, TypeOK, IdsInv
  <1>5. TypeOK'
    BY <1>2, <1>4 DEF ViewIInv, TypeOK
  <1>6. QueueInv'
    <2>1. snapshot' # NoGraph
      BY <1>4, GraphsAreGraphs
    <2> QED BY <2>1 DEF ViewIInv, QueueInv, ProperInv, FifoInv, NotYet, CurrentInv
  <1>7. IdsInv'
    BY <1>2, <1>3, <1>4 DEF ViewIInv, IdsInv
  <1>8. TakenInv' /\ AnswersInv' /\ NextInv'
    BY <1>1 DEF ViewIInv, TakenInv, AnswersInv, NextInv
  <1>9. StaleInv' /\ ShownInv' /\ OldInv'
    BY <1>1 DEF ViewIInv, StaleInv, ShownInv, OldInv
  <1>10. FlowInv'
    BY DEF ViewIInv, QueueInv, NotYet, FlowInv, FlowTrue, FetchesFor
  <1> QED BY <1>5, <1>6, <1>7, <1>8, <1>9, <1>10 DEF ViewIInv

-----------------------------------------------------------------------------
(* The daemon.                                                             *)

\* After a re-indexing no answer counts as current, and the view is behind.
LEMMA ReindexKeeps ==
  ASSUME ViewIInv, NEW syms \in SUBSET Symbols,
         NEW cs \in SUBSET {p \in Pairs : Ends(p) \subseteq syms}, NEW rebuild \in BOOLEAN,
         Reindex(syms, cs, rebuild)
  PROVE  ViewIInv'
  <1>0. /\ Event /\ nodes' = syms \cup (nodes \cap Vids) /\ calls' = cs
        /\ behind' = TRUE /\ canvasBehind' = TRUE /\ manual' \in {manual, {}}
        /\ UNCHANGED <<snapshot, ref, next, lost, shown, display, stale, raced, error,
                       listed>>
    BY DEF Reindex, graphVars, canvasVars
  <1>1. queue \in Seq(Request) /\ DOMAIN queue = 1 .. Len(queue) /\ Len(queue) \in Nat
    BY DEF ViewIInv, TypeOK
  <1>2. \A i \in DOMAIN queue : queue[i] \in Request
    BY <1>1
  <1> DEFINE again(i) == [queue[i] EXCEPT !.current = queue[i].current /\ i \in Unserved]
  <1>3. queue' = [i \in DOMAIN queue |-> again(i)]
    BY DEF Reindex
  <1>4. \A i \in DOMAIN queue :
          /\ again(i) \in Request
          /\ again(i).op = queue[i].op /\ again(i).then = queue[i].then
          /\ again(i).arg = queue[i].arg /\ again(i).closure = queue[i].closure
          /\ again(i).reply = queue[i].reply
          /\ again(i).current <=> (queue[i].current /\ i \in Unserved)
    BY <1>2 DEF Request
  <1> HIDE DEF again
  <1>5. queue' \in Seq(Request) /\ DOMAIN queue' = DOMAIN queue
    <2>1. queue' \in [1 .. Len(queue) -> Request]
      BY <1>1, <1>3, <1>4
    <2> QED BY <1>1, <2>1
  <1>6. \A i \in DOMAIN queue :
          /\ queue'[i].op = queue[i].op /\ queue'[i].then = queue[i].then
          /\ queue'[i].arg = queue[i].arg /\ queue'[i].closure = queue[i].closure
          /\ queue'[i].reply = queue[i].reply
          /\ queue'[i].current <=> (queue[i].current /\ queue[i].reply = NoReply)
    BY <1>3, <1>4 DEF Unserved
  <1>8. steps' \in 0 .. MaxSteps /\ fails' = fails /\ given' = given
    BY <1>0, EventsCount DEF Event, ViewIInv
  <1>9. TypeOK'
    BY <1>0, <1>5, <1>8 DEF ViewIInv, TypeOK, Node
  <1>10. QueueInv'
    <2>1. ProperInv'
      BY <1>5, <1>6 DEF ViewIInv, QueueInv, ProperInv, Proper
    <2>2. FifoInv'
      BY <1>5, <1>6 DEF ViewIInv, QueueInv, FifoInv
    <2>3. NotYet' /\ CurrentInv'
      BY <1>0, <1>5, <1>6 DEF ViewIInv, QueueInv, NotYet, CurrentInv
    <2> QED BY <2>1, <2>2, <2>3 DEF QueueInv
  <1>11. IdsInv'
    <2>1. Waiting' = Waiting
      BY <1>5, <1>6 DEF Waiting, Waits
    <2>2. Born' = Born
      BY <1>5, <1>6, <1>8, <2>1 DEF Born, Waiting
    <2>3. nodes' \cap Vids \subseteq Born
      BY <1>0, IdsAssumption DEF ViewIInv, IdsInv
    <2>4. \A i \in DOMAIN queue' : KnownRequest(queue'[i], Born, given)
      BY <1>5, <1>6 DEF ViewIInv, IdsInv, KnownRequest, Done, Waits
    <2>5. \A i, j \in Waiting' : queue'[i].arg = queue'[j].arg => i = j
      BY <1>6, <2>1 DEF ViewIInv, IdsInv, Waiting
    <2>6. \A p \in calls' : Ends(p) \subseteq Symbols
      BY <1>0
    <2> QED BY <1>0, <1>8, <2>2, <2>3, <2>4, <2>5, <2>6 DEF ViewIInv, IdsInv
  <1>12. TakenInv'
    <2>1. \A n \in Vids : n \in nodes' => n \in nodes
      BY <1>0, IdsAssumption
    <2>2. \A j : LoadedAfter(queue, j) => LoadedAfter(queue', j)
      BY <1>5, <1>6 DEF LoadedAfter, After, Done
    <2>3. \A j, p : EdgeComes(queue, j, p) => EdgeComes(queue', j, p)
      BY <1>5, <1>6 DEF EdgeComes, MakesEdge, After, Done
    <2>4. \A j \in DOMAIN queue : queue[j].op = "deleteNode" => queue[j].arg \in Vids
      BY DEF ViewIInv, QueueInv, ProperInv, Proper
    <2> QED BY <1>0, <1>5, <1>6, <2>1, <2>2, <2>3, <2>4 DEF ViewIInv, TakenInv, Done
  <1>13. AnswersInv'
    BY <1>5, <1>6 DEF AnswersInv, AnswerTrue, Done
  <1>14. NextInv' /\ StaleInv' /\ ShownInv' /\ OldInv' /\ FlowInv'
    BY <1>0 DEF NextInv, StaleInv, ShownInv, OldInv, FlowInv, Calm
  <1> QED BY <1>9, <1>10, <1>11, <1>12, <1>13, <1>14 DEF ViewIInv

\* What the daemon does with a request, and answers.
SameDaemon == UNCHANGED <<nodes, manual>>
Effected(r, a) ==
    \/ r.op = "get" /\ a = Served /\ SameDaemon
    \/ /\ r.op = "expand" /\ SameDaemon
       /\ \/ a = Error
          \/ a \in Graph /\ a.nodes \subseteq Served.nodes /\ a.edges \subseteq Served.edges
    \/ r.op = "detail" /\ SameDaemon /\ (a = Error \/ (Kept /\ a = snapshot))
    \/ r.op \in {"note", "drop"} /\ a = Empty /\ SameDaemon
    \/ r.op \in {"load", "createEdge"} /\ a = Error /\ SameDaemon
    \/ /\ r.op = "load" /\ Kept /\ a = Empty
       /\ nodes' = nodes \cup (snapshot.nodes \cap Vids) /\ manual' = manual \cup RestoredEdges
    \/ r.op = "createNode" /\ a = Empty /\ nodes' = nodes \cup {r.arg} /\ manual' = manual
    \/ /\ r.op = "deleteNode" /\ a = Empty
       /\ nodes' = nodes \ {r.arg} /\ manual' = {p \in manual : r.arg \notin Ends(p)}
    \/ /\ r.op = "createEdge" /\ a = Empty /\ Ends(r.arg) \subseteq nodes
       /\ nodes' = nodes /\ manual' = manual \cup {r.arg}
    \/ r.op = "deleteEdge" /\ a = Empty /\ nodes' = nodes /\ manual' = manual \ {r.arg}
    \/ r.op = "clear" /\ a = Empty /\ nodes' = nodes \cap Symbols /\ manual' = {}
ServeStep(i) ==
    /\ AnsweredAt(queue, queue', i) /\ queue'[i].reply \in Graph \cup {Error}
    /\ \A j \in 1 .. i - 1 : queue[j].reply # NoReply
    /\ snapshot' = IF queue[i].op = "drop" THEN Dropped ELSE snapshot
    /\ Effected(queue[i], queue'[i].reply)
    /\ UNCHANGED <<calls, ref, next, lost, shown, display, stale, raced, error, listed,
                   behind, canvasBehind, given, steps, fails>>

\* The daemon carries out the oldest request, or refuses it.
LEMMA ServeServes ==
  ASSUME TypeOK, Serve
  PROVE  \E i \in DOMAIN queue : ServeStep(i)
  <1>1. queue \in Seq(Request) /\ DOMAIN queue = 1 .. Len(queue) /\ Len(queue) \in Nat
    BY DEF TypeOK
  <1>2. PICK i \in Unserved :
          /\ \A j \in Unserved : i <= j
          /\ queue' = [queue EXCEPT ![i].reply =
                          IF Refused(queue[i]) THEN Error ELSE Answer(queue[i])]
          /\ IF Refused(queue[i]) THEN UNCHANGED <<nodes, manual>> ELSE Effect(queue[i])
          /\ snapshot' = IF queue[i].op = "drop" THEN Dropped ELSE snapshot
          /\ UNCHANGED <<calls, ref, next, lost, shown, display, stale, raced, error, listed,
                         behind, canvasBehind, given, steps, fails>>
    BY DEF Serve, graphVars, canvasVars
  <1>3. i \in 1 .. Len(queue) /\ queue[i].reply = NoReply
        /\ \A j \in 1 .. i - 1 : queue[j].reply # NoReply
    BY <1>1, <1>2 DEF Unserved
  <1> DEFINE r == queue[i]
             a == IF Refused(r) THEN Error ELSE Answer(r)
  <1>4. r \in Request
    BY <1>1, <1>3
  <1> HIDE DEF r
  <1>5. Empty \in Graph /\ Served \in Graph
    BY ServedIsGraph DEF Empty, Graph
  <1>6. Effected(r, a) /\ a \in Graph \cup {Error}
    <2>1. CASE Refused(r)
      BY <1>2, <2>1 DEF r, Refused, Effected, SameDaemon
    <2>2. CASE ~Refused(r)
      <3>1. Effect(r) /\ a = Answer(r)
        BY <1>2, <2>2 DEF r
      <3>2. CASE r.op = "get"
        BY <1>5, <3>1, <3>2 DEF Effect, Answer, Effected, SameDaemon
      <3>3. CASE r.op = "expand"
        <4> DEFINE ns == {r.arg} \cup UNION {Ends(p) : p \in {q \in Served.edges : r.arg \in Ends(q)}}
                   es == {p \in Served.edges : r.arg \in Ends(p)}
        <4>1. a = Error \/ (r.arg \in nodes /\ a = [nodes |-> ns, edges |-> es])
          BY <3>1, <3>3 DEF Answer
        <4>2. (r.arg \in nodes => ns \subseteq nodes) /\ es \subseteq Served.edges
          BY DEF Served
        <4> HIDE DEF ns, es
        <4>3. Served.nodes = nodes /\ nodes \subseteq Node /\ Served.edges \subseteq Pairs
          BY ServedIsGraph DEF TypeOK, Node
        <4>4. SameDaemon
          BY <3>1, <3>3 DEF Effect, SameDaemon
        <4> HIDE DEF a
        <4>5. a = Error \/ (a \in Graph /\ a.nodes \subseteq Served.nodes
                                       /\ a.edges \subseteq Served.edges)
          BY <4>1, <4>2, <4>3 DEF Graph
        <4> QED BY <3>3, <4>4, <4>5 DEF Effected
      <3>4. CASE r.op = "detail"
        <4>1. a = Error \/ (Kept /\ a = snapshot)
          BY <3>1, <3>4 DEF Answer
        <4>2. SameDaemon
          BY <3>1, <3>4 DEF Effect, SameDaemon
        <4> QED BY <3>4, <4>1, <4>2 DEF Effected, Kept, TypeOK
      <3>5. CASE r.op \in {"note", "drop"}
        BY <1>5, <3>1, <3>5 DEF Effect, Answer, Effected, SameDaemon
      <3>6. CASE r.op \in {"load", "createNode", "deleteNode", "createEdge", "deleteEdge", "clear"}
        <4>1. a = Empty
          BY <3>1, <3>6 DEF Answer
        <4> HIDE DEF a
        <4> QED BY <1>5, <2>2, <3>1, <3>6, <4>1 DEF Effect, LeftBy, Effected, Refused
      <3>7. r.op \in {"get", "expand", "clear", "load", "detail", "createNode", "note",
                      "createEdge", "deleteNode", "deleteEdge", "drop"}
        BY <1>4 DEF Request
      <3> QED BY <3>2, <3>3, <3>4, <3>5, <3>6, <3>7
    <2> QED BY <2>1, <2>2
  <1> HIDE DEF a
  <1>7. queue' = [queue EXCEPT ![i].reply = a]
    BY <1>2 DEF r, a
  <1>8. /\ queue' \in Seq(Request) /\ Len(queue') = Len(queue)
        /\ queue'[i] = [r EXCEPT !.reply = a]
        /\ \A k \in DOMAIN queue \ {i} : queue'[k] = queue[k]
    <2>1. [r EXCEPT !.reply = a] \in Request
      BY <1>4, <1>6 DEF Request
    <2>2. queue' = [queue EXCEPT ![i] = [r EXCEPT !.reply = a]]
      BY <1>7 DEF r
    <2> QED BY <1>1, <1>3, <2>1, <2>2
  <1>9. AnsweredAt(queue, queue', i) /\ queue'[i].reply = a
    <2>1. a # NoReply
      BY <1>6, GraphsAreGraphs, NoReplyIsNoAnswer
    <2>2. LET x == [r EXCEPT !.reply = a]
          IN  /\ x.op = r.op /\ x.then = r.then /\ x.arg = r.arg /\ x.closure = r.closure
              /\ x.current = r.current /\ x.reply = a
      BY <1>4 DEF Request
    <2> QED BY <1>1, <1>3, <1>8, <2>1, <2>2 DEF AnsweredAt, r
  <1> QED BY <1>1, <1>2, <1>3, <1>6, <1>9 DEF ServeStep, r

\* Only a request that is said to takes something away, and only one that is
\* said to, or the loading of a snapshot, makes something.
LEMMA ServeChanges ==
  ASSUME TypeOK, QueueInv, IdsInv, NEW i \in DOMAIN queue, ServeStep(i)
  PROVE  /\ TypeOK' /\ SameSymbols(Served, Served')
         /\ \A n \in nodes : n \in nodes' \/ TakesNode(queue'[i], n)
         /\ \A p \in Served.edges : p \in Served.edges' \/ TakesEdge(queue'[i], p)
         /\ \/ queue[i].op = "load"
            \/ /\ \A n \in nodes' : n \in nodes \/ MakesNode(queue'[i], n)
               /\ \A p \in Served.edges' : p \in Served.edges \/ MakesEdge(queue'[i], p)
  <1> DEFINE r == queue[i]
             r2 == queue'[i]
             a == queue'[i].reply
  <1>1. /\ r2.op = r.op /\ r2.arg = r.arg
        /\ Done(r2) <=> a # Error
        /\ a = Empty => a # Error
    <2>1. a # NoReply /\ r2.op = r.op /\ r2.arg = r.arg
      BY DEF ServeStep, AnsweredAt
    <2>2. Empty # Error
      BY DEF Empty, Error
    <2> QED BY <2>1, <2>2 DEF Done
  <1>2. Effected(r, a) /\ calls' = calls
    BY DEF ServeStep
  <1>3. /\ nodes \subseteq Symbols \cup Vids /\ calls \subseteq Pairs /\ manual \subseteq Pairs
        /\ r.op \in {"createNode", "deleteNode"} => r.arg \in Vids
        /\ r.op = "createEdge" => r.arg \in Pairs
        /\ Kept => snapshot \in Graph
    BY DEF TypeOK, QueueInv, ProperInv, Proper, Kept
  <1>4. /\ Served.nodes = nodes /\ Served.nodes' = nodes'
        /\ Served.edges = {p \in calls \cup manual : Ends(p) \subseteq nodes}
        /\ Served.edges' = {p \in calls \cup manual' : Ends(p) \subseteq nodes'}
    BY <1>2 DEF Served
  <1>5. r.op = "createNode" => /\ \A p \in manual : r.arg \notin Ends(p)
                               /\ \A p \in calls : r.arg \notin Ends(p)
    <2>1. r.op = "createNode" => r.arg \notin Born
      BY DEF ServeStep, AnsweredAt, Born, Waiting, Waits
    <2> QED BY <2>1, <1>3, IdsAssumption DEF IdsInv
  <1> HIDE DEF r, r2, a
  <1>6. nodes' \subseteq Symbols \cup Vids /\ manual' \subseteq Pairs
        /\ nodes' \cap Symbols = nodes \cap Symbols
    <2>1. Kept => RestoredEdges \subseteq Pairs
      BY <1>3 DEF RestoredEdges, Graph
    <2> QED BY <1>2, <1>3, <2>1, IdsAssumption DEF Effected, SameDaemon
  <1>7. TypeOK'
    BY <1>6 DEF TypeOK, ServeStep, AnsweredAt
  <1>8. \A n \in nodes : n \in nodes' \/ TakesNode(r2, n)
    BY <1>1, <1>2 DEF Effected, SameDaemon, TakesNode
  <1>9. \A p \in Served.edges : p \in Served.edges' \/ TakesEdge(r2, p)
    BY <1>1, <1>2, <1>4 DEF Effected, SameDaemon, TakesEdge
  <1>10. r.op # "load" => \A n \in nodes' : n \in nodes \/ MakesNode(r2, n)
    BY <1>1, <1>2 DEF Effected, SameDaemon, MakesNode
  <1>11. r.op # "load" => \A p \in Served.edges' : p \in Served.edges \/ MakesEdge(r2, p)
    BY <1>1, <1>2, <1>4, <1>5 DEF Effected, SameDaemon, MakesEdge
  <1>12. SameSymbols(Served, Served')
    BY <1>4, <1>6 DEF SameSymbols
  <1> QED BY <1>7, <1>8, <1>9, <1>10, <1>11, <1>12 DEF r, r2

\* The queue stays in order when one is answered.
LEMMA ServeKeepsQueue ==
  ASSUME TypeOK, QueueInv, NEW i \in DOMAIN queue, ServeStep(i)
  PROVE  QueueInv'
  <1>1. DOMAIN queue = 1 .. Len(queue) /\ DOMAIN queue' = DOMAIN queue /\ Len(queue) \in Nat
        /\ queue' \in Seq(Request)
    BY DEF TypeOK, ServeStep, AnsweredAt
  <1>2. \A k \in DOMAIN queue :
          /\ queue'[k].op = queue[k].op /\ queue'[k].then = queue[k].then
          /\ queue'[k].arg = queue[k].arg /\ queue'[k].current = queue[k].current
          /\ queue'[k].reply = NoReply => queue[k].reply = NoReply
          /\ k # i => queue'[k] = queue[k]
    BY DEF ServeStep, AnsweredAt
  <1>3. ProperInv'
    <2>1. queue[i].op = "get" => queue'[i].reply # Error
      <3>1. \A a : Effected(queue[i], a) /\ queue[i].op = "get" => a = Served
        BY DEF Effected
      <3>2. Served # Error
        BY ServedIsGraph, GraphsAreGraphs
      <3> QED BY <3>1, <3>2 DEF ServeStep
    <2> QED BY <1>1, <1>2, <2>1 DEF QueueInv, ProperInv, Proper
  <1>4. FifoInv'
    <2> SUFFICES ASSUME NEW k \in DOMAIN queue, NEW j \in DOMAIN queue, k < j
                 PROVE  /\ queue'[j].reply # NoReply => queue'[k].reply # NoReply
                        /\ queue'[k].current /\ queue'[k].reply # NoReply => queue'[j].current
      BY <1>1 DEF FifoInv
    <2>1. /\ queue[j].reply # NoReply => queue[k].reply # NoReply
          /\ queue[k].current /\ queue[k].reply # NoReply => queue[j].current
          /\ queue[j].reply = NoReply => queue[j].current
      BY DEF QueueInv, FifoInv, ProperInv, Proper
    <2>2. queue[i].reply = NoReply /\ \A m \in 1 .. i - 1 : queue[m].reply # NoReply
      BY DEF ServeStep, AnsweredAt
    <2>3. j = i => k \in 1 .. i - 1
      BY <1>1
    <2> QED BY <1>2, <2>1, <2>2, <2>3
  <1>5. NotYet'
    <2>1. snapshot' = NoGraph => snapshot = NoGraph
      BY NoReplyIsNoAnswer DEF ServeStep
    <2> QED BY <1>1, <1>2, <2>1 DEF QueueInv, NotYet, ServeStep
  <1>6. CurrentInv'
    BY <1>1, <1>2 DEF QueueInv, CurrentInv, ServeStep
  <1> QED BY <1>3, <1>4, <1>5, <1>6 DEF QueueInv

\* A node's id is known as soon as the node is there, not before.
LEMMA ServeKeepsIds ==
  ASSUME TypeOK, QueueInv, IdsInv, NEW i \in DOMAIN queue, ServeStep(i)
  PROVE  IdsInv'
  <1> DEFINE r == queue[i]
             r2 == queue'[i]
             a == queue'[i].reply
  <1>1. DOMAIN queue' = DOMAIN queue /\ \A k \in DOMAIN queue : k # i => queue'[k] = queue[k]
    BY DEF TypeOK, ServeStep, AnsweredAt
  <1>2. /\ r2.op = r.op /\ r2.arg = r.arg /\ a # NoReply /\ r.reply = NoReply
        /\ Effected(r, a) /\ calls' = calls /\ given' = given
    BY DEF ServeStep, AnsweredAt
  <1>3. Waiting' = Waiting \ {i} /\ Waiting \subseteq DOMAIN queue
    BY <1>1, <1>2 DEF Waiting, Waits
  <1>4. Born \subseteq Born' /\ (i \in Waiting => r.arg \in Born')
    <2>1. Born \subseteq Born'
      BY <1>1, <1>2, <1>3 DEF Born
    <2>2. ASSUME i \in Waiting
          PROVE  r.arg \in Born'
      <3>1. r.arg \in given
        BY <2>2 DEF IdsInv, KnownRequest, Waiting
      <3>2. \A j \in Waiting \ {i} : queue[j].arg # r.arg
        BY <2>2 DEF IdsInv
      <3> QED BY <1>1, <1>2, <1>3, <3>1, <3>2 DEF Born
    <2> QED BY <2>1, <2>2
  <1>5. \A g : Known(g, Born) => Known(g, Born')
    BY <1>4 DEF Known
  <1>6. r.op = "createNode" => i \in Waiting
    BY <1>2 DEF Waiting, Waits
  <1>7. /\ nodes \cap Vids \subseteq Born /\ \A p \in manual : Ends(p) \cap Vids \subseteq Born
        /\ \A p \in calls : Ends(p) \subseteq Symbols
        /\ \A g \in {snapshot, ref, next, shown, display} : Known(g, Born)
    BY DEF IdsInv
  <1> HIDE DEF r, r2, a
  <1>8. nodes' \cap Vids \subseteq Born'
    BY <1>2, <1>4, <1>6, <1>7 DEF Effected, SameDaemon, Known
  <1>9. \A p \in manual' : Ends(p) \cap Vids \subseteq Born'
    <2>1. \A p \in RestoredEdges : Ends(p) \cap Vids \subseteq Born
      BY <1>7 DEF RestoredEdges, Known
    <2>2. \A p : Ends(p) \subseteq nodes => Ends(p) \cap Vids \subseteq Born
      BY <1>7
    <2> QED BY <1>2, <1>4, <1>7, <2>1, <2>2 DEF Effected, SameDaemon
  <1>10. \A g \in {snapshot', ref', next', shown', display'} : Known(g, Born')
    <2>1. Known(Dropped, Born')
      BY DEF Known, Dropped
    <2>2. snapshot' \in {snapshot, Dropped} /\ ref' = ref /\ next' = next /\ shown' = shown
          /\ display' = display
      BY DEF ServeStep
    <2> QED BY <1>5, <1>7, <2>1, <2>2
  <1>11. KnownRequest(r2, Born', given')
    <2>1. Done(r2) => Known(a, Born)
      <3>1. Known(Empty, Born)
        BY DEF Known, Empty
      <3>2. Known(Served, Born)
        <4>1. Served.nodes = nodes /\ Served.edges \subseteq calls \cup manual
          BY DEF Served
        <4>2. \A p \in calls : Ends(p) \cap Vids = {}
          BY <1>7, IdsAssumption
        <4> QED BY <1>7, <4>1, <4>2 DEF Known
      <3>3. \A g : g.nodes \subseteq Served.nodes /\ g.edges \subseteq Served.edges
                     => Known(g, Born)
        BY <3>2 DEF Known
      <3>4. Done(r2) => a # Error
        BY DEF Done, r2, a
      <3> QED BY <1>2, <1>7, <3>1, <3>2, <3>3, <3>4 DEF Effected
    <2>2. r2.reply = a /\ ~Waits(r2)
      BY <1>2 DEF Waits, r2, a
    <2>3. r.op \in {"note", "deleteNode"} => r.arg \in Born
      BY <1>1 DEF IdsInv, KnownRequest, Waits, r
    <2>4. r.op = "createEdge" /\ Done(r2) => Ends(r.arg) \cap Vids \subseteq Born
      <3>1. Done(r2) => a # Error
        BY DEF Done, r2, a
      <3>2. r.op = "createEdge" /\ Done(r2) => Ends(r.arg) \subseteq nodes
        BY <1>2, <3>1 DEF Effected
      <3> QED BY <1>7, <3>2
    <2> QED BY <1>2, <1>4, <1>5, <1>6, <2>1, <2>2, <2>3, <2>4 DEF KnownRequest
  <1>12. \A j \in DOMAIN queue' : KnownRequest(queue'[j], Born', given')
    <2> TAKE j \in DOMAIN queue'
    <2>1. j # i => KnownRequest(queue[j], Born, given) /\ queue'[j] = queue[j]
      BY <1>1 DEF IdsInv
    <2>2. j # i => KnownRequest(queue'[j], Born', given')
      BY <2>1, <1>2, <1>4, <1>5 DEF KnownRequest
    <2> QED BY <1>11, <2>2 DEF r2
  <1>13. \A j, k \in Waiting' : queue'[j].arg = queue'[k].arg => j = k
    <2>1. \A j \in Waiting' : j \in Waiting /\ queue'[j] = queue[j]
      BY <1>1, <1>3
    <2> QED BY <2>1 DEF IdsInv
  <1> QED BY <1>2, <1>7, <1>8, <1>9, <1>10, <1>12, <1>13 DEF IdsInv

\* What the daemon has changes as the request says: seen from an earlier one.
LEMMA ServeCarries ==
  ASSUME TypeOK, QueueInv, IdsInv, NEW i \in DOMAIN queue, ServeStep(i),
         NEW q2, q2 = queue', NEW d2, d2 = Served', NEW j \in 0 .. i - 1
  PROVE  /\ Follows(queue, j, q2, j) /\ Holds(d2, q2, j, Served)
         /\ ~Rebuilt(q2, j) => Complete(d2, q2, j, Served)
  <1>1. queue \in Seq(Request) /\ DOMAIN queue = 1 .. Len(queue) /\ Len(queue) \in Nat
        /\ AnsweredAt(queue, q2, i) /\ DOMAIN q2 = DOMAIN queue
    BY DEF TypeOK, ServeStep, AnsweredAt
  <1>2. Follows(queue, j, q2, j)
    BY <1>1, AnsweredFollows
  <1>3. i \in After(q2, j)
    BY <1>1 DEF After
  <1>4. Served.nodes = nodes /\ d2.nodes = nodes' /\ d2.edges = Served.edges'
    BY DEF Served
  <1>5. Holds(d2, q2, j, Served)
    <2>1. \A n \in Served.nodes : n \in d2.nodes \/ TakesNode(q2[i], n)
      BY <1>4, ServeChanges
    <2>2. \A p \in Served.edges : p \in d2.edges \/ TakesEdge(q2[i], p)
      BY <1>4, ServeChanges
    <2> QED BY <1>3, <2>1, <2>2 DEF Holds, NodeGoes, EdgeGoes
  <1>6. ASSUME ~Rebuilt(q2, j)
        PROVE  Complete(d2, q2, j, Served)
    <2>1. q2[i].op = queue[i].op
      BY <1>1 DEF AnsweredAt
    <2>2. queue[i].op # "load"
      BY <1>3, <1>6, <2>1 DEF Rebuilt, Rebuilds
    <2>3. \A n \in d2.nodes : n \in Served.nodes \/ MakesNode(q2[i], n)
      BY <1>4, <2>2, ServeChanges
    <2>4. \A p \in d2.edges : p \in Served.edges \/ MakesEdge(q2[i], p)
      BY <1>4, <2>2, ServeChanges
    <2> QED BY <1>3, <2>3, <2>4 DEF Complete, NodeComes, EdgeComes
  <1> QED BY <1>2, <1>5, <1>6

\* What is taken is gone when it is answered.
LEMMA ServeKeepsTaken ==
  ASSUME TypeOK, QueueInv, IdsInv, TakenInv, NEW i \in DOMAIN queue, ServeStep(i)
  PROVE  TakenInv'
  <1>0. queue[i].op = "createNode" => queue[i].arg \notin Born
    BY DEF ServeStep, AnsweredAt, Born, Waiting, Waits
  <1>1. DOMAIN queue = 1 .. Len(queue) /\ DOMAIN queue' = DOMAIN queue /\ Len(queue) \in Nat
        /\ \A k \in DOMAIN queue : k # i => queue'[k] = queue[k]
        /\ queue[i].reply = NoReply
    BY DEF TypeOK, ServeStep, AnsweredAt
  <1>2. PICK q2, d2 : q2 = queue' /\ d2 = Served'
    OBVIOUS
  <1>3. /\ q2[i].op = queue[i].op /\ q2[i].arg = queue[i].arg
        /\ Effected(queue[i], q2[i].reply) /\ q2[i].reply # NoReply
    BY <1>2 DEF ServeStep, AnsweredAt
  <1> SUFFICES ASSUME NEW j \in DOMAIN q2, Done(q2[j])
               PROVE  /\ q2[j].op = "deleteNode" => q2[j].arg \notin nodes' \/ LoadedAfter(q2, j)
                      /\ q2[j].op = "deleteEdge" =>
                            \/ q2[j].arg \notin manual' \/ LoadedAfter(q2, j)
                            \/ EdgeComes(q2, j, q2[j].arg)
    BY <1>2 DEF TakenInv
  <1>4. CASE j = i
    <2>1. q2[i].reply # Error
      BY <1>4 DEF Done
    <2> QED BY <1>3, <1>4, <2>1 DEF Effected
  <1>5. CASE j # i
    <2>1. q2[j] = queue[j] /\ Done(queue[j]) /\ j \in DOMAIN queue
      BY <1>1, <1>2, <1>5
    <2>2. j < i
      BY <1>1, <1>5, <2>1 DEF QueueInv, FifoInv, Done
    <2>3. i \in After(q2, j) /\ j \in 0 .. i - 1
      BY <1>1, <1>2, <2>2 DEF After
    <2>4. /\ LoadedAfter(queue, j) => LoadedAfter(q2, j)
          /\ \A p : EdgeComes(queue, j, p) => EdgeComes(q2, j, p)
      BY <1>2, <2>3, ServeCarries, FollowsKeeps
    <2>5. /\ queue[j].op = "deleteNode" => queue[j].arg \notin nodes \/ LoadedAfter(queue, j)
          /\ queue[j].op = "deleteEdge" =>
                \/ queue[j].arg \notin manual \/ LoadedAfter(queue, j)
                \/ EdgeComes(queue, j, queue[j].arg)
      BY <2>1 DEF TakenInv
    <2>6. CASE queue[i].op = "load"
      <3>1. q2[i].reply = Error => UNCHANGED <<nodes, manual>>
        <4>1. Empty # Error
          BY DEF Empty, Error
        <4> QED BY <1>3, <2>6, <4>1 DEF Effected, SameDaemon
      <3>2. q2[i].reply # Error => LoadedAfter(q2, j)
        BY <1>3, <2>3, <2>6 DEF LoadedAfter, Done
      <3> QED BY <2>1, <2>4, <2>5, <3>1, <3>2
    <2>7. CASE queue[i].op # "load"
      <3>1. \A n \in nodes' : n \in nodes \/ MakesNode(q2[i], n)
        BY <1>2, <2>7, ServeChanges
      <3>2. ASSUME queue[j].op = "deleteNode", queue[j].arg \in nodes'
            PROVE  queue[j].arg \in nodes
        <4>1. queue[j].arg \in Born
          BY <2>1, <3>2 DEF IdsInv, KnownRequest, Waits
        <4>2. queue[i].op = "createNode" => queue[i].arg # queue[j].arg
          BY <1>0, <4>1
        <4>3. queue[i].op = "note" => nodes' = nodes
          BY <1>3 DEF Effected, SameDaemon
        <4> QED BY <1>3, <3>1, <3>2, <4>2, <4>3 DEF MakesNode
      <3>3. \A p \in manual' : p \in manual \/ MakesEdge(q2[i], p)
        <4>1. Empty # Error
          BY DEF Empty, Error
        <4> QED BY <1>3, <2>7, <4>1 DEF Effected, SameDaemon, MakesEdge, Done
      <3>4. queue[j].op = "deleteEdge" /\ queue[j].arg \in manual' =>
               queue[j].arg \in manual \/ EdgeComes(q2, j, queue[j].arg)
        BY <2>3, <3>3 DEF EdgeComes
      <3> QED BY <2>1, <2>4, <2>5, <3>1, <3>2, <3>4
    <2> QED BY <2>6, <2>7
  <1> QED BY <1>4, <1>5

\* An answer is true when it is given, and the earlier ones stay true.
LEMMA ServeKeepsAnswers ==
  ASSUME TypeOK, QueueInv, IdsInv, AnswersInv, NEW i \in DOMAIN queue, ServeStep(i)
  PROVE  AnswersInv'
  <1>1. DOMAIN queue = 1 .. Len(queue) /\ DOMAIN queue' = DOMAIN queue /\ Len(queue) \in Nat
        /\ \A k \in DOMAIN queue : k # i => queue'[k] = queue[k]
    BY DEF TypeOK, ServeStep, AnsweredAt
  <1>2. PICK q2, d2 : q2 = queue' /\ d2 = Served'
    OBVIOUS
  <1>3. /\ q2[i].op = queue[i].op /\ q2[i].arg = queue[i].arg
        /\ Effected(queue[i], q2[i].reply) /\ calls' = calls
    BY <1>2 DEF ServeStep, AnsweredAt
  <1>4. SameSymbols(Served, d2)
    BY <1>2, ServeChanges
  <1> SUFFICES ASSUME NEW j \in DOMAIN q2, Done(q2[j]), q2[j].current
               PROVE  AnswerTrue(d2, q2, j)
    BY <1>2 DEF AnswersInv, AnswerTrue
  <1>5. CASE j = i
    <2>1. q2[i].reply # Error
      BY <1>5 DEF Done
    <2>2. CASE queue[i].op \in {"get", "expand"}
      <3>1. nodes' = nodes /\ manual' = manual
        BY <1>3, <2>2 DEF Effected, SameDaemon
      <3>2. d2 = Served
        BY <1>2, <1>3, <3>1 DEF Served
      <3>3. /\ q2[i].reply.nodes \subseteq d2.nodes /\ q2[i].reply.edges \subseteq d2.edges
            /\ queue[i].op = "get" => q2[i].reply = d2
        BY <1>3, <2>1, <2>2, <3>2 DEF Effected
      <3> QED BY <1>3, <1>5, <2>2, <3>3 DEF AnswerTrue, Holds, Complete
    <2>3. CASE queue[i].op = "createEdge"
      <3>1. Ends(queue[i].arg) \subseteq nodes' /\ queue[i].arg \in manual'
        BY <1>3, <2>1, <2>3 DEF Effected
      <3>2. q2[i].arg \in d2.edges
        BY <1>2, <1>3, <3>1 DEF Served
      <3> QED BY <1>3, <1>5, <2>3, <3>2 DEF AnswerTrue
    <2>4. CASE queue[i].op \notin {"get", "expand", "createEdge"}
      BY <1>3, <1>5, <2>4 DEF AnswerTrue
    <2> QED BY <2>2, <2>3, <2>4
  <1>6. CASE j # i
    <2>1. q2[j] = queue[j] /\ Done(queue[j]) /\ j \in DOMAIN queue
      BY <1>1, <1>2, <1>6
    <2>2. j < i
      BY <1>1, <1>6, <2>1 DEF QueueInv, FifoInv, ServeStep, AnsweredAt, Done
    <2>3. j \in 0 .. i - 1
      BY <1>1, <1>2, <2>2
    <2>4. /\ Follows(queue, j, q2, j) /\ Holds(d2, q2, j, Served)
          /\ ~Rebuilt(q2, j) => Complete(d2, q2, j, Served)
      BY <1>2, <2>3, ServeCarries
    <2>5. AnswerTrue(Served, queue, j)
      BY <2>1 DEF AnswersInv
    <2>6. \A g : Holds(Served, queue, j, g) => Holds(d2, q2, j, g)
      BY <2>4, HoldsCarries
    <2>7. \A g : ~Rebuilt(q2, j) /\ Complete(Served, queue, j, g) => Complete(d2, q2, j, g)
      BY <2>4, CompleteCarries
    <2>8. /\ \A p : EdgeGoes(queue, j, p) => EdgeGoes(q2, j, p)
          /\ Rebuilt(queue, j) => Rebuilt(q2, j)
      BY <2>4, FollowsKeeps
    <2>9. \A p : p \in Served.edges => p \in d2.edges \/ EdgeGoes(q2, j, p)
      BY <2>4 DEF Holds
    <2> QED BY <1>4, <2>1, <2>5, <2>6, <2>7, <2>8, <2>9 DEF AnswerTrue, SameSymbols
  <1> QED BY <1>5, <1>6

\* The view's graph and the canvas are true of what is served next.
LEMMA ServeKeepsCanvas ==
  ASSUME TypeOK, QueueInv, IdsInv, NextInv, StaleInv, ShownInv, OldInv,
         NEW i \in DOMAIN queue, ServeStep(i)
  PROVE  NextInv' /\ StaleInv' /\ ShownInv' /\ OldInv'
  <1>1. DOMAIN queue = 1 .. Len(queue) /\ DOMAIN queue' = DOMAIN queue /\ Len(queue) \in Nat
        /\ \A k \in DOMAIN queue :
              /\ queue'[k].op = queue[k].op /\ queue'[k].then = queue[k].then
              /\ queue'[k].current = queue[k].current
    BY DEF TypeOK, ServeStep, AnsweredAt
  <1>2. PICK q2, d2 : q2 = queue' /\ d2 = Served'
    OBVIOUS
  <1>3. SameSymbols(Served, d2) /\ SameSymbols(d2, Served)
    BY <1>2, ServeChanges DEF SameSymbols
  <1>4. /\ Follows(queue, 0, q2, 0) /\ Holds(d2, q2, 0, Served)
        /\ ~Rebuilt(q2, 0) => Complete(d2, q2, 0, Served)
    <2>1. 0 \in 0 .. i - 1
      BY <1>1
    <2> QED BY <1>2, <2>1, ServeCarries
  <1>5. /\ next' = next /\ lost' = lost /\ behind' = behind /\ stale' = stale
        /\ display' = display /\ (Calm' <=> Calm)
    BY DEF ServeStep, Calm
  <1>6. NextInv'
    <2>1. \A g : Holds(Served, queue, 0, g) => Holds(d2, q2, 0, g)
      BY <1>4, HoldsCarries
    <2>2. \A g : ~Rebuilt(q2, 0) /\ Complete(Served, queue, 0, g) => Complete(d2, q2, 0, g)
      BY <1>4, CompleteCarries
    <2>3. Rebuilt(queue, 0) => Rebuilt(q2, 0)
      BY <1>4, FollowsKeeps
    <2> QED BY <1>2, <1>5, <2>1, <2>2, <2>3 DEF NextInv
  <1>7. StaleInv'
    <2>1. nodes' \cap Symbols = nodes \cap Symbols
      BY <1>2, <1>3 DEF SameSymbols, Served
    <2>2. \A p : SymbolMissing(Served, p) => SymbolMissing(d2, p)
      BY <1>3, SameSymbolsMiss
    <2> QED BY <1>2, <1>5, <2>1, <2>2 DEF StaleInv
  <1>8. ShownInv'
    <2>1. \A g, x : Visible(Served, queue, g, x) => Visible(d2, q2, g, x)
      BY <1>4, VisibleCarries
    <2> QED BY <1>2, <1>5, <2>1 DEF ShownInv
  <1>9. OldInv'
    <2>1. \A j \in DOMAIN queue : FlowEntry(queue[j]) <=> FlowEntry(q2[j])
      BY <1>1, <1>2 DEF FlowEntry
    <2>2. \A j : After(queue, j) = After(q2, j)
      BY <1>1, <1>2 DEF After
    <2>3. \A j : After(queue, j) \subseteq DOMAIN queue
      BY DEF After
    <2> SUFFICES ASSUME Calm, NEW j \in DOMAIN queue, ~queue[j].current
                 PROVE  ~FlowEntry(q2[j]) /\ \E k \in After(q2, j) : FlowEntry(q2[k])
      BY <1>1, <1>2, <1>5 DEF OldInv
    <2>4. ~FlowEntry(queue[j]) /\ \E k \in After(queue, j) : FlowEntry(queue[k])
      BY DEF OldInv
    <2> QED BY <2>1, <2>2, <2>3, <2>4
  <1> QED BY <1>6, <1>7, <1>8, <1>9

\* The daemon has restored the snapshot when it answers that it has.
LEMMA LoadIsBack ==
  ASSUME TypeOK, NEW i \in DOMAIN queue, ServeStep(i), queue[i].op = "load",
         Done(queue'[i]), NEW d2, d2 = Served', NEW q2
  PROVE  Back(d2, snapshot, q2, i)
  <1>1. /\ Kept /\ nodes' = nodes \cup (snapshot.nodes \cap Vids)
        /\ manual' = manual \cup RestoredEdges /\ calls' = calls
    BY DEF ServeStep, Effected, Done
  <1>2. d2.nodes = nodes' /\ d2.edges = {p \in calls \cup manual' : Ends(p) \subseteq nodes'}
    BY <1>1 DEF Served
  <1>3. snapshot.edges \subseteq Pairs
    BY <1>1 DEF Kept, TypeOK, Graph
  <1>4. ASSUME NEW p \in SnapshotDisplay(snapshot).edges
        PROVE  p \in d2.edges \/ SymbolMissing(d2, p)
    <2> SUFFICES ASSUME ~SymbolMissing(d2, p)
                 PROVE  p \in d2.edges
      OBVIOUS
    <2>0. snapshot \in Graph
      BY <1>1 DEF Kept, TypeOK
    <2>1. p \in snapshot.edges /\ Ends(p) \subseteq snapshot.nodes
      BY <2>0 DEF SnapshotDisplay, Graph
    <2>2. Ends(p) \subseteq Symbols \cup Vids
      BY <1>3, <2>1, IdsAssumption DEF Ends
    <2>3. Ends(p) \cap Symbols \subseteq nodes \cap Symbols
      BY <1>1, <1>2, IdsAssumption DEF SymbolMissing
    <2>4. Ends(p) \subseteq nodes'
      BY <1>1, <2>1, <2>2, <2>3
    <2>5. p \in calls \cup manual'
      <3>1. p \notin calls => p \in RestoredEdges
        BY <2>1, <2>2, <2>3 DEF RestoredEdges
      <3> QED BY <1>1, <3>1
    <2> QED BY <1>2, <2>4, <2>5
  <1>5. \A v \in snapshot.nodes \cap Vids : v \in d2.nodes
    BY <1>1, <1>2
  <1> QED BY <1>4, <1>5 DEF Back

\* A snapshot that is loaded is there, and then in the graph that is fetched.
LEMMA ServeKeepsFlow ==
  ASSUME TypeOK, QueueInv, IdsInv, FlowInv, NEW i \in DOMAIN queue, ServeStep(i)
  PROVE  FlowInv'
  <1>1. DOMAIN queue = 1 .. Len(queue) /\ DOMAIN queue' = DOMAIN queue /\ Len(queue) \in Nat
        /\ \A k \in DOMAIN queue : k # i => queue'[k] = queue[k]
    BY DEF TypeOK, ServeStep, AnsweredAt
  <1>2. PICK q2, d2, s2 : q2 = queue' /\ d2 = Served' /\ s2 = snapshot'
    OBVIOUS
  <1>3. /\ q2[i].op = queue[i].op /\ q2[i].then = queue[i].then
        /\ q2[i].closure = queue[i].closure /\ queue[i].reply = NoReply
        /\ Effected(queue[i], q2[i].reply) /\ calls' = calls
        /\ s2 = IF queue[i].op = "drop" THEN Dropped ELSE snapshot
    BY <1>2 DEF ServeStep, AnsweredAt
  <1>4. SameSymbols(Served, d2) /\ SameSymbols(d2, Served)
    BY <1>2, ServeChanges DEF SameSymbols
  <1>5. \A p : SymbolMissing(Served, p) => SymbolMissing(d2, p)
    BY <1>4, SameSymbolsMiss
  <1>6. \A j \in 0 .. i - 1 : /\ Follows(queue, j, q2, j) /\ Holds(d2, q2, j, Served)
    BY <1>2, ServeCarries
  <1>7. 0 \in 0 .. i - 1
    BY <1>1
  \* A deleted snapshot has nothing to bring back.
  <1>8. SnapshotDisplay(Dropped).edges = {} /\ Dropped.nodes = {}
    <2>1. Dropped.nodes = {} /\ Dropped.edges = {}
      BY DEF Dropped
    <2>2. SnapshotDisplay(Dropped).edges = {p \in Dropped.edges : Ends(p) \subseteq Dropped.nodes}
      BY DEF SnapshotDisplay, Dropped
    <2> QED BY <2>1, <2>2
  <1>9. \A j \in DOMAIN q2 : Done(queue[j]) => j < i
    BY <1>1, <1>2 DEF QueueInv, FifoInv, ServeStep, AnsweredAt, Done
  <1>10. /\ \A d, q, k : Back(d, Dropped, q, k) /\ Fetched(d, Dropped, q, k)
         /\ \A d, g : Found(d, Dropped, g)
    BY <1>8 DEF Back, Fetched, Found
  <1> SUFFICES ASSUME Calm, NEW j \in DOMAIN q2
               PROVE  FlowTrue(d2, s2, q2, j)
    BY <1>2 DEF FlowInv, ServeStep, Calm
  <1>11. FlowTrue(Served, snapshot, queue, j)
    BY <1>1, <1>2 DEF FlowInv
  <1>12. q2[j].op = queue[j].op /\ q2[j].then = queue[j].then /\ q2[j].closure = queue[j].closure
         /\ j \in DOMAIN queue
    BY <1>1, <1>2, <1>3
  <1>13. j # i => q2[j] = queue[j]
    BY <1>1, <1>2
  <1>14. s2 = snapshot \/ s2 = Dropped
    BY <1>3
  <1>15. ASSUME q2[j].op = "load", Done(q2[j])
         PROVE  Back(d2, s2, q2, j)
    <2>1. CASE j = i
      BY <1>2, <1>3, <1>12, <1>15, <2>1, LoadIsBack
    <2>2. CASE j # i
      <3>1. Back(Served, snapshot, queue, j) /\ j \in 0 .. i - 1
        BY <1>1, <1>2, <1>9, <1>11, <1>13, <1>15, <2>2 DEF FlowTrue
      <3>2. Back(d2, snapshot, q2, j)
        BY <1>4, <1>6, <3>1, BackCarries
      <3> QED BY <1>10, <1>14, <3>2
    <2> QED BY <2>1, <2>2
  <1>16. ASSUME FetchesFor(q2[j]), ~Done(q2[j])
         PROVE  Back(d2, s2, q2, 0)
    <2>1. ~Done(queue[j])
      BY <1>3, <1>13, <1>16 DEF Done
    <2>2. Back(Served, snapshot, queue, 0)
      BY <1>11, <1>12, <1>16, <2>1 DEF FlowTrue, FetchesFor
    <2>3. Back(d2, snapshot, q2, 0)
      BY <1>4, <1>6, <1>7, <2>2, BackCarries
    <2> QED BY <1>10, <1>14, <2>3
  <1>17. ASSUME FetchesFor(q2[j]), Done(q2[j])
         PROVE  Fetched(d2, s2, q2, j)
    <2>1. CASE j # i
      <3>1. Fetched(Served, snapshot, queue, j) /\ j < i
        BY <1>9, <1>11, <1>12, <1>13, <1>17, <2>1 DEF FlowTrue
      <3>2. \A k \in 1 .. j - 1 : q2[k] = queue[k]
        BY <1>1, <1>2, <3>1
      <3>3. Fetched(d2, snapshot, q2, j)
        BY <1>5, <1>13, <2>1, <3>1, <3>2 DEF Fetched
      <3> QED BY <1>10, <1>14, <3>3
    <2>2. CASE j = i
      <3>1. ~Done(queue[i]) /\ queue[i].op = "get" /\ FetchesFor(queue[i])
        BY <1>3, <1>12, <1>17, <2>2 DEF Done, FetchesFor
      <3>2. Back(Served, snapshot, queue, 0)
        BY <1>11, <2>2, <3>1 DEF FlowTrue
      <3>3. q2[i].reply = Served /\ s2 = snapshot
        BY <1>3, <3>1 DEF Effected
      <3>4. \A k \in After(queue, 0) : Done(queue[k]) => k \in 1 .. i - 1 /\ q2[k] = queue[k]
        BY <1>1, <1>2, <1>9 DEF After
      <3>5. \A n : NodeGoes(queue, 0, n) => \E k \in 1 .. i - 1 : TakesNode(q2[k], n)
        BY <3>4 DEF NodeGoes, TakesNode
      <3>6. \A p : EdgeGoes(queue, 0, p) => \E k \in 1 .. i - 1 : TakesEdge(q2[k], p)
        BY <3>4 DEF EdgeGoes, TakesEdge
      <3> QED BY <1>5, <2>2, <3>2, <3>3, <3>5, <3>6 DEF Back, Fetched
    <2> QED BY <2>1, <2>2
  <1>18. ASSUME q2[j].op = "detail"
         PROVE  /\ Holds(d2, q2, 0, q2[j].closure)
                /\ d2.nodes \cap Symbols \subseteq q2[j].closure.nodes
                /\ Found(d2, IF Done(q2[j]) THEN q2[j].reply ELSE s2, q2[j].closure)
    <2> DEFINE g == queue[j].closure
    <2>1. /\ Holds(Served, queue, 0, g) /\ Served.nodes \cap Symbols \subseteq g.nodes
          /\ Found(Served, IF Done(queue[j]) THEN queue[j].reply ELSE snapshot, g)
      BY <1>11, <1>12, <1>18 DEF FlowTrue
    <2>2. Holds(d2, q2, 0, g)
      BY <1>6, <1>7, <2>1, HoldsCarries
    <2>3. d2.nodes \cap Symbols \subseteq g.nodes
      BY <1>4, <2>1 DEF SameSymbols
    <2>4. \A s : Found(Served, s, g) => Found(d2, s, g)
      BY <1>5 DEF Found
    <2>5. IF Done(q2[j]) THEN q2[j].reply = (IF Done(queue[j]) THEN queue[j].reply ELSE snapshot)
                         ELSE ~Done(queue[j])
      <3>1. j = i => ~Done(queue[j])
        BY <1>3 DEF Done
      <3>2. j = i /\ Done(q2[j]) => q2[j].reply = snapshot
        BY <1>3, <1>12, <1>18 DEF Effected, Done
      <3> QED BY <1>13, <3>1, <3>2
    <2> QED BY <1>10, <1>12, <1>14, <2>1, <2>2, <2>3, <2>4, <2>5
  <1> QED BY <1>15, <1>16, <1>17, <1>18 DEF FlowTrue

\* The daemon's step keeps the invariant.
LEMMA ServeKeeps ==
  ASSUME ViewIInv, Serve
  PROVE  ViewIInv'
  <1>1. PICK i \in DOMAIN queue : ServeStep(i)
    BY ServeServes DEF ViewIInv
  <1>2. TypeOK' /\ QueueInv' /\ IdsInv'
    BY <1>1, ServeChanges, ServeKeepsQueue, ServeKeepsIds DEF ViewIInv
  <1>3. TakenInv' /\ AnswersInv'
    BY <1>1, ServeKeepsTaken, ServeKeepsAnswers DEF ViewIInv
  <1>4. NextInv' /\ StaleInv' /\ ShownInv' /\ OldInv' /\ FlowInv'
    BY <1>1, ServeKeepsCanvas, ServeKeepsFlow DEF ViewIInv
  <1> QED BY <1>2, <1>3, <1>4 DEF ViewIInv

-----------------------------------------------------------------------------
(* The handlers: the first request leaves the queue.                       *)

\* The queue without its first request, place by place.
LEMMA PoppedQueue ==
  ASSUME NEW q \in Seq(Request), NEW q2, Popped(q, q2)
  PROVE  \E n \in Nat, m \in Nat :
           /\ n = Len(q) /\ m = Len(q2) /\ n > 0 /\ m <= n
           /\ DOMAIN q = 1 .. n /\ DOMAIN q2 = 1 .. m
           /\ \A j \in 1 .. m : \/ j \in 1 .. n - 1 /\ j + 1 \in 1 .. n /\ q2[j] = q[j + 1]
                                \/ j = n /\ m = n /\ Unanswered(q2[j])
           /\ Tail(q) \in Seq(Request) /\ DOMAIN Tail(q) = 1 .. n - 1
           /\ \A j \in 1 .. n - 1 : Tail(q)[j] = q2[j] /\ j \in 1 .. m
           /\ q[1] \in Request
  <1>1. q # <<>>
    BY DEF Popped
  <1>2. DOMAIN q = 1 .. Len(q) /\ DOMAIN q2 = 1 .. Len(q2)
        /\ Len(q) \in Nat /\ Len(q) > 0 /\ Len(q2) \in Nat
    BY DEF Popped
  <1>3. PICK n \in Nat, m \in Nat : n = Len(q) /\ m = Len(q2)
    BY <1>2
  <1>4. n > 0 /\ (m = n - 1 \/ m = n)
    BY <1>3 DEF Popped
  <1>5. m = n => Unanswered(q2[n])
    BY <1>3 DEF Popped
  <1>6. \A j \in 1 .. n - 1 : q2[j] = q[j + 1]
    BY <1>3 DEF Popped
  <1>7. ASSUME NEW j \in 1 .. m
        PROVE  \/ j \in 1 .. n - 1 /\ j + 1 \in 1 .. n /\ q2[j] = q[j + 1]
               \/ j = n /\ m = n /\ Unanswered(q2[j])
    <2>1. CASE j = n
      <3>1. m = n
        BY <1>4, <2>1
      <3> QED BY <1>5, <2>1, <3>1
    <2>2. CASE j # n
      <3>1. j \in 1 .. n - 1 /\ j + 1 \in 1 .. n
        BY <1>4, <2>2
      <3> QED BY <1>6, <3>1
    <2> QED BY <2>1, <2>2
  <1>8. Tail(q) \in Seq(Request) /\ Len(Tail(q)) = Len(q) - 1 /\ q[1] \in Request
    BY <1>1, TailPops
  <1>9. \A j \in 1 .. Len(q) - 1 : Tail(q)[j] = q[j + 1]
    BY <1>1, HeadTailProperties
  <1>10. DOMAIN Tail(q) = 1 .. n - 1
    BY <1>3, <1>8
  <1>11. \A j \in 1 .. n - 1 : Tail(q)[j] = q2[j] /\ j \in 1 .. m
    BY <1>3, <1>4, <1>6, <1>9
  <1>12. m <= n
    BY <1>4
  <1>13. DOMAIN q = 1 .. n /\ DOMAIN q2 = 1 .. m
    BY <1>2, <1>3
  <1> QED BY <1>3, <1>4, <1>7, <1>8, <1>10, <1>11, <1>12, <1>13

\* What followed the first request is all that follows now.
LEMMA PopCarries ==
  ASSUME NEW q \in Seq(Request), NEW q2, Popped(q, q2), NEW d
  PROVE  /\ \A g : Holds(d, q, 1, g) => Holds(d, q2, 0, g)
         /\ \A g : Complete(d, q, 1, g) => Complete(d, q2, 0, g)
         /\ \A p : EdgeGoes(q, 1, p) => EdgeGoes(q2, 0, p)
         /\ \A p : EdgeComes(q, 1, p) => EdgeComes(q2, 0, p)
         /\ Rebuilt(q, 1) => Rebuilt(q2, 0)
         /\ LoadedAfter(q, 1) => Rebuilt(q2, 0)
         /\ \A n : NodeGoes(q, 0, n) => TakesNode(q[1], n) \/ NodeGoes(q2, 0, n)
         /\ \A p : EdgeGoes(q, 0, p) => TakesEdge(q[1], p) \/ EdgeGoes(q2, 0, p)
         /\ \A n : NodeComes(q, 0, n) => MakesNode(q[1], n) \/ NodeComes(q2, 0, n)
         /\ \A p : EdgeComes(q, 0, p) => MakesEdge(q[1], p) \/ EdgeComes(q2, 0, p)
         /\ Rebuilt(q, 0) => Rebuilds(q[1]) \/ Rebuilt(q2, 0)
  <1>1. PICK len \in Nat : len = Len(q) /\ len > 0 /\ DOMAIN q = 1 .. len
    BY PoppedQueue
  <1>2. Follows(q, 1, q2, 0)
    <2>1. 0 \in 0 .. Len(q) - 1 /\ 0 + 1 = 1
      BY <1>1
    <2> QED BY <2>1, PoppedFollows
  <1>3. \A k \in After(q, 0) : k = 1 \/ k \in After(q, 1)
    BY <1>1 DEF After
  <1>4. /\ \A g : Holds(d, q, 1, g) => Holds(d, q2, 0, g)
        /\ \A g : Complete(d, q, 1, g) => Complete(d, q2, 0, g)
    BY <1>2, HoldsCarries, CompleteCarries, HoldsItself
  <1>5. /\ \A n : NodeGoes(q, 1, n) => NodeGoes(q2, 0, n)
        /\ \A p : EdgeGoes(q, 1, p) => EdgeGoes(q2, 0, p)
        /\ \A n : NodeComes(q, 1, n) => NodeComes(q2, 0, n)
        /\ \A p : EdgeComes(q, 1, p) => EdgeComes(q2, 0, p)
        /\ Rebuilt(q, 1) => Rebuilt(q2, 0)
    BY <1>2, FollowsKeeps
  <1>6. LoadedAfter(q, 1) => Rebuilt(q, 1)
    BY DEF LoadedAfter, Rebuilt, Rebuilds
  <1>7. \A n : NodeGoes(q, 0, n) => TakesNode(q[1], n) \/ NodeGoes(q, 1, n)
    BY <1>3 DEF NodeGoes
  <1>8. \A p : EdgeGoes(q, 0, p) => TakesEdge(q[1], p) \/ EdgeGoes(q, 1, p)
    BY <1>3 DEF EdgeGoes
  <1>9. \A n : NodeComes(q, 0, n) => MakesNode(q[1], n) \/ NodeComes(q, 1, n)
    BY <1>3 DEF NodeComes
  <1>10. \A p : EdgeComes(q, 0, p) => MakesEdge(q[1], p) \/ EdgeComes(q, 1, p)
    BY <1>3 DEF EdgeComes
  <1>11. Rebuilt(q, 0) => Rebuilds(q[1]) \/ Rebuilt(q, 1)
    BY <1>3 DEF Rebuilt
  <1> QED BY <1>4, <1>5, <1>6, <1>7, <1>8, <1>9, <1>10, <1>11

\* A request that takes nothing away.
Neutral(r) == (\A n : ~TakesNode(r, n)) /\ (\A p : ~TakesEdge(r, p))

\* Nothing is lost with a request that takes nothing away.
LEMMA NeutralPops ==
  ASSUME NEW q \in Seq(Request), NEW q2, Popped(q, q2), Neutral(q[1]), NEW d
  PROVE  /\ \A g : Holds(d, q, 0, g) => Holds(d, q2, 0, g)
         /\ \A g, x : Visible(d, q, g, x) => Visible(d, q2, g, x)
         /\ \A s : Back(d, s, q, 0) => Back(d, s, q2, 0)
  <1>1. /\ \A n : NodeGoes(q, 0, n) => NodeGoes(q2, 0, n)
        /\ \A p : EdgeGoes(q, 0, p) => EdgeGoes(q2, 0, p)
    BY PopCarries DEF Neutral
  <1>2. \A g : Holds(d, q, 0, g) => Holds(d, q2, 0, g)
    BY <1>1 DEF Holds
  <1>3. \A g, x : Visible(d, q, g, x) => Visible(d, q2, g, x)
    BY <1>1 DEF Visible
  <1>4. \A s : Back(d, s, q, 0) => Back(d, s, q2, 0)
    BY <1>1 DEF Back
  <1> QED BY <1>2, <1>3, <1>4

\* The request a handler sends next.
FollowUp(r) ==
    /\ Proper(r)
    /\ r.op \in {"load", "detail"} \/ r.then = "snapshot" => snapshot # NoGraph
    /\ r.op \notin {"createNode", "deleteNode"}
    /\ r.op = "note" => r.arg \in Born
PopStep ==
    /\ Popped(queue, queue')
    /\ Len(queue') = Len(queue) => FollowUp(queue'[Len(queue)])
    /\ UNCHANGED <<nodes, calls, manual, snapshot, ref, shown, given>>

\* The queue stays in order when the first request is settled.
LEMMA PopKeepsQueue ==
  ASSUME TypeOK, QueueInv, PopStep, listed' => listed,
         ~behind' => ~behind \/ (queue[1].current /\ queue[1].reply # NoReply)
  PROVE  QueueInv'
  <1>0. queue \in Seq(Request) /\ Popped(queue, queue')
    BY DEF TypeOK, PopStep
  <1>1. PICK q2 : q2 = queue'
    OBVIOUS
  <1>2. PICK n \in Nat, m \in Nat :
          /\ n = Len(queue) /\ m = Len(q2) /\ n > 0 /\ m <= n
          /\ DOMAIN queue = 1 .. n /\ DOMAIN q2 = 1 .. m
          /\ \A j \in 1 .. m :
                \/ j \in 1 .. n - 1 /\ j + 1 \in 1 .. n /\ q2[j] = queue[j + 1]
                \/ j = n /\ m = n /\ Unanswered(q2[j])
    <2>1. PICK n \in Nat, m \in Nat :
           /\ n = Len(queue) /\ m = Len(q2) /\ n > 0 /\ m <= n
           /\ DOMAIN queue = 1 .. n /\ DOMAIN q2 = 1 .. m
           /\ \A j \in 1 .. m :
                 \/ j \in 1 .. n - 1 /\ j + 1 \in 1 .. n /\ q2[j] = queue[j + 1]
                 \/ j = n /\ m = n /\ Unanswered(q2[j])
           /\ Tail(queue) \in Seq(Request) /\ DOMAIN Tail(queue) = 1 .. n - 1
           /\ \A j \in 1 .. n - 1 : Tail(queue)[j] = q2[j] /\ j \in 1 .. m
           /\ queue[1] \in Request
      BY <1>0, <1>1, PoppedQueue
    <2> QED BY <2>1
  <1>3. m = n => FollowUp(q2[n])
    BY <1>1, <1>2 DEF PopStep
  <1>4. ProperInv'
    BY <1>1, <1>2, <1>3 DEF QueueInv, ProperInv, FollowUp
  <1>5. FifoInv'
    <2> SUFFICES ASSUME NEW i \in DOMAIN q2, NEW j \in DOMAIN q2, i < j
                 PROVE  /\ q2[j].reply # NoReply => q2[i].reply # NoReply
                        /\ q2[i].current /\ q2[i].reply # NoReply => q2[j].current
      BY <1>1 DEF FifoInv
    <2>1. i \in 1 .. n - 1 /\ i + 1 \in 1 .. n /\ q2[i] = queue[i + 1]
      <3>1. i # n
        BY <1>2
      <3> QED BY <1>2, <3>1
    <2>2. CASE j \in 1 .. n - 1 /\ j + 1 \in 1 .. n /\ q2[j] = queue[j + 1]
      <3>1. i + 1 < j + 1
        BY <2>1, <2>2
      <3> QED BY <1>2, <2>1, <2>2, <3>1 DEF QueueInv, FifoInv
    <2>3. CASE j = n /\ m = n /\ Unanswered(q2[j])
      BY <2>3 DEF Unanswered
    <2> QED BY <1>2, <2>2, <2>3
  <1>6. NotYet'
    BY <1>1, <1>2, <1>3 DEF QueueInv, NotYet, FollowUp, PopStep
  <1>7. CurrentInv'
    <2> SUFFICES ASSUME ~behind', NEW j \in DOMAIN q2
                 PROVE  q2[j].current
      BY <1>1 DEF CurrentInv
    <2>1. CASE j = n /\ m = n /\ Unanswered(q2[j])
      BY <2>1 DEF Unanswered
    <2>2. CASE j \in 1 .. n - 1 /\ j + 1 \in 1 .. n /\ q2[j] = queue[j + 1]
      <3>1. CASE ~behind
        BY <1>2, <2>2, <3>1 DEF QueueInv, CurrentInv
      <3>2. CASE queue[1].current /\ queue[1].reply # NoReply
        <4>1. 1 \in DOMAIN queue /\ 1 < j + 1
          BY <1>2, <2>2
        <4> QED BY <1>2, <2>2, <3>2, <4>1 DEF QueueInv, FifoInv
      <3> QED BY <3>1, <3>2
    <2> QED BY <1>2, <2>1, <2>2
  <1> QED BY <1>4, <1>5, <1>6, <1>7 DEF QueueInv

\* Ids stay known.
LEMMA PopKeepsIds ==
  ASSUME TypeOK, IdsInv, PopStep, Known(next', Born), Known(display', Born)
  PROVE  IdsInv'
  <1>0. queue \in Seq(Request) /\ Popped(queue, queue')
    BY DEF TypeOK, PopStep
  <1>1. PICK q2 : q2 = queue'
    OBVIOUS
  <1>2. PICK n \in Nat, m \in Nat :
          /\ n = Len(queue) /\ m = Len(q2) /\ n > 0 /\ m <= n
          /\ DOMAIN queue = 1 .. n /\ DOMAIN q2 = 1 .. m
          /\ \A j \in 1 .. m :
                \/ j \in 1 .. n - 1 /\ j + 1 \in 1 .. n /\ q2[j] = queue[j + 1]
                \/ j = n /\ m = n /\ Unanswered(q2[j])
    BY <1>0, <1>1, PoppedQueue
  <1>3. m = n => FollowUp(q2[n])
    BY <1>1, <1>2 DEF PopStep
  <1>4. \A j \in Waiting' : j + 1 \in Waiting /\ q2[j] = queue[j + 1] /\ j \in Nat
    BY <1>1, <1>2, <1>3 DEF Waiting, Waits, FollowUp
  <1>5. given' = given
    BY DEF PopStep
  <1>6. Born \subseteq Born'
    BY <1>1, <1>4, <1>5 DEF Born
  <1>7. \A g : Known(g, Born) => Known(g, Born')
    BY <1>6 DEF Known
  <1>8. \A j \in DOMAIN q2 : KnownRequest(q2[j], Born', given)
    <2> TAKE j \in DOMAIN q2
    <2>1. CASE j \in 1 .. n - 1 /\ j + 1 \in 1 .. n /\ q2[j] = queue[j + 1]
      <3>1. KnownRequest(q2[j], Born, given)
        BY <1>2, <2>1 DEF IdsInv
      <3> QED BY <3>1, <1>6, <1>7 DEF KnownRequest
    <2>2. CASE j = n /\ m = n /\ Unanswered(q2[j])
      <3>1. ~Done(q2[j]) /\ FollowUp(q2[j])
        BY <1>3, <2>2 DEF Done, Unanswered
      <3> QED BY <3>1, <1>6 DEF KnownRequest, FollowUp, Waits
    <2> QED BY <1>2, <2>1, <2>2
  <1>9. \A i, j \in Waiting' : q2[i].arg = q2[j].arg => i = j
    BY <1>4 DEF IdsInv
  <1> QED BY <1>1, <1>5, <1>6, <1>7, <1>8, <1>9 DEF IdsInv, PopStep

\* Answers stay true.
LEMMA PopKeepsAnswers ==
  ASSUME TypeOK, TakenInv, AnswersInv, PopStep
  PROVE  TakenInv' /\ AnswersInv'
  <1>0. queue \in Seq(Request) /\ Popped(queue, queue')
    BY DEF TypeOK, PopStep
  <1>1. PICK q2 : q2 = queue'
    OBVIOUS
  <1>2. PICK n \in Nat :
          /\ n = Len(queue) /\ DOMAIN queue = 1 .. n
          /\ \A j \in DOMAIN q2 : Done(q2[j]) =>
                j \in 1 .. n - 1 /\ j + 1 \in 1 .. n /\ q2[j] = queue[j + 1]
    BY <1>0, <1>1, PoppedQueue DEF Unanswered, Done
  <1>3. Served' = Served /\ nodes' = nodes /\ manual' = manual
    BY DEF PopStep, Served
  <1>4. ASSUME NEW j \in DOMAIN q2, Done(q2[j])
        PROVE  /\ j + 1 \in DOMAIN queue /\ q2[j] = queue[j + 1]
               /\ Follows(queue, j + 1, q2, j)
    <2>1. j \in 0 .. Len(queue) - 1
      BY <1>2, <1>4
    <2> QED BY <1>0, <1>1, <1>2, <1>4, <2>1, PoppedFollows
  <1>5. TakenInv'
    <2> SUFFICES ASSUME NEW j \in DOMAIN q2, Done(q2[j])
                 PROVE  /\ q2[j].op = "deleteNode" => q2[j].arg \notin nodes \/ LoadedAfter(q2, j)
                        /\ q2[j].op = "deleteEdge" =>
                              \/ q2[j].arg \notin manual \/ LoadedAfter(q2, j)
                              \/ EdgeComes(q2, j, q2[j].arg)
      BY <1>1, <1>3 DEF TakenInv
    <2>1. j + 1 \in DOMAIN queue /\ q2[j] = queue[j + 1] /\ Follows(queue, j + 1, q2, j)
      BY <1>4
    <2>2. /\ LoadedAfter(queue, j + 1) => LoadedAfter(q2, j)
          /\ \A p : EdgeComes(queue, j + 1, p) => EdgeComes(q2, j, p)
      BY <2>1, FollowsKeeps
    <2> QED BY <2>1, <2>2 DEF TakenInv
  <1>6. AnswersInv'
    <2> SUFFICES ASSUME NEW j \in DOMAIN q2, Done(q2[j]), q2[j].current
                 PROVE  AnswerTrue(Served, q2, j)
      BY <1>1, <1>3 DEF AnswersInv, AnswerTrue
    <2> DEFINE i == j + 1
    <2>1. i \in DOMAIN queue /\ q2[j] = queue[i] /\ Follows(queue, i, q2, j)
      BY <1>4
    <2> HIDE DEF i
    <2>2. AnswerTrue(Served, queue, i)
      BY <2>1 DEF AnswersInv
    <2>3. \A g : Holds(Served, queue, i, g) => Holds(Served, q2, j, g)
      BY <2>1, HoldsCarries, HoldsItself
    <2>4. \A g : Complete(Served, queue, i, g) => Complete(Served, q2, j, g)
      BY <2>1, CompleteCarries, HoldsItself
    <2>5. /\ \A p : EdgeGoes(queue, i, p) => EdgeGoes(q2, j, p)
          /\ Rebuilt(queue, i) => Rebuilt(q2, j)
      BY <2>1, FollowsKeeps
    <2> QED BY <2>1, <2>2, <2>3, <2>4, <2>5 DEF AnswerTrue
  <1> QED BY <1>5, <1>6

\* Old answers are still followed by a handler that empties the canvas.
LEMMA PopKeepsOld ==
  ASSUME TypeOK, QueueInv, OldInv, PopStep,
         Calm' => \/ Calm
                  \/ /\ ~InFlow(Rest)
                     /\ \/ queue[1].current /\ queue[1].reply # NoReply
                        \/ Len(queue') = Len(queue) /\ FlowEntry(queue'[Len(queue)])
  PROVE  OldInv'
  <1>0. queue \in Seq(Request) /\ Popped(queue, queue')
    BY DEF TypeOK, PopStep
  <1>1. PICK q2 : q2 = queue'
    OBVIOUS
  <1>2. PICK n \in Nat, m \in Nat :
           /\ n = Len(queue) /\ m = Len(q2) /\ n > 0 /\ m <= n
           /\ DOMAIN queue = 1 .. n /\ DOMAIN q2 = 1 .. m
           /\ \A j \in 1 .. m :
                 \/ j \in 1 .. n - 1 /\ j + 1 \in 1 .. n /\ q2[j] = queue[j + 1]
                 \/ j = n /\ m = n /\ Unanswered(q2[j])
           /\ Tail(queue) \in Seq(Request) /\ DOMAIN Tail(queue) = 1 .. n - 1
           /\ \A j \in 1 .. n - 1 : Tail(queue)[j] = q2[j] /\ j \in 1 .. m
           /\ queue[1] \in Request
    BY <1>0, <1>1, PoppedQueue
  <1> SUFFICES ASSUME Calm', NEW j \in DOMAIN q2, ~q2[j].current
               PROVE  ~FlowEntry(q2[j]) /\ \E k \in After(q2, j) : FlowEntry(q2[k])
    BY <1>1 DEF OldInv
  <1>3. j \in 1 .. n - 1 /\ j + 1 \in 1 .. n /\ q2[j] = queue[j + 1]
    BY <1>2 DEF Unanswered
  <1>4. CASE Calm
    <2>1. ~FlowEntry(queue[j + 1]) /\ \E k \in After(queue, j + 1) : FlowEntry(queue[k])
      BY <1>2, <1>3, <1>4 DEF OldInv
    <2>2. PICK k \in After(queue, j + 1) : FlowEntry(queue[k])
      BY <2>1
    <2>3. k \in 1 .. n /\ j + 1 < k
      BY <1>2 DEF After
    <2>4. k - 1 \in 1 .. n - 1 /\ (k - 1) + 1 = k /\ j < k - 1
      BY <1>3, <2>3
    <2>5. k - 1 \in 1 .. m /\ k - 1 # n
      BY <1>2, <2>4
    <2>6. q2[k - 1] = queue[k]
      BY <1>2, <2>4, <2>5
    <2>7. k - 1 \in After(q2, j)
      BY <1>2, <2>4, <2>5 DEF After
    <2> QED BY <1>3, <2>1, <2>2, <2>6, <2>7
  <1>5. CASE ~InFlow(Rest) /\ queue[1].current /\ queue[1].reply # NoReply
    <2>1. 1 \in 1 .. n /\ 1 < j + 1
      BY <1>2, <1>3
    <2> QED BY <1>2, <1>3, <1>5, <2>1 DEF QueueInv, FifoInv
  <1>6. CASE ~InFlow(Rest) /\ m = n /\ FlowEntry(q2[n])
    <2>1. ~FlowEntry(q2[j])
      <3>1. j \in DOMAIN Tail(queue) /\ Tail(queue)[j] = q2[j]
        BY <1>2, <1>3
      <3> QED BY <3>1, <1>6 DEF InFlow, Rest, FlowEntry
    <2>2. n \in After(q2, j)
      BY <1>2, <1>3, <1>6 DEF After
    <2> QED BY <1>6, <2>1, <2>2
  <1> QED BY <1>1, <1>2, <1>4, <1>5, <1>6

\* The loading of a snapshot goes on.
LEMMA PopKeepsFlow ==
  ASSUME TypeOK, FlowInv, PopStep,
         Calm' => ~InFlow(Rest) \/ (Calm /\ Neutral(queue[1])),
         Calm' /\ Len(queue') = Len(queue) => FlowTrue(Served, snapshot, queue', Len(queue))
  PROVE  FlowInv'
  <1>0. queue \in Seq(Request) /\ Popped(queue, queue')
    BY DEF TypeOK, PopStep
  <1>1. PICK q2 : q2 = queue'
    OBVIOUS
  <1>2. PICK n \in Nat, m \in Nat :
           /\ n = Len(queue) /\ m = Len(q2) /\ n > 0 /\ m <= n
           /\ DOMAIN queue = 1 .. n /\ DOMAIN q2 = 1 .. m
           /\ \A j \in 1 .. m :
                 \/ j \in 1 .. n - 1 /\ j + 1 \in 1 .. n /\ q2[j] = queue[j + 1]
                 \/ j = n /\ m = n /\ Unanswered(q2[j])
           /\ Tail(queue) \in Seq(Request) /\ DOMAIN Tail(queue) = 1 .. n - 1
           /\ \A j \in 1 .. n - 1 : Tail(queue)[j] = q2[j] /\ j \in 1 .. m
           /\ queue[1] \in Request
    BY <1>0, <1>1, PoppedQueue
  <1>3. Served' = Served /\ snapshot' = snapshot
    BY DEF PopStep, Served
  <1> SUFFICES ASSUME Calm', NEW i \in 1 .. m
               PROVE  FlowTrue(Served, snapshot, q2, i)
    BY <1>1, <1>2, <1>3 DEF FlowInv
  <1>4. CASE i = n /\ m = n
    BY <1>1, <1>2, <1>4
  <1>5. CASE i \in 1 .. n - 1 /\ i + 1 \in 1 .. n /\ q2[i] = queue[i + 1]
    <2>1. CASE ~InFlow(Rest)
      <3>1. i \in DOMAIN Tail(queue) /\ Tail(queue)[i] = q2[i]
        BY <1>2, <1>5
      <3>2. ~FlowEntry(q2[i])
        BY <2>1, <3>1 DEF InFlow, Rest, FlowEntry
      <3> QED BY <3>2 DEF FlowTrue, FlowEntry, FetchesFor
    <2>2. CASE Calm /\ Neutral(queue[1])
      <3> DEFINE k == i + 1
      <3>1. k \in DOMAIN queue /\ q2[i] = queue[k] /\ k \in Nat
        BY <1>2, <1>5
      <3>2. FlowTrue(Served, snapshot, queue, k)
        BY <2>2, <3>1 DEF FlowInv
      <3>3. Follows(queue, k, q2, i)
        <4>1. i \in 0 .. Len(queue) - 1
          BY <1>2, <1>5
        <4> QED BY <1>0, <1>1, <4>1, PoppedFollows
      <3>4. \A j \in 1 .. k - 1 : j = 1 \/ (j - 1 \in 1 .. i - 1 /\ q2[j - 1] = queue[j])
        <4> TAKE j \in 1 .. k - 1
        <4> SUFFICES ASSUME j # 1
                     PROVE  j - 1 \in 1 .. i - 1 /\ q2[j - 1] = queue[j]
          OBVIOUS
        <4>1. j - 1 \in 1 .. i - 1 /\ j - 1 \in 1 .. m /\ (j - 1) + 1 = j /\ j - 1 # n
          BY <1>2, <1>5
        <4> QED BY <1>2, <4>1
      <3> HIDE DEF k
      <3>5. Back(Served, snapshot, queue, k) => Back(Served, snapshot, q2, i)
        <4>1. SameSymbols(Served, Served)
          BY DEF SameSymbols
        <4> QED BY <3>3, <4>1, BackCarries, HoldsItself
      <3>6. /\ Back(Served, snapshot, queue, 0) => Back(Served, snapshot, q2, 0)
            /\ \A g : Holds(Served, queue, 0, g) => Holds(Served, q2, 0, g)
        BY <1>0, <1>1, <2>2, NeutralPops
      <3>7. Fetched(Served, snapshot, queue, k) => Fetched(Served, snapshot, q2, i)
        <4>1. \A x : (\E j \in 1 .. k - 1 : TakesNode(queue[j], x))
                        => \E j \in 1 .. i - 1 : TakesNode(q2[j], x)
          BY <2>2, <3>4 DEF Neutral
        <4>2. \A p : (\E j \in 1 .. k - 1 : TakesEdge(queue[j], p))
                        => \E j \in 1 .. i - 1 : TakesEdge(q2[j], p)
          BY <2>2, <3>4 DEF Neutral
        <4> QED BY <3>1, <4>1, <4>2 DEF Fetched
      <3> QED BY <3>1, <3>2, <3>5, <3>6, <3>7 DEF FlowTrue
    <2> QED BY <2>1, <2>2
  <1> QED BY <1>2, <1>4, <1>5

\* What all handlers have in common.
LEMMA PopKeeps ==
  ASSUME ViewIInv, PopStep, TypeOK', listed' => listed,
         ~behind' => ~behind \/ (queue[1].current /\ queue[1].reply # NoReply),
         Known(next', Born), Known(display', Born),
         Calm' => \/ Calm
                  \/ /\ ~InFlow(Rest)
                     /\ \/ queue[1].current /\ queue[1].reply # NoReply
                        \/ Len(queue') = Len(queue) /\ FlowEntry(queue'[Len(queue)]),
         Calm' => ~InFlow(Rest) \/ (Calm /\ Neutral(queue[1])),
         Calm' /\ Len(queue') = Len(queue) => FlowTrue(Served, snapshot, queue', Len(queue)),
         NextInv', StaleInv', ShownInv'
  PROVE  ViewIInv'
  <1>1. QueueInv'
    BY PopKeepsQueue DEF ViewIInv
  <1>2. IdsInv'
    BY PopKeepsIds DEF ViewIInv
  <1>3. TakenInv' /\ AnswersInv'
    BY PopKeepsAnswers DEF ViewIInv
  <1>4. OldInv'
    BY PopKeepsOld DEF ViewIInv
  <1>5. FlowInv'
    BY PopKeepsFlow DEF ViewIInv
  <1> QED BY <1>1, <1>2, <1>3, <1>4, <1>5 DEF ViewIInv

\* A handler that sends nothing settles its request.
LEMMA RestIsPop ==
  ASSUME TypeOK, queue # <<>>, queue' = Rest, UNCHANGED daemonVars, UNCHANGED <<ref, shown, given>>
  PROVE  PopStep /\ queue' \in Seq(Request) /\ Len(queue') # Len(queue) /\ Popped(queue, queue')
  <1>1. queue \in Seq(Request)
    BY DEF TypeOK
  <1>2. /\ Popped(queue, Rest) /\ Rest \in Seq(Request) /\ Len(Rest) = Len(queue) - 1
        /\ Len(queue) \in Nat
    BY <1>1, TailPops DEF Rest
  <1> QED BY <1>2 DEF PopStep, daemonVars

\* So does one that sends another.
LEMMA FollowUpIsPop ==
  ASSUME TypeOK, queue # <<>>, NEW r \in Request, Unanswered(r), FollowUp(r),
         queue' = Append(Rest, r), UNCHANGED daemonVars, UNCHANGED <<ref, shown, given>>
  PROVE  PopStep /\ queue' \in Seq(Request) /\ Len(queue') = Len(queue)
         /\ queue'[Len(queue)] = r /\ Popped(queue, queue')
         /\ Len(queue) \in After(queue', 0)
  <1>1. queue \in Seq(Request)
    BY DEF TypeOK
  <1>2. /\ Popped(queue, queue') /\ queue'[Len(queue)] = r /\ Len(queue') = Len(queue)
    BY <1>1, TailAppendPops DEF Rest
  <1>3. queue' \in Seq(Request) /\ Len(queue) \in Nat /\ Len(queue) > 0
    BY <1>1, <1>2 DEF Popped
  <1>4. Len(queue) \in After(queue', 0)
    BY <1>2, <1>3 DEF After
  <1> QED BY <1>2, <1>3, <1>4 DEF PopStep, daemonVars

\* What the invariant says of the first request.
LEMMA HeadFacts ==
  ASSUME ViewIInv, queue # <<>>
  PROVE  /\ queue \in Seq(Request) /\ Head1 = queue[1] /\ queue[1] \in Request
         /\ 1 \in DOMAIN queue /\ Proper(queue[1])
         /\ AnswerTrue(Served, queue, 1) /\ KnownRequest(queue[1], Born, given)
         /\ ~behind => queue[1].current
         /\ Calm /\ (~InFlow(Rest) \/ FlowEntry(queue[1])) => queue[1].current
         /\ Calm => FlowTrue(Served, snapshot, queue, 1)
  <1>1. queue \in Seq(Request)
    BY DEF ViewIInv, TypeOK
  <1>2. Head1 = queue[1] /\ queue[1] \in Request /\ 1 \in DOMAIN queue
    BY <1>1, TailPops DEF Head1
  <1>3. Proper(queue[1]) /\ (~behind => queue[1].current)
    BY <1>2 DEF ViewIInv, QueueInv, ProperInv, CurrentInv
  <1>4. AnswerTrue(Served, queue, 1) /\ KnownRequest(queue[1], Born, given)
    BY <1>2 DEF ViewIInv, AnswersInv, IdsInv
  <1>5. Calm => FlowTrue(Served, snapshot, queue, 1)
    BY <1>2 DEF ViewIInv, FlowInv
  <1>6. ASSUME Calm, ~queue[1].current
        PROVE  ~FlowEntry(queue[1]) /\ InFlow(Rest)
    <2>1. ~FlowEntry(queue[1]) /\ \E k \in After(queue, 1) : FlowEntry(queue[k])
      BY <1>2, <1>6 DEF ViewIInv, OldInv
    <2>2. PICK k \in After(queue, 1) : FlowEntry(queue[k])
      BY <2>1
    <2>3. PICK n \in Nat : n = Len(queue) /\ DOMAIN queue = 1 .. n
      BY <1>1
    <2>4. k \in 1 .. n /\ 1 < k
      BY <2>3 DEF After
    <2>5. Len(Rest) = n - 1 /\ Rest \in Seq(Request)
      BY <1>1, <2>3, TailPops DEF Rest
    <2>6. DOMAIN Rest = 1 .. n - 1
      BY <2>5
    <2>7. \A j \in 1 .. n - 1 : Rest[j] = queue[j + 1]
      BY <1>1, <2>3, HeadTailProperties DEF Rest
    <2>8. k - 1 \in 1 .. n - 1 /\ (k - 1) + 1 = k
      BY <2>4
    <2>9. FlowEntry(Rest[k - 1]) /\ k - 1 \in DOMAIN Rest
      BY <2>2, <2>6, <2>7, <2>8
    <2>10. InFlow(Rest)
      BY <2>9 DEF InFlow, FlowEntry
    <2> QED BY <2>1, <2>10
  <1> QED BY <1>1, <1>2, <1>3, <1>4, <1>5, <1>6

\* And of its answer.
LEMMA AnsweredFacts ==
  ASSUME ViewIInv, Answered
  PROVE  /\ queue # <<>> /\ Done(queue[1]) /\ queue[1].reply \in Graph
         /\ Known(queue[1].reply, Born) /\ queue[1].reply # NoReply
  <1>1. queue # <<>> /\ Head1.reply \notin {NoReply, Error}
    BY DEF Answered
  <1>2. Done(queue[1])
    BY <1>1, HeadFacts DEF Done
  <1>3. KnownRequest(queue[1], Born, given) /\ queue[1] \in Request
    BY <1>1, HeadFacts
  <1>4. queue[1].reply \in Graph
    BY <1>2, <1>3, RequestFields
  <1>5. Known(queue[1].reply, Born)
    BY <1>2, <1>3 DEF KnownRequest
  <1> QED BY <1>1, <1>2, <1>4, <1>5 DEF Done

\* The canvas is left alone, and nothing is taken away.
LEMMA CanvasKept ==
  ASSUME ViewIInv, PopStep, Neutral(queue[1]), display' = display, stale' = stale,
         Calm' => Calm
  PROVE  StaleInv' /\ ShownInv'
  <1>1. PICK q2, d : q2 = queue' /\ d = Served
    OBVIOUS
  <1>2. Served' = Served /\ nodes' = nodes
    BY DEF PopStep, Served
  <1>3. queue \in Seq(Request) /\ Popped(queue, q2)
    BY <1>1 DEF ViewIInv, TypeOK, PopStep
  <1>4. \A g, x : Visible(d, queue, g, x) => Visible(d, q2, g, x)
    BY <1>3, NeutralPops
  <1>5. StaleInv'
    BY <1>2 DEF ViewIInv, StaleInv
  <1>6. ShownInv'
    BY <1>1, <1>2, <1>4 DEF ViewIInv, ShownInv
  <1> QED BY <1>5, <1>6

\* And so is the graph.
LEMMA GraphKept ==
  ASSUME ViewIInv, PopStep, Neutral(queue[1]), next' = next, lost' = lost,
         ~behind' => ~behind, ~Rebuilds(queue[1]),
         \A n : MakesNode(queue[1], n) => NodeComes(queue', 0, n),
         \A p : ~MakesEdge(queue[1], p)
  PROVE  NextInv'
  <1>1. PICK q2, d : q2 = queue' /\ d = Served
    OBVIOUS
  <1>2. Served' = Served
    BY DEF PopStep, Served
  <1>3. queue \in Seq(Request) /\ Popped(queue, q2)
    BY <1>1 DEF ViewIInv, TypeOK, PopStep
  <1>4. /\ \A n : NodeComes(queue, 0, n) => MakesNode(queue[1], n) \/ NodeComes(q2, 0, n)
        /\ \A p : EdgeComes(queue, 0, p) => MakesEdge(queue[1], p) \/ EdgeComes(q2, 0, p)
        /\ Rebuilt(queue, 0) => Rebuilds(queue[1]) \/ Rebuilt(q2, 0)
    BY <1>3, PopCarries
  <1>5. \A g : Holds(d, queue, 0, g) => Holds(d, q2, 0, g)
    BY <1>3, NeutralPops
  <1>6. \A n : NodeComes(queue, 0, n) => NodeComes(q2, 0, n)
    BY <1>1, <1>4
  <1>7. \A g : Complete(d, queue, 0, g) => Complete(d, q2, 0, g)
    BY <1>4, <1>6 DEF Complete
  <1> QED BY <1>1, <1>2, <1>4, <1>5, <1>7 DEF ViewIInv, NextInv

\* The types a handler has to keep.
LEMMA PopTypes ==
  ASSUME TypeOK, UNCHANGED daemonVars, UNCHANGED <<ref, shown, given, steps>>,
         queue' \in Seq(Request), next' \in Graph, display' \in Graph,
         stale' \subseteq Node \cup Pairs, fails' \in 0 .. MaxFails,
         error' \in BOOLEAN, listed' \in BOOLEAN, behind' \in BOOLEAN,
         canvasBehind' \in BOOLEAN, lost' \in BOOLEAN, raced' \in BOOLEAN
  PROVE  TypeOK'
  BY DEF TypeOK, daemonVars

\* What every handler leaves alone.
HandlerLeaves == UNCHANGED <<daemonVars, shown, given, steps, fails>> /\ error' \in BOOLEAN

\* The types of what it leaves alone.
LEMMA ViewTypesAreKept ==
  ASSUME TypeOK
  PROVE  /\ next \in Graph /\ ref \in Graph /\ display \in Graph /\ stale \subseteq Node \cup Pairs
         /\ fails \in 0 .. MaxFails /\ error \in BOOLEAN /\ listed \in BOOLEAN
         /\ behind \in BOOLEAN /\ canvasBehind \in BOOLEAN /\ lost \in BOOLEAN /\ raced \in BOOLEAN
         /\ \A q : InFlow(q) \in BOOLEAN
  BY DEF TypeOK, InFlow

\* The entry of the dropdown goes, and nothing else.
LEMMA SnapshotDeletedKeeps ==
  ASSUME ViewIInv, SnapshotDeleted, HandlerLeaves
  PROVE  ViewIInv'
  <1>1. /\ Answered /\ Head1.op = "drop" /\ queue' = Rest /\ listed' = FALSE
        /\ UNCHANGED <<ref, next, lost, display, raced, stale, behind, canvasBehind>>
    BY DEF SnapshotDeleted, SameGraph, SameCanvas, graphVars
  <1>2. UNCHANGED daemonVars /\ UNCHANGED <<ref, shown, given, steps, fails>> /\ error' \in BOOLEAN
    BY <1>1 DEF HandlerLeaves
  <1>3. TypeOK /\ Done(queue[1]) /\ queue # <<>> /\ queue[1].op = "drop"
    BY <1>1, AnsweredFacts, HeadFacts DEF ViewIInv
  <1>4. PopStep /\ queue' \in Seq(Request) /\ Len(queue') # Len(queue)
    BY <1>1, <1>2, <1>3, RestIsPop
  <1>5. TypeOK'
    BY <1>1, <1>2, <1>3, <1>4, ViewTypesAreKept, PopTypes
  <1>6. Neutral(queue[1]) /\ ~Rebuilds(queue[1])
        /\ (\A n : ~MakesNode(queue[1], n)) /\ (\A p : ~MakesEdge(queue[1], p))
    BY <1>3 DEF Neutral, TakesNode, TakesEdge, Rebuilds, MakesNode, MakesEdge
  <1>7. Calm' => Calm
    BY <1>1 DEF Calm
  <1>8. StaleInv' /\ ShownInv'
    BY <1>1, <1>4, <1>6, <1>7, CanvasKept
  <1>9. NextInv'
    BY <1>1, <1>4, <1>6, GraphKept
  <1>10. Known(next', Born) /\ Known(display', Born)
    BY <1>1 DEF ViewIInv, IdsInv
  <1> QED BY <1>1, <1>4, <1>5, <1>6, <1>7, <1>8, <1>9, <1>10, PopKeeps

\* The graph is asked for after the snapshot was loaded.
LEMMA SnapshotLoadedKeeps ==
  ASSUME ViewIInv, SnapshotLoaded, HandlerLeaves
  PROVE  ViewIInv'
  <1> DEFINE r == Plain("get", "snapshot")
  <1>1. /\ Answered /\ Head1.op = "load" /\ queue' = Append(Rest, r)
        /\ UNCHANGED <<ref, next, lost, display, raced, stale, listed, behind, canvasBehind>>
    BY DEF SnapshotLoaded, SameGraph, SameCanvas, graphVars
  <1>2. UNCHANGED daemonVars /\ UNCHANGED <<ref, shown, given, steps, fails>> /\ error' \in BOOLEAN
    BY <1>1 DEF HandlerLeaves
  <1>3. TypeOK /\ Done(queue[1]) /\ queue # <<>> /\ queue[1].op = "load"
        /\ 1 \in DOMAIN queue
    BY <1>1, AnsweredFacts, HeadFacts DEF ViewIInv
  <1>4. r \in Request /\ Unanswered(r) /\ ~Done(r) /\ r.op = "get" /\ r.then = "snapshot"
    BY PlainIsRequest
  <1> HIDE DEF r
  <1>5. FollowUp(r)
    <2>1. snapshot # NoGraph
      BY <1>3 DEF ViewIInv, QueueInv, NotYet
    <2>2. Proper(r)
      BY <1>4, NoReplyIsNoAnswer DEF Proper, Unanswered
    <2> QED BY <1>4, <2>1, <2>2 DEF FollowUp
  <1>6. PopStep /\ queue' \in Seq(Request) /\ Len(queue') = Len(queue)
        /\ queue'[Len(queue)] = r /\ Popped(queue, queue') /\ Len(queue) \in After(queue', 0)
    BY <1>1, <1>2, <1>3, <1>4, <1>5, FollowUpIsPop
  <1>7. TypeOK'
    BY <1>1, <1>2, <1>3, <1>6, ViewTypesAreKept, PopTypes
  <1>8. Neutral(queue[1])
    BY <1>3 DEF Neutral, TakesNode, TakesEdge
  <1>9. Calm' => Calm
    BY <1>1 DEF Calm
  <1>10. StaleInv' /\ ShownInv'
    BY <1>1, <1>6, <1>8, <1>9, CanvasKept
  <1>11. NextInv'
    <2>1. Rebuilds(queue'[Len(queue)])
      BY <1>4, <1>6 DEF Rebuilds
    <2>2. Rebuilt(queue', 0)
      BY <1>6, <2>1 DEF Rebuilt
    <2> QED BY <2>2 DEF NextInv
  <1>12. Known(next', Born) /\ Known(display', Born)
    BY <1>1 DEF ViewIInv, IdsInv
  \* What the load restored is there when the graph is asked for.
  <1>13. Calm' => FlowTrue(Served, snapshot, queue', Len(queue))
    <2> SUFFICES ASSUME Calm
                 PROVE  FlowTrue(Served, snapshot, queue', Len(queue))
      BY <1>9
    <2>1. PICK q2 : q2 = queue'
      OBVIOUS
    <2>2. Back(Served, snapshot, queue, 1)
      BY <1>3, HeadFacts DEF FlowTrue
    <2>3. Follows(queue, 1, q2, 0)
      <3>1. queue \in Seq(Request) /\ 0 \in 0 .. Len(queue) - 1 /\ 0 + 1 = 1
        BY <1>3, <1>6 DEF TypeOK, Popped
      <3> QED BY <1>6, <2>1, <3>1, PoppedFollows
    <2>4. Back(Served, snapshot, q2, 0)
      <3>1. SameSymbols(Served, Served)
        BY DEF SameSymbols
      <3> QED BY <2>2, <2>3, <3>1, BackCarries, HoldsItself
    <2> QED BY <1>4, <1>6, <2>1, <2>4 DEF FlowTrue
  <1> QED BY <1>1, <1>6, <1>7, <1>8, <1>9, <1>10, <1>11, <1>12, <1>13, PopKeeps

\* Where the snapshot is displayed.
LEMMA DetailFacts ==
  ASSUME ViewIInv, Answered, Head1.op = "detail", Calm
  PROVE  /\ Holds(Served, queue, 0, queue[1].closure)
         /\ Served.nodes \cap Symbols \subseteq queue[1].closure.nodes
         /\ Found(Served, queue[1].reply, queue[1].closure)
         /\ queue[1].reply \in Graph /\ queue[1].closure \in Graph
         /\ Head1.reply = queue[1].reply /\ Head1.closure = queue[1].closure
  <1>1. Done(queue[1]) /\ queue[1].reply \in Graph /\ queue # <<>>
    BY AnsweredFacts
  <1>2. Head1 = queue[1] /\ FlowTrue(Served, snapshot, queue, 1) /\ queue[1] \in Request
    BY <1>1, HeadFacts
  <1>3. queue[1].closure \in Graph
    BY <1>2, RequestFields
  <1> QED BY <1>1, <1>2, <1>3 DEF FlowTrue

\* What it marks stale is a symbol that is gone, or lacks one, or a placeholder
\* of a place that is not listed.
LEMMA MarkedLacks ==
  ASSUME NEW d, NEW s \in Graph, NEW g \in Graph, d.nodes \cap Symbols \subseteq g.nodes,
         Found(d, s, g), NEW x \in SnapshotStale(s, g)
  PROVE  \/ x \in (Symbols \ d.nodes) \cup ((Files \cup Dirs) \ Places(d.nodes))
         \/ x \in Pairs /\ SymbolMissing(d, x)
  <1>1. /\ SnapshotDisplay(s).nodes = s.nodes /\ SnapshotDisplay(s).edges \subseteq s.edges
        /\ s.nodes \subseteq Node /\ s.edges \subseteq Pairs
    BY DEF SnapshotDisplay, Graph
  <1>2. CASE x \in s.nodes \ (g.nodes \cup Places(g.nodes))
    <2>1. x \in Symbols \cup Vids \cup Files \cup Dirs
      BY <1>1, <1>2 DEF Node
    <2>2. x \notin Vids
      BY <1>2 DEF Found
    <2>3. Places(d.nodes) \subseteq Places(g.nodes)
      BY PlacesGrow
    <2> QED BY <1>2, <2>1, <2>2, <2>3
  <1>3. CASE x \in SnapshotDisplay(s).edges \ g.edges
    BY <1>1, <1>3 DEF Found
  <1> QED BY <1>1, <1>2, <1>3 DEF SnapshotStale

\* The canvas shows the snapshot.
LEMMA GotSnapshotKeeps ==
  ASSUME ViewIInv, GotSnapshot, HandlerLeaves
  PROVE  ViewIInv'
  <1> DEFINE s == queue[1].reply
             g == queue[1].closure
  <1>1. /\ Answered /\ Head1.op = "detail" /\ queue' = Rest
        /\ display' = SnapshotDisplay(Head1.reply)
        /\ stale' = SnapshotStale(Head1.reply, Head1.closure)
        /\ raced' = (raced \/ InFlow(Rest))
        /\ UNCHANGED <<ref, next, lost, listed, behind, canvasBehind>>
    BY DEF GotSnapshot, SameGraph, graphVars
  <1>2. UNCHANGED daemonVars /\ UNCHANGED <<ref, shown, given, steps, fails>> /\ error' \in BOOLEAN
    BY <1>1 DEF HandlerLeaves
  <1>3. /\ TypeOK /\ Done(queue[1]) /\ queue # <<>> /\ queue[1].op = "detail"
        /\ Head1 = queue[1] /\ s \in Graph /\ g \in Graph /\ Known(s, Born)
    BY <1>1, AnsweredFacts, HeadFacts, RequestFields DEF ViewIInv
  <1>4. PopStep /\ queue' \in Seq(Request) /\ Len(queue') # Len(queue) /\ Popped(queue, queue')
    BY <1>1, <1>2, <1>3, RestIsPop
  <1>5. display' = SnapshotDisplay(s) /\ stale' = SnapshotStale(s, g)
    BY <1>1, <1>3
  <1>6. SnapshotDisplay(s) \in Graph /\ SnapshotStale(s, g) \subseteq Node \cup Pairs
    BY <1>3, BuildersBuild
  <1> HIDE DEF s, g
  <1>7. TypeOK'
    BY <1>1, <1>2, <1>3, <1>4, <1>5, <1>6, ViewTypesAreKept, PopTypes
  <1>8. Neutral(queue[1]) /\ ~Rebuilds(queue[1])
        /\ (\A n : ~MakesNode(queue[1], n)) /\ (\A p : ~MakesEdge(queue[1], p))
    BY <1>3 DEF Neutral, TakesNode, TakesEdge, Rebuilds, MakesNode, MakesEdge
  <1>9. Calm' => Calm /\ ~InFlow(Rest)
    BY <1>1 DEF Calm
  <1>10. NextInv'
    BY <1>1, <1>4, <1>8, GraphKept
  <1>11. Known(next', Born) /\ Known(display', Born)
    BY <1>1, <1>3, <1>5 DEF ViewIInv, IdsInv, Known, SnapshotDisplay, Graph
  <1>12. ASSUME Calm
         PROVE  /\ Holds(Served, queue, 0, g) /\ Served.nodes \cap Symbols \subseteq g.nodes
                /\ Found(Served, s, g)
    BY <1>1, <1>12, DetailFacts DEF s, g
  <1>13. Served' = Served /\ nodes' = nodes /\ Served.nodes = nodes
    BY <1>2 DEF Served, daemonVars
  <1>14. StaleInv'
    <2> SUFFICES ASSUME Calm', NEW x \in SnapshotStale(s, g)
                 PROVE  \/ x \in (Symbols \ nodes) \cup Files \cup Dirs
                        \/ x \in Pairs /\ SymbolMissing(Served, x)
      BY <1>5, <1>13 DEF StaleInv
    <2> QED BY <1>3, <1>9, <1>12, <1>13, MarkedLacks
  <1>15. ShownInv'
    <2> SUFFICES ASSUME Calm'
                 PROVE  Visible(Served, queue', SnapshotDisplay(s), SnapshotStale(s, g))
      BY <1>5, <1>13 DEF ShownInv
    <2>1. PICK q2 : q2 = queue'
      OBVIOUS
    <2>2. Holds(Served, q2, 0, g)
      BY <1>3, <1>4, <1>8, <1>9, <1>12, <2>1, NeutralPops DEF TypeOK
    <2>3. \A n \in SnapshotDisplay(s).nodes :
             n \in g.nodes \/ n \in SnapshotStale(s, g) \cup Files \cup Dirs
      BY PlacesAreListed DEF SnapshotStale
    <2>4. \A p \in SnapshotDisplay(s).edges : p \in g.edges \/ p \in SnapshotStale(s, g)
      BY DEF SnapshotStale
    <2> QED BY <2>1, <2>2, <2>3, <2>4 DEF Visible, Holds
  <1> QED BY <1>1, <1>4, <1>7, <1>8, <1>9, <1>10, <1>11, <1>14, <1>15, PopKeeps

\* The canvas is emptied, before the graph or the snapshot is loaded.
LEMMA WasClearedKeeps ==
  ASSUME ViewIInv, WasCleared, HandlerLeaves
  PROVE  ViewIInv'
  <1> DEFINE r == AfterCleared(Head1.then)
  <1>1. /\ Answered /\ Head1.op = "clear" /\ queue' = Append(Rest, r)
        /\ display' = Empty /\ stale' = {} /\ raced' = InFlow(Rest) /\ canvasBehind' = FALSE
        /\ UNCHANGED <<ref, next, lost, listed, behind>>
    BY DEF WasCleared, SameGraph, graphVars
  <1>2. UNCHANGED daemonVars /\ UNCHANGED <<ref, shown, given, steps, fails>> /\ error' \in BOOLEAN
    BY <1>1 DEF HandlerLeaves
  <1>3. /\ TypeOK /\ queue # <<>> /\ Head1 = queue[1] /\ Proper(queue[1]) /\ queue[1].op = "clear"
        /\ 1 \in DOMAIN queue
    BY <1>1, AnsweredFacts, HeadFacts DEF ViewIInv
  <1>4. \/ Head1.then = "cleared" /\ r = Plain("get", "cleared")
        \/ Head1.then = "snapshot" /\ r = Plain("load", "none") /\ snapshot # NoGraph
    <2>1. Head1.then \in {"cleared", "snapshot"}
      BY <1>3 DEF Proper
    <2>2. Head1.then = "snapshot" => snapshot # NoGraph
      BY <1>3 DEF ViewIInv, QueueInv, NotYet
    <2> QED BY <2>1, <2>2 DEF AfterCleared
  <1>5. /\ r \in Request /\ Unanswered(r) /\ ~Done(r)
        /\ \/ r.op = "get" /\ r.then = "cleared"
           \/ r.op = "load" /\ r.then = "none" /\ snapshot # NoGraph
    <2>1. CASE Head1.then = "cleared" /\ r = Plain("get", "cleared")
      BY <2>1, PlainIsRequest
    <2>2. CASE Head1.then = "snapshot" /\ r = Plain("load", "none") /\ snapshot # NoGraph
      BY <2>2, PlainIsRequest
    <2> QED BY <1>4, <2>1, <2>2
  <1> HIDE DEF r
  <1>6. FollowUp(r) /\ Rebuilds(r) /\ FlowEntry(r)
    <2>1. Proper(r)
      BY <1>5, NoReplyIsNoAnswer DEF Proper, Unanswered
    <2> QED BY <1>5, <2>1 DEF FollowUp, Rebuilds, FlowEntry
  <1>7. PopStep /\ queue' \in Seq(Request) /\ Len(queue') = Len(queue)
        /\ queue'[Len(queue)] = r /\ Popped(queue, queue') /\ Len(queue) \in After(queue', 0)
    BY <1>1, <1>2, <1>3, <1>5, <1>6, FollowUpIsPop
  <1>8. TypeOK'
    <2>1. Empty \in Graph
      BY DEF Empty, Graph
    <2> QED BY <1>1, <1>2, <1>3, <1>7, <2>1, ViewTypesAreKept, PopTypes
  <1>9. Calm' => ~InFlow(Rest)
    BY <1>1 DEF Calm
  <1>10. StaleInv' /\ ShownInv'
    BY <1>1 DEF StaleInv, ShownInv, Visible, Empty
  <1>11. NextInv'
    <2>1. Rebuilt(queue', 0)
      BY <1>6, <1>7 DEF Rebuilt
    <2> QED BY <2>1 DEF NextInv
  <1>12. Known(next', Born) /\ Known(display', Born)
    BY <1>1 DEF ViewIInv, IdsInv, Known, Empty
  <1>13. FlowTrue(Served, snapshot, queue', Len(queue))
    BY <1>5, <1>7 DEF FlowTrue, FetchesFor
  <1>14. FlowEntry(queue'[Len(queue)])
    BY <1>6, <1>7
  <1> QED BY <1>1, <1>7, <1>8, <1>9, <1>10, <1>11, <1>12, <1>13, <1>14, PopKeeps

-----------------------------------------------------------------------------
(* The graph is loaded.                                                    *)

\* Whatever goes on after it, the graph of the view is the answer.
LEMMA GotGraphNext ==
  ASSUME ViewIInv, GotGraph, PopStep
  PROVE  NextInv'
  <1>1. PICK q2, d : q2 = queue' /\ d = Served
    OBVIOUS
  <1>2. Served' = Served /\ queue \in Seq(Request) /\ Popped(queue, q2)
    BY <1>1 DEF PopStep, Served, ViewIInv, TypeOK
  <1>3. Answered /\ next' = Head1.reply /\ behind' = ~Head1.current /\ Head1.op = "get"
    BY DEF GotGraph
  <1>4. Head1 = queue[1] /\ Done(queue[1]) /\ AnswerTrue(d, queue, 1)
    BY <1>1, <1>3, AnsweredFacts, HeadFacts
  <1>5. /\ \A g : Holds(d, queue, 1, g) => Holds(d, q2, 0, g)
        /\ \A g : Complete(d, queue, 1, g) => Complete(d, q2, 0, g)
        /\ Rebuilt(queue, 1) => Rebuilt(q2, 0)
    BY <1>2, PopCarries
  <1> SUFFICES ASSUME ~behind', ~Rebuilt(q2, 0)
               PROVE  Holds(d, q2, 0, next') /\ Complete(d, q2, 0, next')
    BY <1>1, <1>2 DEF NextInv
  <1>6. queue[1].current
    BY <1>3, <1>4
  <1>7. Holds(d, queue, 1, queue[1].reply) /\ Complete(d, queue, 1, queue[1].reply)
    BY <1>3, <1>4, <1>5, <1>6 DEF AnswerTrue
  <1> QED BY <1>3, <1>4, <1>5, <1>7

\* Load All, Retry, Clear: the canvas is left alone.
LEMMA GotGraphShowKeeps ==
  ASSUME ViewIInv, GotGraph, HandlerLeaves, Head1.then \in {"show", "cleared"}
  PROVE  ViewIInv'
  <1>1. /\ Answered /\ Head1.op = "get" /\ queue' = Rest
        /\ next' = Head1.reply /\ lost' = FALSE /\ behind' = ~Head1.current
        /\ UNCHANGED <<ref, display, raced, stale, listed, canvasBehind>>
    BY DEF GotGraph, SameCanvas
  <1>2. UNCHANGED daemonVars /\ UNCHANGED <<ref, shown, given, steps, fails>> /\ error' \in BOOLEAN
    BY <1>1 DEF HandlerLeaves
  <1>3. /\ TypeOK /\ Done(queue[1]) /\ queue # <<>> /\ queue[1].op = "get" /\ Head1 = queue[1]
        /\ queue[1].reply \in Graph /\ Known(queue[1].reply, Born)
        /\ queue[1].current \in BOOLEAN /\ queue[1].reply # NoReply
    BY <1>1, AnsweredFacts, HeadFacts, RequestFields DEF ViewIInv
  <1>4. PopStep /\ queue' \in Seq(Request) /\ Len(queue') # Len(queue)
    BY <1>1, <1>2, <1>3, RestIsPop
  <1>5. TypeOK'
    BY <1>1, <1>2, <1>3, <1>4, ViewTypesAreKept, PopTypes
  <1>6. Neutral(queue[1])
    BY <1>3 DEF Neutral, TakesNode, TakesEdge
  <1>7. Calm' => Calm
    BY <1>1 DEF Calm
  <1>8. StaleInv' /\ ShownInv'
    BY <1>1, <1>4, <1>6, <1>7, CanvasKept
  <1>9. NextInv'
    BY <1>4, GotGraphNext
  <1>10. Known(next', Born) /\ Known(display', Born)
    BY <1>1, <1>3 DEF ViewIInv, IdsInv
  <1>11. ~behind' => queue[1].current /\ queue[1].reply # NoReply
    BY <1>1, <1>3
  <1> QED BY <1>1, <1>4, <1>5, <1>6, <1>7, <1>8, <1>9, <1>10, <1>11, PopKeeps

\* A refresh: what the canvas keeps is in the answer.
LEMMA GotGraphRefreshKeeps ==
  ASSUME ViewIInv, GotGraph, HandlerLeaves, Head1.then = "refresh"
  PROVE  ViewIInv'
  <1>1. /\ Answered /\ Head1.op = "get" /\ queue' = Rest
        /\ next' = Head1.reply /\ lost' = FALSE /\ behind' = ~Head1.current
        /\ canvasBehind' = (~Head1.current \/ KeepsGoneNode(Head1.reply))
        /\ display' = Refreshed(display, Head1.reply) /\ raced' = InFlow(Rest)
        /\ stale' = stale \cap Synthetic(display, Head1.reply)
        /\ UNCHANGED <<ref, listed>>
    BY DEF GotGraph
  <1>2. UNCHANGED daemonVars /\ UNCHANGED <<ref, shown, given, steps, fails>> /\ error' \in BOOLEAN
    BY <1>1 DEF HandlerLeaves
  <1>3. /\ TypeOK /\ Done(queue[1]) /\ queue # <<>> /\ queue[1].op = "get" /\ Head1 = queue[1]
        /\ queue[1].reply \in Graph /\ Known(queue[1].reply, Born)
        /\ queue[1].current \in BOOLEAN /\ queue[1].reply # NoReply
        /\ display \in Graph /\ Known(display, Born) /\ AnswerTrue(Served, queue, 1)
    BY <1>1, AnsweredFacts, HeadFacts, RequestFields DEF ViewIInv, TypeOK, IdsInv
  <1>4. PopStep /\ queue' \in Seq(Request) /\ Len(queue') # Len(queue) /\ Popped(queue, queue')
    BY <1>1, <1>2, <1>3, RestIsPop
  <1> DEFINE g == queue[1].reply
  <1>5. Refreshed(display, g) \in Graph
    BY <1>3, BuildersBuild
  <1>6. /\ Refreshed(display, g).nodes \subseteq g.nodes \cup Synthetic(display, g)
        /\ Synthetic(display, g) \subseteq display.nodes
        /\ Refreshed(display, g).nodes \subseteq display.nodes
        /\ Refreshed(display, g).edges \subseteq g.edges
    BY DEF Refreshed, Empty, Synthetic
  <1>7. Known(Refreshed(display, g), Born)
    BY <1>3, <1>6 DEF Known
  <1>8. TypeOK'
    BY <1>1, <1>2, <1>3, <1>4, <1>5, ViewTypesAreKept, PopTypes
  <1>9. Calm' => queue[1].current /\ ~InFlow(Rest) /\ Synthetic(display, g) \subseteq Dirs
    BY <1>1, <1>3 DEF Calm, KeepsGoneNode, Synthetic
  <1>10. StaleInv'
    BY <1>1, <1>3, <1>9 DEF StaleInv
  <1>11. ShownInv'
    <2> SUFFICES ASSUME Calm'
                 PROVE  Visible(Served, queue', Refreshed(display, g), stale')
      <3>1. Served' = Served
        BY <1>2 DEF Served, daemonVars
      <3> QED BY <1>1, <1>3, <3>1 DEF ShownInv
    <2>1. PICK q2 : q2 = queue'
      OBVIOUS
    <2>2. Holds(Served, queue, 1, g)
      BY <1>3, <1>9 DEF AnswerTrue
    <2>3. Holds(Served, q2, 0, g)
      BY <1>3, <1>4, <2>1, <2>2, PopCarries DEF TypeOK
    <2> HIDE DEF g
    <2> QED BY <1>6, <1>9, <2>1, <2>3 DEF Visible, Holds
  <1>12. NextInv'
    BY <1>4, GotGraphNext
  <1>13. Known(next', Born) /\ Known(display', Born)
    BY <1>1, <1>3, <1>7
  <1>14. ~behind' => queue[1].current /\ queue[1].reply # NoReply
    BY <1>1, <1>3
  <1> QED BY <1>1, <1>3, <1>4, <1>8, <1>9, <1>10, <1>11, <1>12, <1>13, <1>14, PopKeeps

\* Something is added to the canvas that the daemon has.
LEMMA AddedToCanvas ==
  ASSUME ViewIInv, PopStep, Neutral(queue[1]), NEW h, stale' = stale, Calm' => Calm,
         display'.nodes \subseteq display.nodes \cup h.nodes,
         display'.edges \subseteq display.edges \cup h.edges,
         NEW q2, q2 = queue',
         Calm' => /\ \A n \in h.nodes : n \in nodes \cup Files \cup Dirs \/ NodeGoes(q2, 0, n)
                  /\ \A p \in h.edges : p \in Served.edges \/ EdgeGoes(q2, 0, p)
  PROVE  StaleInv' /\ ShownInv'
  <1>1. Served' = Served /\ nodes' = nodes /\ Served.nodes = nodes
    BY DEF PopStep, Served
  <1>2. queue \in Seq(Request) /\ Popped(queue, q2)
    BY DEF ViewIInv, TypeOK, PopStep
  <1>3. StaleInv'
    BY <1>1 DEF ViewIInv, StaleInv
  <1>4. ShownInv'
    <2> SUFFICES ASSUME Calm'
                 PROVE  Visible(Served, q2, display', stale)
      BY <1>1 DEF ShownInv
    <2>1. Visible(Served, queue, display, stale)
      BY DEF ViewIInv, ShownInv
    <2>2. Visible(Served, q2, display, stale)
      BY <1>2, <2>1, NeutralPops
    <2> QED BY <1>1, <2>2 DEF Visible
  <1> QED BY <1>3, <1>4

\* A node of the tree: it and its neighbours are in the answer.
LEMMA GotGraphAddKeeps ==
  ASSUME ViewIInv, GotGraph, HandlerLeaves, Head1.then = "add"
  PROVE  ViewIInv'
  <1> DEFINE g == queue[1].reply
             h == WithNeighbors(g, queue[1].arg, queue[1].closure.nodes)
  <1>1. /\ Answered /\ Head1.op = "get" /\ queue' = Rest
        /\ next' = Head1.reply /\ lost' = FALSE /\ behind' = ~Head1.current
        /\ UNCHANGED <<ref, stale, listed, canvasBehind>>
    BY DEF GotGraph
  <1>2. UNCHANGED daemonVars /\ UNCHANGED <<ref, shown, given, steps, fails>> /\ error' \in BOOLEAN
    BY <1>1 DEF HandlerLeaves
  <1>3. /\ TypeOK /\ Done(queue[1]) /\ queue # <<>> /\ queue[1].op = "get" /\ Head1 = queue[1]
        /\ g \in Graph /\ Known(g, Born) /\ queue[1].then = "add"
        /\ queue[1].current \in BOOLEAN /\ queue[1].reply # NoReply
        /\ display \in Graph /\ Known(display, Born) /\ AnswerTrue(Served, queue, 1)
        /\ Calm /\ ~InFlow(Rest) => queue[1].current
        /\ Proper(queue[1])
    BY <1>1, AnsweredFacts, HeadFacts, RequestFields DEF ViewIInv, TypeOK, IdsInv
  <1>4. \/ /\ queue[1].arg \in g.nodes \cup Files \cup Dirs
           /\ display' = Merge(display, h) /\ raced' = (raced \/ InFlow(Rest))
        \/ display' = display /\ raced' = raced
    BY <1>1, <1>3 DEF GotGraph, Display, SameCanvas, Addable
  <1>5. PopStep /\ queue' \in Seq(Request) /\ Len(queue') # Len(queue) /\ Popped(queue, queue')
    BY <1>1, <1>2, <1>3, RestIsPop
  <1>6. queue[1].arg \in Node
    BY <1>3 DEF Proper
  <1>7. h \in Graph /\ h.nodes = {queue[1].arg} /\ h.edges \subseteq g.edges
    BY <1>3, <1>6, BuildersBuild DEF WithNeighbors
  <1>8. Neutral(queue[1])
    BY <1>3 DEF Neutral, TakesNode, TakesEdge
  <1>9. NextInv'
    BY <1>5, GotGraphNext
  <1>10. ~behind' => queue[1].current /\ queue[1].reply # NoReply
    BY <1>1, <1>3
  <1>11. g = queue[1].reply
    OBVIOUS
  <1> HIDE DEF g, h
  <1>12. CASE /\ queue[1].arg \in g.nodes \cup Files \cup Dirs
              /\ display' = Merge(display, h) /\ raced' = (raced \/ InFlow(Rest))
    <2>1. Merge(display, h) \in Graph
      BY <1>3, <1>7, BuildersBuild
    <2>2. TypeOK'
      BY <1>1, <1>2, <1>3, <1>5, <1>11, <1>12, <2>1, ViewTypesAreKept, PopTypes
    <2>3. Known(h, Born)
      BY <1>3, <1>7, <1>12, IdsAssumption DEF Known
    <2>4. Known(next', Born) /\ Known(display', Born)
      BY <1>1, <1>3, <1>11, <1>12, <2>3, MergeKnown
    <2>5. Calm' => Calm /\ ~InFlow(Rest)
      BY <1>1, <1>12 DEF Calm
    <2>6. PICK q2 : q2 = queue'
      OBVIOUS
    <2>7. ASSUME Calm'
          PROVE  Holds(Served, q2, 0, g)
      <3>1. Holds(Served, queue, 1, g)
        BY <1>3, <1>11, <2>5, <2>7 DEF AnswerTrue
      <3> QED BY <1>3, <1>5, <2>6, <3>1, PopCarries DEF TypeOK
    <2>8. Calm' => /\ \A n \in h.nodes : n \in nodes \cup Files \cup Dirs \/ NodeGoes(q2, 0, n)
                   /\ \A p \in h.edges : p \in Served.edges \/ EdgeGoes(q2, 0, p)
      <3>1. Served.nodes = nodes
        BY DEF Served
      <3> QED BY <1>7, <1>12, <2>7, <3>1 DEF Holds
    <2>9. /\ display'.nodes \subseteq display.nodes \cup h.nodes
          /\ display'.edges \subseteq display.edges \cup h.edges
      BY <1>12 DEF Merge
    <2>10. StaleInv' /\ ShownInv'
      BY <1>1, <1>5, <1>8, <2>5, <2>6, <2>8, <2>9, AddedToCanvas
    <2> QED BY <1>1, <1>5, <1>8, <1>9, <1>10, <2>2, <2>4, <2>5, <2>10, PopKeeps
  <1>13. CASE display' = display /\ raced' = raced
    <2>1. TypeOK'
      BY <1>1, <1>2, <1>3, <1>5, <1>11, <1>13, ViewTypesAreKept, PopTypes
    <2>2. Known(next', Born) /\ Known(display', Born)
      BY <1>1, <1>3, <1>11, <1>13
    <2>3. Calm' => Calm
      BY <1>1, <1>13 DEF Calm
    <2>4. StaleInv' /\ ShownInv'
      BY <1>1, <1>5, <1>8, <1>13, <2>3, CanvasKept
    <2> QED BY <1>1, <1>5, <1>8, <1>9, <1>10, <2>1, <2>2, <2>3, <2>4, PopKeeps
  <1> QED BY <1>4, <1>12, <1>13

\* On the way to a snapshot: the snapshot is asked for, and will be looked up
\* in the answer.
LEMMA GotGraphSnapshotKeeps ==
  ASSUME ViewIInv, GotGraph, HandlerLeaves, Head1.then = "snapshot"
  PROVE  ViewIInv'
  <1> DEFINE g == queue[1].reply
             r == Ask("detail", "none", NoArg, g)
  <1>1. /\ Answered /\ Head1.op = "get"
        /\ queue' = Append(Rest, Ask("detail", "none", NoArg, Head1.reply))
        /\ next' = Head1.reply /\ lost' = FALSE /\ behind' = ~Head1.current
        /\ UNCHANGED <<ref, stale, listed, canvasBehind, display, raced>>
    BY DEF GotGraph, SameCanvas
  <1>2. UNCHANGED daemonVars /\ UNCHANGED <<ref, shown, given, steps, fails>> /\ error' \in BOOLEAN
    BY <1>1 DEF HandlerLeaves
  <1>3. /\ TypeOK /\ Done(queue[1]) /\ queue # <<>> /\ queue[1].op = "get" /\ Head1 = queue[1]
        /\ g \in Graph /\ Known(g, Born) /\ queue[1].then = "snapshot"
        /\ queue[1].current \in BOOLEAN /\ queue[1].reply # NoReply
        /\ AnswerTrue(Served, queue, 1) /\ 1 \in DOMAIN queue
        /\ Calm /\ FlowEntry(queue[1]) => queue[1].current
        /\ Calm => FlowTrue(Served, snapshot, queue, 1)
    BY <1>1, AnsweredFacts, HeadFacts, RequestFields DEF ViewIInv, TypeOK, IdsInv
  <1>4. /\ r \in Request /\ Unanswered(r) /\ ~Done(r) /\ r.op = "detail" /\ r.then = "none"
        /\ r.closure = g
    BY <1>3, AskIsRequest
  <1>5. queue' = Append(Rest, r)
    BY <1>1, <1>3
  <1> HIDE DEF r
  <1>6. FollowUp(r)
    <2>1. snapshot # NoGraph
      BY <1>3 DEF ViewIInv, QueueInv, NotYet
    <2>2. Proper(r)
      BY <1>4, NoReplyIsNoAnswer DEF Proper, Unanswered
    <2> QED BY <1>4, <2>1, <2>2 DEF FollowUp
  <1>7. PopStep /\ queue' \in Seq(Request) /\ Len(queue') = Len(queue)
        /\ queue'[Len(queue)] = r /\ Popped(queue, queue')
    BY <1>2, <1>3, <1>4, <1>5, <1>6, FollowUpIsPop
  <1>8. TypeOK'
    BY <1>1, <1>2, <1>3, <1>7, ViewTypesAreKept, PopTypes
  <1>9. Neutral(queue[1])
    BY <1>3 DEF Neutral, TakesNode, TakesEdge
  <1>10. NextInv'
    BY <1>7, GotGraphNext
  <1>11. ~behind' => queue[1].current /\ queue[1].reply # NoReply
    BY <1>1, <1>3
  <1>12. Calm' => Calm
    BY <1>1 DEF Calm
  <1>13. StaleInv' /\ ShownInv'
    BY <1>1, <1>7, <1>9, <1>12, CanvasKept
  <1>14. Known(next', Born) /\ Known(display', Born)
    BY <1>1, <1>3 DEF ViewIInv, IdsInv
  <1>15. Calm' => FlowTrue(Served, snapshot, queue', Len(queue))
    <2> SUFFICES ASSUME Calm
                 PROVE  FlowTrue(Served, snapshot, queue', Len(queue))
      BY <1>12
    <2>1. PICK q2 : q2 = queue'
      OBVIOUS
    <2>2. queue[1].current
      BY <1>3 DEF FlowEntry
    <2>3. Holds(Served, queue, 1, g) /\ Served.nodes \cap Symbols \subseteq g.nodes
      BY <1>3, <2>2 DEF AnswerTrue
    <2>4. Holds(Served, q2, 0, g)
      BY <1>3, <1>7, <2>1, <2>3, PopCarries DEF TypeOK
    <2>5. Fetched(Served, snapshot, queue, 1)
      BY <1>3 DEF FlowTrue, FetchesFor
    <2>6. Found(Served, snapshot, g)
      <3>1. \A j : j \notin 1 .. 1 - 1
        OBVIOUS
      <3> QED BY <2>5, <3>1 DEF Fetched, Found
    <2> HIDE DEF g
    <2> QED BY <1>4, <1>7, <2>1, <2>3, <2>4, <2>6 DEF FlowTrue, FetchesFor
  <1> QED BY <1>1, <1>7, <1>8, <1>9, <1>10, <1>11, <1>12, <1>13, <1>14, <1>15, PopKeeps

\* Whoever asked for the graph, the invariant is kept.
LEMMA GotGraphKeeps ==
  ASSUME ViewIInv, GotGraph, HandlerLeaves
  PROVE  ViewIInv'
  <1>1. Head1.then \in {"show", "cleared", "refresh", "add", "snapshot"}
    BY DEF GotGraph
  <1> QED BY <1>1, GotGraphShowKeeps, GotGraphRefreshKeeps, GotGraphAddKeeps,
             GotGraphSnapshotKeeps

-----------------------------------------------------------------------------
(* What is built from graphDataRef.                                        *)

\* A graph that is neither old nor misses a change has what the daemon has,
\* but for what the first request did and what later ones take and make.
LEMMA RefFacts ==
  ASSUME ViewIInv, PopStep, ~Rebuilds(queue[1]), NEW q2, q2 = queue',
         ~behind, ~lost, ref = next, ~Rebuilt(q2, 0)
  PROVE  /\ \A n \in ref.nodes : n \in nodes \/ TakesNode(queue[1], n) \/ NodeGoes(q2, 0, n)
         /\ \A p \in ref.edges :
               p \in Served.edges \/ TakesEdge(queue[1], p) \/ EdgeGoes(q2, 0, p)
         /\ \A n \in nodes : n \in ref.nodes \/ MakesNode(queue[1], n) \/ NodeComes(q2, 0, n)
         /\ \A p \in Served.edges :
               p \in ref.edges \/ MakesEdge(queue[1], p) \/ EdgeComes(q2, 0, p)
  <1>1. queue \in Seq(Request) /\ Popped(queue, q2)
    BY DEF ViewIInv, TypeOK, PopStep
  <1>2. /\ \A n : NodeGoes(queue, 0, n) => TakesNode(queue[1], n) \/ NodeGoes(q2, 0, n)
        /\ \A p : EdgeGoes(queue, 0, p) => TakesEdge(queue[1], p) \/ EdgeGoes(q2, 0, p)
        /\ \A n : NodeComes(queue, 0, n) => MakesNode(queue[1], n) \/ NodeComes(q2, 0, n)
        /\ \A p : EdgeComes(queue, 0, p) => MakesEdge(queue[1], p) \/ EdgeComes(q2, 0, p)
        /\ Rebuilt(queue, 0) => Rebuilds(queue[1]) \/ Rebuilt(q2, 0)
    BY <1>1, PopCarries
  <1>3. Holds(Served, queue, 0, ref) /\ Complete(Served, queue, 0, ref)
    BY <1>2 DEF ViewIInv, NextInv
  <1>4. Served.nodes = nodes
    BY DEF Served
  <1> QED BY <1>2, <1>3, <1>4 DEF Holds, Complete

\* No handler that is left empties the canvas: none loads the graph again.
LEMMA RestNotRebuilt ==
  ASSUME ViewIInv, queue # <<>>, ~InFlow(Rest), NEW q2, q2 = Rest
  PROVE  ~Rebuilt(q2, 0)
  <1>1. queue \in Seq(Request)
    BY DEF ViewIInv, TypeOK
  <1>2. PICK n \in Nat : n = Len(queue) /\ DOMAIN queue = 1 .. n
    BY <1>1
  <1>3. q2 \in Seq(Request) /\ Len(q2) = n - 1
    BY <1>1, <1>2, TailPops DEF Rest
  <1>4. DOMAIN q2 = 1 .. n - 1
    BY <1>3
  <1>5. \A j \in 1 .. n - 1 : q2[j] = queue[j + 1] /\ j + 1 \in 1 .. n
    BY <1>1, <1>2, HeadTailProperties DEF Rest
  <1>6. \A j \in DOMAIN q2 : Proper(q2[j])
    BY <1>2, <1>4, <1>5 DEF ViewIInv, QueueInv, ProperInv
  <1> QED BY <1>6, NotInFlow

\* A double click: the neighbours are in the answer or in the graph.
LEMMA GotNeighborhoodKeeps ==
  ASSUME ViewIInv, GotNeighborhood, HandlerLeaves
  PROVE  ViewIInv'
  <1> DEFINE g == queue[1].reply
             merged == Merge(ref, g)
  <1>1. /\ Answered /\ Head1.op = "expand" /\ queue' = Rest
        /\ next' = Merge(ref, Head1.reply) /\ lost' = (lost \/ ref # next)
        /\ display' = Expanded(display, Head1.arg, Merge(ref, Head1.reply))
        /\ raced' = (raced \/ InFlow(Rest)) /\ canvasBehind' = (canvasBehind \/ RefIsOff)
        /\ UNCHANGED <<ref, stale, listed, behind>>
    BY DEF GotNeighborhood, SetFromRef, Display
  <1>2. UNCHANGED daemonVars /\ UNCHANGED <<ref, shown, given, steps, fails>> /\ error' \in BOOLEAN
    BY <1>1 DEF HandlerLeaves
  <1>3. /\ TypeOK /\ Done(queue[1]) /\ queue # <<>> /\ queue[1].op = "expand" /\ Head1 = queue[1]
        /\ g \in Graph /\ Known(g, Born) /\ AnswerTrue(Served, queue, 1)
        /\ display \in Graph /\ Known(display, Born) /\ ref \in Graph /\ Known(ref, Born)
        /\ (~behind => queue[1].current)
    BY <1>1, AnsweredFacts, HeadFacts DEF ViewIInv, TypeOK, IdsInv
  <1>4. PopStep /\ queue' \in Seq(Request) /\ Len(queue') # Len(queue) /\ Popped(queue, queue')
    BY <1>1, <1>2, <1>3, RestIsPop
  <1>5. next' = merged /\ display' = Expanded(display, queue[1].arg, merged)
    BY <1>1, <1>3
  <1>6. merged \in Graph /\ Known(merged, Born)
        /\ merged.nodes = ref.nodes \cup g.nodes /\ merged.edges = ref.edges \cup g.edges
    BY <1>3, BuildersBuild, MergeKnown DEF Merge
  <1>7. g = queue[1].reply
    OBVIOUS
  <1> HIDE DEF g, merged
  <1>8. /\ display' \in Graph /\ display'.nodes \subseteq display.nodes \cup merged.nodes
        /\ display'.edges \subseteq display.edges \cup merged.edges
    BY <1>3, <1>5, <1>6, ExpandedFromBoth
  <1>9. lost' \in BOOLEAN /\ raced' \in BOOLEAN /\ canvasBehind' \in BOOLEAN
    BY <1>1, <1>3, ViewTypesAreKept DEF RefIsOff
  <1>10. TypeOK'
    BY <1>1, <1>2, <1>3, <1>4, <1>5, <1>6, <1>8, <1>9, ViewTypesAreKept, PopTypes
  <1>11. Neutral(queue[1]) /\ ~Rebuilds(queue[1])
         /\ (\A n : ~MakesNode(queue[1], n)) /\ (\A p : ~MakesEdge(queue[1], p))
    BY <1>3 DEF Neutral, TakesNode, TakesEdge, Rebuilds, MakesNode, MakesEdge
  <1>12. PICK q2 : q2 = queue'
    OBVIOUS
  <1>13. Served' = Served /\ Served.nodes = nodes
    BY <1>2 DEF Served, daemonVars
  <1>14. ASSUME ~behind, ~lost, ref = next, ~Rebuilt(q2, 0)
         PROVE  Holds(Served, q2, 0, merged) /\ Complete(Served, q2, 0, merged)
    <2>1. Holds(Served, queue, 1, g)
      BY <1>3, <1>7, <1>14 DEF AnswerTrue
    <2>2. Holds(Served, q2, 0, g)
      BY <1>3, <1>4, <1>12, <2>1, PopCarries DEF TypeOK
    <2>3. /\ \A n \in ref.nodes : n \in nodes \/ NodeGoes(q2, 0, n)
          /\ \A p \in ref.edges : p \in Served.edges \/ EdgeGoes(q2, 0, p)
          /\ \A n \in nodes : n \in ref.nodes \/ NodeComes(q2, 0, n)
          /\ \A p \in Served.edges : p \in ref.edges \/ EdgeComes(q2, 0, p)
      BY <1>4, <1>11, <1>12, <1>14, RefFacts DEF Neutral
    <2> QED BY <1>6, <1>13, <2>2, <2>3 DEF Holds, Complete
  <1>15. NextInv'
    BY <1>1, <1>5, <1>12, <1>13, <1>14 DEF NextInv
  <1>16. Calm' => Calm /\ ~RefIsOff /\ ~InFlow(Rest)
    BY <1>1 DEF Calm
  <1>17. Calm' => /\ \A n \in merged.nodes : n \in nodes \cup Files \cup Dirs \/ NodeGoes(q2, 0, n)
                  /\ \A p \in merged.edges : p \in Served.edges \/ EdgeGoes(q2, 0, p)
    <2>1. Calm' => ~Rebuilt(q2, 0)
      BY <1>1, <1>3, <1>12, <1>16, RestNotRebuilt
    <2>2. Calm' => Holds(Served, q2, 0, merged)
      BY <1>14, <1>16, <2>1 DEF RefIsOff
    <2> QED BY <1>13, <2>2 DEF Holds
  <1>18. StaleInv' /\ ShownInv'
    <2>1. Calm' => Calm
      BY <1>16
    <2> QED BY <1>1, <1>4, <1>8, <1>11, <1>12, <1>17, <2>1, AddedToCanvas
  <1>19. Known(next', Born) /\ Known(display', Born)
    BY <1>3, <1>5, <1>6, <1>8 DEF Known
  <1>20. /\ Calm' => Calm
         /\ Calm' => ~InFlow(Rest) \/ (Calm /\ Neutral(queue[1]))
         /\ ~behind' => ~behind
         /\ listed' => listed
    BY <1>1, <1>11, <1>16
  <1> QED BY <1>4, <1>10, <1>15, <1>18, <1>19, <1>20, PopKeeps

-----------------------------------------------------------------------------
(* What the user made is added to the graph and to the canvas.             *)

\* The remarks of the form are saved first: the node is still to come.
LEMMA NodeAnnotatedKeeps ==
  ASSUME ViewIInv, NodeCreated, HandlerLeaves, Head1.then = "annotate"
  PROVE  ViewIInv'
  <1> DEFINE r == Ask("note", "none", queue[1].arg, Empty)
  <1>1. /\ Answered /\ Head1.op \in {"createNode", "note"}
        /\ queue' = Append(Rest, Ask("note", "none", Head1.arg, Empty))
        /\ UNCHANGED <<ref, next, lost, display, raced, stale, listed, behind, canvasBehind>>
    BY DEF NodeCreated, SameGraph, SameCanvas, graphVars
  <1>2. UNCHANGED daemonVars /\ UNCHANGED <<ref, shown, given, steps, fails>> /\ error' \in BOOLEAN
    BY <1>1 DEF HandlerLeaves
  <1>3. /\ TypeOK /\ Done(queue[1]) /\ queue # <<>> /\ Head1 = queue[1]
        /\ Proper(queue[1]) /\ KnownRequest(queue[1], Born, given) /\ queue[1].reply # NoReply
    BY <1>1, AnsweredFacts, HeadFacts DEF ViewIInv
  <1>4. queue[1].op = "createNode" /\ queue[1].arg \in Vids /\ queue[1].arg \in Born
    BY <1>1, <1>3 DEF Proper, KnownRequest, Waits
  <1>5. /\ r \in Request /\ Unanswered(r) /\ ~Done(r) /\ r.op = "note" /\ r.then = "none"
        /\ r.arg = queue[1].arg
    <2>1. Empty \in Graph /\ queue[1].arg \in Node
      BY <1>4 DEF Empty, Graph, Node
    <2> QED BY <2>1, AskIsRequest
  <1>6. queue' = Append(Rest, r)
    BY <1>1, <1>3
  <1> HIDE DEF r
  <1>7. FollowUp(r)
    <2>1. Proper(r)
      BY <1>4, <1>5, NoReplyIsNoAnswer DEF Proper, Unanswered
    <2> QED BY <1>4, <1>5, <2>1 DEF FollowUp
  <1>8. PopStep /\ queue' \in Seq(Request) /\ Len(queue') = Len(queue)
        /\ queue'[Len(queue)] = r /\ Len(queue) \in After(queue', 0)
    BY <1>2, <1>3, <1>5, <1>6, <1>7, FollowUpIsPop
  <1>9. TypeOK'
    BY <1>1, <1>2, <1>3, <1>8, ViewTypesAreKept, PopTypes
  <1>10. Neutral(queue[1]) /\ ~Rebuilds(queue[1]) /\ (\A p : ~MakesEdge(queue[1], p))
    BY <1>4 DEF Neutral, TakesNode, TakesEdge, Rebuilds, MakesEdge
  <1>11. Calm' => Calm
    BY <1>1 DEF Calm
  <1>12. StaleInv' /\ ShownInv'
    BY <1>1, <1>8, <1>10, <1>11, CanvasKept
  <1>13. \A n : MakesNode(queue[1], n) => NodeComes(queue', 0, n)
    BY <1>5, <1>8 DEF MakesNode, NodeComes
  <1>14. NextInv'
    BY <1>1, <1>8, <1>10, <1>13, GraphKept
  <1>15. Known(next', Born) /\ Known(display', Born)
    BY <1>1 DEF ViewIInv, IdsInv
  <1>16. FlowTrue(Served, snapshot, queue', Len(queue))
    BY <1>5, <1>8 DEF FlowTrue, FetchesFor
  <1> QED BY <1>1, <1>8, <1>9, <1>10, <1>11, <1>12, <1>14, <1>15, <1>16, PopKeeps

\* The node is added, but it may be gone again.
LEMMA NodeAddedKeeps ==
  ASSUME ViewIInv, NodeCreated, HandlerLeaves, Head1.then # "annotate"
  PROVE  ViewIInv'
  <1> DEFINE v == queue[1].arg
             h == NodeOnly(v)
  <1>1. /\ Answered /\ Head1.op \in {"createNode", "note"} /\ queue' = Rest
        /\ lost' = (lost \/ ref # next)
        /\ next' = IF Head1.arg \in ref.nodes THEN next ELSE Merge(ref, NodeOnly(Head1.arg))
        /\ display' = Merge(display, NodeOnly(Head1.arg)) /\ raced' = (raced \/ InFlow(Rest))
        /\ behind' = (behind \/ Gone(Head1.arg))
        /\ canvasBehind' = (canvasBehind \/ Gone(Head1.arg))
        /\ UNCHANGED <<ref, stale, listed>>
    BY DEF NodeCreated, SetFromRef, Display
  <1>2. UNCHANGED daemonVars /\ UNCHANGED <<ref, shown, given, steps, fails>> /\ error' \in BOOLEAN
    BY <1>1 DEF HandlerLeaves
  <1>3. /\ TypeOK /\ Done(queue[1]) /\ queue # <<>> /\ Head1 = queue[1]
        /\ Proper(queue[1]) /\ KnownRequest(queue[1], Born, given) /\ queue[1].reply # NoReply
        /\ display \in Graph /\ Known(display, Born) /\ ref \in Graph /\ Known(ref, Born)
        /\ next \in Graph /\ Known(next, Born)
    BY <1>1, AnsweredFacts, HeadFacts DEF ViewIInv, TypeOK, IdsInv
  <1>4. queue[1].op \in {"createNode", "note"} /\ v \in Vids /\ v \in Born /\ v \in Node
    BY <1>1, <1>3 DEF Proper, KnownRequest, Waits, Node
  <1>5. PopStep /\ queue' \in Seq(Request) /\ Len(queue') # Len(queue) /\ Popped(queue, queue')
    BY <1>1, <1>2, <1>3, RestIsPop
  <1>6. /\ next' = (IF v \in ref.nodes THEN next ELSE Merge(ref, h))
        /\ display' = Merge(display, h)
        /\ behind' = (behind \/ v \notin nodes)
        /\ canvasBehind' = (canvasBehind \/ v \notin nodes)
    BY <1>1, <1>3 DEF Gone
  <1>7. h \in Graph /\ h.nodes = {v} /\ h.edges = {}
    BY <1>4, BuildersBuild, <1>3 DEF NodeOnly
  <1>8. v = queue[1].arg
    OBVIOUS
  <1> HIDE DEF v, h
  <1>9. Known(h, Born)
    BY <1>4, <1>7 DEF Known
  <1>10. Merge(ref, h) \in Graph /\ Known(Merge(ref, h), Born)
         /\ Merge(display, h) \in Graph /\ Known(Merge(display, h), Born)
    BY <1>3, <1>7, <1>9, BuildersBuild, MergeKnown
  <1>11. next' \in Graph /\ Known(next', Born) /\ display' \in Graph /\ Known(display', Born)
    BY <1>3, <1>6, <1>10
  <1>12. /\ lost' \in BOOLEAN /\ raced' \in BOOLEAN
         /\ behind' \in BOOLEAN /\ canvasBehind' \in BOOLEAN
    BY <1>1, <1>3, ViewTypesAreKept DEF Gone
  <1>13. TypeOK'
    BY <1>1, <1>2, <1>3, <1>5, <1>11, <1>12, ViewTypesAreKept, PopTypes
  <1>14. Neutral(queue[1]) /\ ~Rebuilds(queue[1]) /\ (\A p : ~MakesEdge(queue[1], p))
         /\ (\A n : MakesNode(queue[1], n) => n = v)
    BY <1>4, <1>8 DEF Neutral, TakesNode, TakesEdge, Rebuilds, MakesNode, MakesEdge
  <1>15. PICK q2 : q2 = queue'
    OBVIOUS
  <1>16. Served' = Served /\ Served.nodes = nodes
    BY <1>2 DEF Served, daemonVars
  <1>17. NextInv'
    <2> SUFFICES ASSUME ~behind', ~lost', ~Rebuilt(q2, 0)
                 PROVE  Holds(Served, q2, 0, next') /\ Complete(Served, q2, 0, next')
      BY <1>15, <1>16 DEF NextInv
    <2>1. ~behind /\ ~lost /\ ref = next /\ v \in nodes
      BY <1>1, <1>6
    <2>2. /\ \A n \in ref.nodes : n \in nodes \/ NodeGoes(q2, 0, n)
          /\ \A p \in ref.edges : p \in Served.edges \/ EdgeGoes(q2, 0, p)
          /\ \A n \in nodes : n \in ref.nodes \/ n = v \/ NodeComes(q2, 0, n)
          /\ \A p \in Served.edges : p \in ref.edges \/ EdgeComes(q2, 0, p)
      BY <1>5, <1>14, <1>15, <2>1, RefFacts DEF Neutral
    <2>3. next'.nodes = ref.nodes \cup {v} /\ next'.edges = ref.edges
      BY <1>6, <1>7, <2>1 DEF Merge
    <2> QED BY <1>16, <2>1, <2>2, <2>3 DEF Holds, Complete
  <1>18. Calm' => Calm /\ ~InFlow(Rest) /\ v \in nodes
    BY <1>1, <1>6 DEF Calm
  <1>19. StaleInv' /\ ShownInv'
    <2>1. Calm' => Calm
      BY <1>18
    <2>2. /\ display'.nodes \subseteq display.nodes \cup h.nodes
          /\ display'.edges \subseteq display.edges \cup h.edges
      BY <1>6 DEF Merge
    <2>3. Calm' => /\ \A n \in h.nodes : n \in nodes \cup Files \cup Dirs \/ NodeGoes(q2, 0, n)
                   /\ \A p \in h.edges : p \in Served.edges \/ EdgeGoes(q2, 0, p)
      BY <1>7, <1>18
    <2> QED BY <1>1, <1>5, <1>14, <1>15, <2>1, <2>2, <2>3, AddedToCanvas
  <1>20. /\ Calm' => Calm
         /\ Calm' => ~InFlow(Rest) \/ (Calm /\ Neutral(queue[1]))
         /\ ~behind' => ~behind
         /\ listed' => listed
    BY <1>1, <1>18
  <1> QED BY <1>5, <1>11, <1>13, <1>17, <1>19, <1>20, PopKeeps

\* addNodeToGraphData, with or without remarks.
LEMMA NodeCreatedKeeps ==
  ASSUME ViewIInv, NodeCreated, HandlerLeaves
  PROVE  ViewIInv'
  BY NodeAnnotatedKeeps, NodeAddedKeeps

\* The edge is added to the graph, and to the canvas or not.
LEMMA EdgeAddedKeeps ==
  ASSUME ViewIInv, Answered, Head1.op = "createEdge", AddEdge(Head1.arg), HandlerLeaves,
         \/ Display(Merge(display, EdgeOnly(Head1.arg)), InFlow(Rest))
         \/ SameCanvas
  PROVE  ViewIInv'
  <1> DEFINE e == queue[1].arg
             h == EdgeOnly(e)
  <1>1. /\ queue' = Rest /\ lost' = (lost \/ ref # next)
        /\ next' = IF Head1.arg \in ref.edges THEN next ELSE Merge(ref, EdgeOnly(Head1.arg))
        /\ UNCHANGED <<ref, stale, listed, behind, canvasBehind>>
    BY DEF AddEdge, SetFromRef
  <1>2. UNCHANGED daemonVars /\ UNCHANGED <<ref, shown, given, steps, fails>> /\ error' \in BOOLEAN
    BY <1>1 DEF HandlerLeaves
  <1>3. /\ TypeOK /\ Done(queue[1]) /\ queue # <<>> /\ Head1 = queue[1]
        /\ Proper(queue[1]) /\ KnownRequest(queue[1], Born, given) /\ queue[1].reply # NoReply
        /\ display \in Graph /\ Known(display, Born) /\ ref \in Graph /\ Known(ref, Born)
        /\ next \in Graph /\ Known(next, Born) /\ AnswerTrue(Served, queue, 1)
        /\ (~behind => queue[1].current)
        /\ (Calm /\ ~InFlow(Rest) => queue[1].current)
    BY <1>1, AnsweredFacts, HeadFacts DEF ViewIInv, TypeOK, IdsInv
  <1>4. queue[1].op = "createEdge" /\ e \in Pairs /\ Ends(e) \cap Vids \subseteq Born
    BY <1>1, <1>3 DEF Proper, KnownRequest
  <1>5. PopStep /\ queue' \in Seq(Request) /\ Len(queue') # Len(queue) /\ Popped(queue, queue')
    BY <1>1, <1>2, <1>3, RestIsPop
  <1>6. /\ next' = (IF e \in ref.edges THEN next ELSE Merge(ref, h))
        /\ \/ display' = Merge(display, h) /\ raced' = (raced \/ InFlow(Rest))
           \/ display' = display /\ raced' = raced
    BY <1>1, <1>3 DEF Display, SameCanvas
  <1>7. h \in Graph /\ h.nodes = {} /\ h.edges = {e}
    BY <1>4, BuildersBuild, <1>3 DEF EdgeOnly
  <1>8. e = queue[1].arg
    OBVIOUS
  <1> HIDE DEF e, h
  <1>9. Known(h, Born)
    BY <1>4, <1>7 DEF Known
  <1>10. Merge(ref, h) \in Graph /\ Known(Merge(ref, h), Born)
         /\ Merge(display, h) \in Graph /\ Known(Merge(display, h), Born)
    BY <1>3, <1>7, <1>9, BuildersBuild, MergeKnown
  <1>11. next' \in Graph /\ Known(next', Born) /\ display' \in Graph /\ Known(display', Born)
    BY <1>3, <1>6, <1>10
  <1>12. /\ lost' \in BOOLEAN /\ raced' \in BOOLEAN
    BY <1>1, <1>3, <1>6, ViewTypesAreKept
  <1>13. TypeOK'
    BY <1>1, <1>2, <1>3, <1>5, <1>11, <1>12, ViewTypesAreKept, PopTypes
  <1>14. Neutral(queue[1]) /\ ~Rebuilds(queue[1]) /\ (\A n : ~MakesNode(queue[1], n))
         /\ (\A p : MakesEdge(queue[1], p) => p = e)
    BY <1>4, <1>8 DEF Neutral, TakesNode, TakesEdge, Rebuilds, MakesNode, MakesEdge
  <1>15. PICK q2 : q2 = queue'
    OBVIOUS
  <1>16. Served' = Served /\ Served.nodes = nodes
    BY <1>2 DEF Served, daemonVars
  \* The daemon has it, or a later request takes it.
  <1>17. queue[1].current => e \in Served.edges \/ EdgeGoes(q2, 0, e)
    <2>1. queue[1].current => e \in Served.edges \/ EdgeGoes(queue, 1, e)
      BY <1>3, <1>4, <1>8 DEF AnswerTrue
    <2>2. EdgeGoes(queue, 1, e) => EdgeGoes(q2, 0, e)
      BY <1>3, <1>5, <1>15, PopCarries DEF TypeOK
    <2> QED BY <2>1, <2>2
  <1>18. NextInv'
    <2> SUFFICES ASSUME ~behind', ~lost', ~Rebuilt(q2, 0)
                 PROVE  Holds(Served, q2, 0, next') /\ Complete(Served, q2, 0, next')
      BY <1>15, <1>16 DEF NextInv
    <2>1. ~behind /\ ~lost /\ ref = next
      BY <1>1
    <2>2. /\ \A n \in ref.nodes : n \in nodes \/ NodeGoes(q2, 0, n)
          /\ \A p \in ref.edges : p \in Served.edges \/ EdgeGoes(q2, 0, p)
          /\ \A n \in nodes : n \in ref.nodes \/ NodeComes(q2, 0, n)
          /\ \A p \in Served.edges : p \in ref.edges \/ p = e \/ EdgeComes(q2, 0, p)
      BY <1>5, <1>14, <1>15, <2>1, RefFacts DEF Neutral
    <2>3. next'.nodes = ref.nodes /\ next'.edges = ref.edges \cup {e}
      BY <1>6, <1>7, <2>1 DEF Merge
    <2> QED BY <1>3, <1>16, <1>17, <2>1, <2>2, <2>3 DEF Holds, Complete
  <1>19. Calm' => Calm
    BY <1>1, <1>6 DEF Calm
  <1>20. StaleInv' /\ ShownInv'
    <2>1. CASE display' = Merge(display, h) /\ raced' = (raced \/ InFlow(Rest))
      <3>1. /\ display'.nodes \subseteq display.nodes \cup h.nodes
            /\ display'.edges \subseteq display.edges \cup h.edges
        BY <2>1 DEF Merge
      <3>2. Calm' => queue[1].current
        BY <1>3, <1>19, <2>1 DEF Calm
      <3>3. Calm' => /\ \A n \in h.nodes :
                           n \in nodes \cup Files \cup Dirs \/ NodeGoes(q2, 0, n)
                     /\ \A p \in h.edges : p \in Served.edges \/ EdgeGoes(q2, 0, p)
        BY <1>7, <1>17, <3>2
      <3> QED BY <1>1, <1>5, <1>14, <1>15, <1>19, <3>1, <3>3, AddedToCanvas
    <2>2. CASE display' = display /\ raced' = raced
      BY <1>1, <1>5, <1>14, <1>19, <2>2, CanvasKept
    <2> QED BY <1>6, <2>1, <2>2
  <1>21. /\ Calm' => ~InFlow(Rest) \/ (Calm /\ Neutral(queue[1]))
         /\ ~behind' => ~behind
         /\ listed' => listed
    BY <1>1, <1>14, <1>19
  <1> QED BY <1>5, <1>11, <1>13, <1>18, <1>19, <1>20, <1>21, PopKeeps

\* addEdgeToGraphData after the edge was drawn.
LEMMA EdgeDrawnKeeps ==
  ASSUME ViewIInv, EdgeDrawn, HandlerLeaves
  PROVE  ViewIInv'
  BY EdgeAddedKeeps DEF EdgeDrawn

\* And after it was entered in the form.
LEMMA EdgeCreatedKeeps ==
  ASSUME ViewIInv, EdgeCreated, HandlerLeaves
  PROVE  ViewIInv'
  BY EdgeAddedKeeps DEF EdgeCreated

-----------------------------------------------------------------------------
(* What the user deleted goes from the graph and from the canvas.          *)

\* A canvas that lost all the first request took is in sync.
LEMMA CanvasWithout ==
  ASSUME ViewIInv, PopStep, stale' = stale \cap (display'.nodes \cup display'.edges),
         Calm' => Calm,
         display'.nodes \subseteq display.nodes, display'.edges \subseteq display.edges,
         \A n \in display'.nodes : ~TakesNode(queue[1], n),
         \A p \in display'.edges : ~TakesEdge(queue[1], p)
  PROVE  StaleInv' /\ ShownInv'
  <1>1. PICK q2 : q2 = queue'
    OBVIOUS
  <1>2. Served' = Served /\ nodes' = nodes
    BY DEF PopStep, Served
  <1>3. queue \in Seq(Request) /\ Popped(queue, q2)
    BY <1>1 DEF ViewIInv, TypeOK, PopStep
  <1>4. StaleInv'
    BY <1>2 DEF ViewIInv, StaleInv
  <1>5. /\ \A n : NodeGoes(queue, 0, n) => TakesNode(queue[1], n) \/ NodeGoes(q2, 0, n)
        /\ \A p : EdgeGoes(queue, 0, p) => TakesEdge(queue[1], p) \/ EdgeGoes(q2, 0, p)
    BY <1>3, PopCarries
  <1>6. ShownInv'
    <2> SUFFICES ASSUME Calm'
                 PROVE  Visible(Served, q2, display', stale')
      BY <1>1, <1>2 DEF ShownInv
    <2>1. Visible(Served, queue, display, stale)
      BY DEF ViewIInv, ShownInv
    <2> QED BY <1>5, <2>1 DEF Visible
  <1> QED BY <1>4, <1>6

\* A deleted node goes with its edges.
LEMMA NodeDeletedKeeps ==
  ASSUME ViewIInv, NodeDeleted, HandlerLeaves
  PROVE  ViewIInv'
  <1> DEFINE v == queue[1].arg
  <1>1. /\ Answered /\ Head1.op = "deleteNode" /\ queue' = Rest
        /\ next' = WithoutNode(ref, Head1.arg) /\ lost' = (lost \/ ref # next)
        /\ display' = WithoutNode(display, Head1.arg) /\ raced' = (raced \/ InFlow(Rest))
        /\ stale' = stale \cap (display'.nodes \cup display'.edges)
        /\ UNCHANGED <<ref, listed, behind, canvasBehind>>
    BY DEF NodeDeleted, SetFromRef, Display, DisplayWithout, StaleOn
  <1>2. UNCHANGED daemonVars /\ UNCHANGED <<ref, shown, given, steps, fails>> /\ error' \in BOOLEAN
    BY <1>1 DEF HandlerLeaves
  <1>3. /\ TypeOK /\ Done(queue[1]) /\ queue # <<>> /\ Head1 = queue[1] /\ 1 \in DOMAIN queue
        /\ queue[1].op = "deleteNode"
        /\ display \in Graph /\ Known(display, Born) /\ ref \in Graph /\ Known(ref, Born)
    BY <1>1, AnsweredFacts, HeadFacts DEF ViewIInv, TypeOK, IdsInv
  <1>4. PopStep /\ queue' \in Seq(Request) /\ Len(queue') # Len(queue) /\ Popped(queue, queue')
    BY <1>1, <1>2, <1>3, RestIsPop
  <1>5. next' = WithoutNode(ref, v) /\ display' = WithoutNode(display, v)
    BY <1>1, <1>3
  <1>6. v = queue[1].arg
    OBVIOUS
  <1> HIDE DEF v
  <1>7. next' \in Graph /\ display' \in Graph
    BY <1>3, <1>5, BuildersBuild
  <1>8. /\ next'.nodes = ref.nodes \ {v} /\ next'.edges = {p \in ref.edges : v \notin Ends(p)}
        /\ display'.nodes = display.nodes \ {v}
        /\ display'.edges = {p \in display.edges : v \notin Ends(p)}
    BY <1>5 DEF WithoutNode
  <1>9. Known(next', Born) /\ Known(display', Born)
    BY <1>3, <1>8 DEF Known
  <1>10. lost' \in BOOLEAN /\ raced' \in BOOLEAN
    BY <1>1, <1>3, ViewTypesAreKept
  <1>11. TypeOK'
    <2>1. stale' \subseteq Node \cup Pairs
      BY <1>1, <1>3, ViewTypesAreKept
    <2> QED BY <1>1, <1>2, <1>3, <1>4, <1>7, <1>10, <2>1, ViewTypesAreKept, PopTypes
  <1>12. /\ ~Rebuilds(queue[1])
         /\ \A n : TakesNode(queue[1], n) => n = v
         /\ \A p : TakesEdge(queue[1], p) => v \in Ends(p)
         /\ (\A n : ~MakesNode(queue[1], n)) /\ (\A p : ~MakesEdge(queue[1], p))
    BY <1>3, <1>6 DEF TakesNode, TakesEdge, Rebuilds, MakesNode, MakesEdge
  <1>13. PICK q2 : q2 = queue'
    OBVIOUS
  <1>14. Served' = Served /\ Served.nodes = nodes /\ \A p \in Served.edges : Ends(p) \subseteq nodes
    BY <1>2 DEF Served, daemonVars
  \* Nothing but a load brings it back.
  <1>15. v \notin nodes \/ Rebuilt(q2, 0)
    <2>1. v \notin nodes \/ LoadedAfter(queue, 1)
      BY <1>3, <1>6 DEF ViewIInv, TakenInv
    <2>2. LoadedAfter(queue, 1) => Rebuilt(q2, 0)
      BY <1>3, <1>4, <1>13, PopCarries DEF TypeOK
    <2> QED BY <2>1, <2>2
  <1>16. NextInv'
    <2> SUFFICES ASSUME ~behind', ~lost', ~Rebuilt(q2, 0)
                 PROVE  Holds(Served, q2, 0, next') /\ Complete(Served, q2, 0, next')
      BY <1>13, <1>14 DEF NextInv
    <2>1. ~behind /\ ~lost /\ ref = next
      BY <1>1
    <2>2. /\ \A n \in ref.nodes : n \in nodes \/ n = v \/ NodeGoes(q2, 0, n)
          /\ \A p \in ref.edges : p \in Served.edges \/ v \in Ends(p) \/ EdgeGoes(q2, 0, p)
          /\ \A n \in nodes : n \in ref.nodes \/ NodeComes(q2, 0, n)
          /\ \A p \in Served.edges : p \in ref.edges \/ EdgeComes(q2, 0, p)
      BY <1>4, <1>12, <1>13, <2>1, RefFacts
    <2> QED BY <1>8, <1>14, <1>15, <2>2 DEF Holds, Complete
  <1>17. Calm' => Calm /\ ~InFlow(Rest)
    BY <1>1 DEF Calm
  <1>18. StaleInv' /\ ShownInv'
    <2>1. Calm' => Calm
      BY <1>17
    <2>2. /\ display'.nodes \subseteq display.nodes /\ display'.edges \subseteq display.edges
          /\ \A n \in display'.nodes : ~TakesNode(queue[1], n)
          /\ \A p \in display'.edges : ~TakesEdge(queue[1], p)
      BY <1>8, <1>12
    <2> QED BY <1>1, <1>4, <2>1, <2>2, CanvasWithout
  <1>19. /\ Calm' => Calm
         /\ Calm' => ~InFlow(Rest) \/ (Calm /\ Neutral(queue[1]))
         /\ ~behind' => ~behind
         /\ listed' => listed
    BY <1>1, <1>17
  <1> QED BY <1>4, <1>9, <1>11, <1>16, <1>18, <1>19, PopKeeps

\* A deleted edge goes.
LEMMA EdgeDeletedKeeps ==
  ASSUME ViewIInv, EdgeDeleted, HandlerLeaves
  PROVE  ViewIInv'
  <1> DEFINE e == queue[1].arg
  <1>1. /\ Answered /\ Head1.op = "deleteEdge" /\ queue' = Rest
        /\ next' = WithoutEdge(ref, Head1.arg) /\ lost' = (lost \/ ref # next)
        /\ display' = WithoutEdge(display, Head1.arg) /\ raced' = (raced \/ InFlow(Rest))
        /\ behind' = (behind \/ Head1.arg \in calls)
        /\ stale' = stale \cap (display'.nodes \cup display'.edges)
        /\ UNCHANGED <<ref, listed, canvasBehind>>
    BY DEF EdgeDeleted, SetFromRef, Display, StaleOn
  <1>2. UNCHANGED daemonVars /\ UNCHANGED <<ref, shown, given, steps, fails>> /\ error' \in BOOLEAN
    BY <1>1 DEF HandlerLeaves
  <1>3. /\ TypeOK /\ Done(queue[1]) /\ queue # <<>> /\ Head1 = queue[1] /\ 1 \in DOMAIN queue
        /\ queue[1].op = "deleteEdge"
        /\ display \in Graph /\ Known(display, Born) /\ ref \in Graph /\ Known(ref, Born)
    BY <1>1, AnsweredFacts, HeadFacts DEF ViewIInv, TypeOK, IdsInv
  <1>4. PopStep /\ queue' \in Seq(Request) /\ Len(queue') # Len(queue) /\ Popped(queue, queue')
    BY <1>1, <1>2, <1>3, RestIsPop
  <1>5. next' = WithoutEdge(ref, e) /\ display' = WithoutEdge(display, e)
        /\ behind' = (behind \/ e \in calls)
    BY <1>1, <1>3
  <1>6. e = queue[1].arg
    OBVIOUS
  <1> HIDE DEF e
  <1>7. next' \in Graph /\ display' \in Graph
    BY <1>3, <1>5, BuildersBuild
  <1>8. /\ next'.nodes = ref.nodes /\ next'.edges = ref.edges \ {e}
        /\ display'.nodes = display.nodes /\ display'.edges = display.edges \ {e}
    BY <1>3, <1>5 DEF WithoutEdge, Graph
  <1>9. Known(next', Born) /\ Known(display', Born)
    BY <1>3, <1>8 DEF Known
  <1>10. lost' \in BOOLEAN /\ raced' \in BOOLEAN /\ behind' \in BOOLEAN
    BY <1>1, <1>3, ViewTypesAreKept
  <1>11. TypeOK'
    <2>1. stale' \subseteq Node \cup Pairs
      BY <1>1, <1>3, ViewTypesAreKept
    <2> QED BY <1>1, <1>2, <1>3, <1>4, <1>7, <1>10, <2>1, ViewTypesAreKept, PopTypes
  <1>12. /\ ~Rebuilds(queue[1]) /\ (\A n : ~TakesNode(queue[1], n))
         /\ \A p : TakesEdge(queue[1], p) => p = e
         /\ (\A n : ~MakesNode(queue[1], n)) /\ (\A p : ~MakesEdge(queue[1], p))
    BY <1>3, <1>6 DEF TakesNode, TakesEdge, Rebuilds, MakesNode, MakesEdge
  <1>13. PICK q2 : q2 = queue'
    OBVIOUS
  <1>14. Served' = Served /\ Served.nodes = nodes /\ Served.edges \subseteq calls \cup manual
    BY <1>2 DEF Served, daemonVars
  \* It is drawn or loaded again, or it is gone or an edge of the index.
  <1>15. e \notin manual \/ Rebuilt(q2, 0) \/ EdgeComes(q2, 0, e)
    <2>1. e \notin manual \/ LoadedAfter(queue, 1) \/ EdgeComes(queue, 1, e)
      BY <1>3, <1>6 DEF ViewIInv, TakenInv
    <2>2. /\ LoadedAfter(queue, 1) => Rebuilt(q2, 0)
          /\ EdgeComes(queue, 1, e) => EdgeComes(q2, 0, e)
      BY <1>3, <1>4, <1>13, PopCarries DEF TypeOK
    <2> QED BY <2>1, <2>2
  <1>16. NextInv'
    <2> SUFFICES ASSUME ~behind', ~lost', ~Rebuilt(q2, 0)
                 PROVE  Holds(Served, q2, 0, next') /\ Complete(Served, q2, 0, next')
      BY <1>13, <1>14 DEF NextInv
    <2>1. ~behind /\ ~lost /\ ref = next /\ e \notin calls
      BY <1>1, <1>5
    <2>2. /\ \A n \in ref.nodes : n \in nodes \/ NodeGoes(q2, 0, n)
          /\ \A p \in ref.edges : p \in Served.edges \/ p = e \/ EdgeGoes(q2, 0, p)
          /\ \A n \in nodes : n \in ref.nodes \/ NodeComes(q2, 0, n)
          /\ \A p \in Served.edges : p \in ref.edges \/ EdgeComes(q2, 0, p)
      BY <1>4, <1>12, <1>13, <2>1, RefFacts
    <2> QED BY <1>8, <1>14, <1>15, <2>1, <2>2 DEF Holds, Complete
  <1>17. Calm' => Calm /\ ~InFlow(Rest)
    BY <1>1 DEF Calm
  <1>18. StaleInv' /\ ShownInv'
    <2>1. Calm' => Calm
      BY <1>17
    <2>2. /\ display'.nodes \subseteq display.nodes /\ display'.edges \subseteq display.edges
          /\ \A n \in display'.nodes : ~TakesNode(queue[1], n)
          /\ \A p \in display'.edges : ~TakesEdge(queue[1], p)
      BY <1>8, <1>12
    <2> QED BY <1>1, <1>4, <2>1, <2>2, CanvasWithout
  <1>19. /\ Calm' => Calm
         /\ Calm' => ~InFlow(Rest) \/ (Calm /\ Neutral(queue[1]))
         /\ ~behind' => ~behind
         /\ listed' => listed
    BY <1>1, <1>5, <1>17
  <1> QED BY <1>4, <1>9, <1>11, <1>16, <1>18, <1>19, PopKeeps

-----------------------------------------------------------------------------
(* A request fails: the canvas is behind, and the graph too unless nothing *)
(* could have changed.                                                     *)

\* What is left of the invariant when the canvas is behind.
LEMMA FailKeeps ==
  ASSUME ViewIInv, PopStep, TypeOK', canvasBehind' = TRUE, listed' = listed,
         next' = next, lost' = lost, Known(display', Born),
         behind' = (behind \/ queue[1].op # "expand")
  PROVE  ViewIInv'
  <1>1. ~Calm'
    BY DEF Calm
  <1>2. StaleInv' /\ ShownInv'
    BY <1>1 DEF StaleInv, ShownInv
  <1>3. ~behind' => ~behind /\ queue[1].op = "expand"
    OBVIOUS
  <1>4. NextInv'
    <2>1. CASE queue[1].op = "expand"
      <3>1. Neutral(queue[1]) /\ ~Rebuilds(queue[1])
            /\ (\A n : ~MakesNode(queue[1], n)) /\ (\A p : ~MakesEdge(queue[1], p))
        BY <2>1 DEF Neutral, TakesNode, TakesEdge, Rebuilds, MakesNode, MakesEdge
      <3> QED BY <1>3, <3>1, GraphKept
    <2>2. CASE queue[1].op # "expand"
      BY <1>3, <2>2 DEF NextInv
    <2> QED BY <2>1, <2>2
  <1>5. Known(next', Born)
    BY DEF ViewIInv, IdsInv
  <1> QED BY <1>1, <1>2, <1>3, <1>4, <1>5, PopKeeps

\* What all failures have in common.
FailureLeaves ==
    /\ queue # <<>> /\ canvasBehind' = TRUE /\ fails' \in 0 .. MaxFails
    /\ behind' = (behind \/ queue[1].op # "expand")
    /\ stale' \subseteq stale
    /\ UNCHANGED <<daemonVars, graphVars, shown, listed, given, steps>>

\* Every failure leaves the graphs alone and says that they are behind.
LEMMA FailuresLeave ==
  ASSUME ViewIInv, RequestFails
  PROVE  FailureLeaves /\ Head1 = queue[1]
  <1>1. queue # <<>>
    BY DEF RequestFails
  <1>2. Head1 = queue[1]
    BY <1>1, HeadFacts
  <1>3. fails' \in 0 .. MaxFails
    BY BoundsAssumption DEF RequestFails, ViewIInv, TypeOK
  <1>4. stale' \subseteq stale
    BY DEF RequestFails, FailedGraph, FailedExpand, FailedOther
  <1> QED BY <1>1, <1>2, <1>3, <1>4 DEF RequestFails, FailureLeaves

\* The types a failure has to keep.
LEMMA FailureTypes ==
  ASSUME ViewIInv, FailureLeaves, queue' \in Seq(Request), display' \in Graph,
         error' \in BOOLEAN, raced' \in BOOLEAN
  PROVE  TypeOK'
  <1>1. TypeOK
    BY DEF ViewIInv
  <1>2. behind' \in BOOLEAN /\ canvasBehind' \in BOOLEAN
    BY <1>1, ViewTypesAreKept DEF FailureLeaves
  <1>3. UNCHANGED daemonVars /\ UNCHANGED <<ref, shown, given, steps>>
    BY DEF FailureLeaves, graphVars
  <1>4. /\ next' \in Graph /\ stale' \subseteq Node \cup Pairs /\ listed' \in BOOLEAN
        /\ lost' \in BOOLEAN /\ fails' \in 0 .. MaxFails
    BY <1>1, ViewTypesAreKept DEF FailureLeaves, graphVars
  <1> QED BY <1>1, <1>2, <1>3, <1>4, PopTypes

\* loadGraph failed: a refresh goes on with an empty graph, and so does the
\* loading of a snapshot.
LEMMA FailedGraphKeeps ==
  ASSUME ViewIInv, FailureLeaves, Head1 = queue[1], FailedGraph
  PROVE  ViewIInv'
  <1>1. TypeOK /\ queue # <<>> /\ 1 \in DOMAIN queue /\ display \in Graph /\ Known(display, Born)
    BY HeadFacts DEF FailureLeaves, ViewIInv, TypeOK, IdsInv
  <1>2. Empty \in Graph
    BY DEF Empty, Graph
  <1>3. UNCHANGED daemonVars /\ UNCHANGED <<ref, shown, given>>
    BY DEF FailureLeaves, graphVars
  <1>4. PopStep /\ queue' \in Seq(Request)
    <2>1. CASE Head1.then = "snapshot"
      <3> DEFINE r == Ask("detail", "none", NoArg, Empty)
      <3>1. queue' = Append(Rest, r)
        BY <2>1 DEF FailedGraph
      <3>2. r \in Request /\ Unanswered(r) /\ r.op = "detail" /\ r.then = "none"
        BY <1>2, AskIsRequest
      <3> HIDE DEF r
      <3>3. snapshot # NoGraph
        BY <1>1, <2>1 DEF ViewIInv, QueueInv, NotYet
      <3>4. FollowUp(r)
        <4>1. Proper(r)
          BY <3>2, NoReplyIsNoAnswer DEF Proper, Unanswered
        <4> QED BY <3>2, <3>3, <4>1 DEF FollowUp
      <3> QED BY <1>1, <1>3, <3>1, <3>2, <3>4, FollowUpIsPop
    <2>2. CASE Head1.then # "snapshot"
      <3>1. queue' = Rest
        BY <2>2 DEF FailedGraph
      <3> QED BY <1>1, <1>3, <3>1, RestIsPop
    <2> QED BY <2>1, <2>2
  <1>5. /\ \/ display' = Refreshed(display, Empty) \/ display' = display
           \/ queue[1].arg \in Dirs /\ display' = Merge(display, NodeOnly(queue[1].arg))
        /\ \/ raced' = (raced \/ FALSE) \/ raced' = raced
           \/ raced' = (raced \/ InFlow(Rest))
        /\ error' = TRUE
    <2>1. Addable(Empty) = Dirs
      BY PlacesAreListed DEF Addable, Empty, Places
    <2> QED BY <2>1 DEF FailedGraph, Display, SameCanvas
  <1>6. Refreshed(display, Empty) \in Graph /\ Known(Refreshed(display, Empty), Born)
    <2>1. /\ Refreshed(display, Empty).nodes \subseteq display.nodes
          /\ Refreshed(display, Empty).edges = {}
      BY DEF Refreshed, Synthetic, Empty
    <2> QED BY <1>1, <1>2, <2>1, BuildersBuild DEF Known
  <1>7. display' \in Graph /\ Known(display', Born)
    <2>1. ASSUME NEW n \in Dirs
          PROVE  Merge(display, NodeOnly(n)) \in Graph /\ Known(Merge(display, NodeOnly(n)), Born)
      <3>1. NodeOnly(n) \in Graph
        BY <1>1, BuildersBuild DEF Node
      <3>2. Known(NodeOnly(n), Born)
        BY IdsAssumption DEF Known, NodeOnly
      <3> QED BY <1>1, <3>1, <3>2, BuildersBuild, MergeKnown
    <2> QED BY <1>1, <1>5, <1>6, <2>1
  <1>8. raced' \in BOOLEAN /\ error' \in BOOLEAN
    BY <1>1, <1>5, ViewTypesAreKept
  <1>9. TypeOK'
    BY <1>4, <1>7, <1>8, FailureTypes
  <1> QED BY <1>4, <1>7, <1>9, FailKeeps DEF FailureLeaves, graphVars

\* expandNode failed: the graph at hand is looked into.
LEMMA FailedExpandKeeps ==
  ASSUME ViewIInv, FailureLeaves, Head1 = queue[1], FailedExpand
  PROVE  ViewIInv'
  <1>1. /\ TypeOK /\ queue # <<>> /\ display \in Graph /\ Known(display, Born)
        /\ ref \in Graph /\ Known(ref, Born)
    BY DEF FailureLeaves, ViewIInv, TypeOK, IdsInv
  <1>2. /\ queue' = Rest /\ display' = Expanded(display, queue[1].arg, ref)
        /\ raced' = (raced \/ InFlow(Rest)) /\ error' = error
    BY DEF FailedExpand, Display
  <1>3. UNCHANGED daemonVars /\ UNCHANGED <<ref, shown, given>>
    BY DEF FailureLeaves, graphVars
  <1>4. PopStep /\ queue' \in Seq(Request)
    BY <1>1, <1>2, <1>3, RestIsPop
  <1>5. /\ display' \in Graph /\ display'.nodes \subseteq display.nodes \cup ref.nodes
        /\ display'.edges \subseteq display.edges \cup ref.edges
    BY <1>1, <1>2, ExpandedFromBoth
  <1>6. Known(display', Born)
    BY <1>1, <1>5 DEF Known
  <1>7. raced' \in BOOLEAN /\ error' \in BOOLEAN
    BY <1>1, <1>2, ViewTypesAreKept
  <1>8. TypeOK'
    BY <1>4, <1>5, <1>7, FailureTypes
  <1> QED BY <1>4, <1>6, <1>8, FailKeeps DEF FailureLeaves, graphVars

\* Nothing is done but to report it.
LEMMA FailedOtherKeeps ==
  ASSUME ViewIInv, FailureLeaves, FailedOther
  PROVE  ViewIInv'
  <1>1. TypeOK /\ queue # <<>> /\ display \in Graph /\ Known(display, Born)
    BY DEF FailureLeaves, ViewIInv, TypeOK, IdsInv
  <1>2. queue' = Rest /\ display' = display /\ raced' = raced /\ error' = error
    BY DEF FailedOther, SameCanvas
  <1>3. UNCHANGED daemonVars /\ UNCHANGED <<ref, shown, given>>
    BY DEF FailureLeaves, graphVars
  <1>4. PopStep /\ queue' \in Seq(Request)
    BY <1>1, <1>2, <1>3, RestIsPop
  <1>5. display' \in Graph /\ Known(display', Born) /\ raced' \in BOOLEAN /\ error' \in BOOLEAN
    BY <1>1, <1>2, ViewTypesAreKept
  <1>6. TypeOK'
    BY <1>4, <1>5, FailureTypes
  <1> QED BY <1>4, <1>5, <1>6, FailKeeps DEF FailureLeaves, graphVars

\* Every failure keeps the invariant.
LEMMA RequestFailsKeeps ==
  ASSUME ViewIInv, RequestFails
  PROVE  ViewIInv'
  <1>1. FailureLeaves /\ Head1 = queue[1]
    BY FailuresLeave
  <1>2. FailedGraph \/ FailedExpand \/ FailedOther
    BY DEF RequestFails
  <1> QED BY <1>1, <1>2, FailedGraphKeeps, FailedExpandKeeps, FailedOtherKeeps

-----------------------------------------------------------------------------
(* The invariant holds.                                                    *)

\* The invariant holds at first.
LEMMA InitViewIInv ==
  ASSUME Init
  PROVE  ViewIInv
  <1> USE DEF Init
  <1>e. PICK e \in Earlier :
          /\ nodes = Symbols \cup e.virtual /\ manual = e.manual
          /\ snapshot = e.snapshot /\ listed = (e.snapshot # NoGraph)
          /\ given = GivenIn(e)
    OBVIOUS
  <1>f. /\ e.virtual \subseteq Vids /\ manual \subseteq Pairs
        /\ snapshot \in Graph \cup {NoGraph} /\ given \subseteq Vids
    BY <1>e, EarlierAssumption DEF GivenIn
  <1>1. Empty \in Graph /\ <<>> \in Seq(Request) /\ DOMAIN queue = {}
    BY DEF Empty, Graph
  <1>2. TypeOK
    <2>1. {error, listed, behind, canvasBehind, lost, raced} \subseteq BOOLEAN
      BY <1>e
    <2>2. steps \in 0 .. MaxSteps /\ fails \in 0 .. MaxFails
      BY BoundsAssumption
    <2>3. {ref, next, shown, display} \subseteq Graph /\ queue \in Seq(Request)
      BY <1>1
    <2>4. /\ nodes \subseteq Symbols \cup Vids /\ calls \subseteq Pairs /\ manual \subseteq Pairs
          /\ snapshot \in Graph \cup {NoGraph, Dropped} /\ stale \subseteq Node \cup Pairs
          /\ given \subseteq Vids
      BY <1>e, <1>f
    <2> QED BY <2>1, <2>2, <2>3, <2>4 DEF TypeOK
  <1>3. QueueInv
    BY <1>e, <1>1 DEF QueueInv, ProperInv, FifoInv, NotYet, CurrentInv
  <1>4. IdsInv
    <2>0. Born = given
      BY <1>1 DEF Born, Waiting
    <2>1. \A g \in {snapshot, ref, next, shown, display} : Known(g, Born)
      <3>1. Known(Empty, Born)
        BY DEF Known, Empty
      <3>2. {ref, next, shown, display} = {Empty}
        OBVIOUS
      <3>3. Known(snapshot, Born)
        BY <1>e, <2>0 DEF Known, GivenIn
      <3> HIDE DEF Init
      <3> QED BY <3>1, <3>2, <3>3
    <2>2. nodes \cap Vids \subseteq Born /\ (\A p \in manual : Ends(p) \cap Vids \subseteq Born)
          /\ \A p \in calls : Ends(p) \subseteq Symbols
      BY <1>e, <1>f, <2>0, IdsAssumption DEF GivenIn
    <2> QED BY <1>1, <2>1, <2>2 DEF IdsInv, Waiting
  <1>5. TakenInv /\ AnswersInv /\ NextInv
    BY <1>1 DEF TakenInv, AnswersInv, NextInv
  <1>6. StaleInv /\ ShownInv /\ OldInv /\ FlowInv
    BY <1>1 DEF StaleInv, ShownInv, OldInv, FlowInv, Visible, Empty
  <1> QED BY <1>2, <1>3, <1>4, <1>5, <1>6 DEF ViewIInv

\* It holds when nothing happens.
LEMMA StutterKeeps ==
  ASSUME ViewIInv, UNCHANGED vars
  PROVE  ViewIInv'
  <1> USE DEF vars, daemonVars, graphVars, canvasVars
  <1>1. Served' = Served /\ Born' = Born /\ Waiting' = Waiting /\ Calm' = Calm
    BY DEF Served, Born, Waiting, Calm
  <1>2. TypeOK'
    BY DEF ViewIInv, TypeOK
  <1>3. QueueInv'
    BY DEF ViewIInv, QueueInv, ProperInv, FifoInv, NotYet, CurrentInv
  <1>4. IdsInv'
    BY <1>1 DEF ViewIInv, IdsInv
  <1>5. TakenInv' /\ AnswersInv' /\ NextInv'
    BY <1>1 DEF ViewIInv, TakenInv, AnswersInv, NextInv
  <1>6. StaleInv' /\ ShownInv' /\ OldInv' /\ FlowInv'
    BY <1>1 DEF ViewIInv, StaleInv, ShownInv, OldInv, FlowInv
  <1> QED BY <1>2, <1>3, <1>4, <1>5, <1>6 DEF ViewIInv

\* Every handler keeps it.
LEMMA HandleKeeps ==
  ASSUME ViewIInv, Handle
  PROVE  ViewIInv'
  <1>1. HandlerLeaves
    <2>1. error' = (error /\ ~LoadsGraph(Head1))
      BY DEF Handle
    <2>2. error' \in BOOLEAN
      BY <2>1
    <2> QED BY <2>2 DEF Handle, HandlerLeaves
  <1>2. \/ GotGraph \/ WasCleared \/ SnapshotLoaded \/ GotSnapshot \/ GotNeighborhood
        \/ NodeCreated \/ EdgeDrawn \/ EdgeCreated \/ NodeDeleted \/ EdgeDeleted
        \/ SnapshotDeleted
    BY DEF Handle
  <1> QED BY <1>1, <1>2, GotGraphKeeps, WasClearedKeeps, SnapshotLoadedKeeps, GotSnapshotKeeps,
             GotNeighborhoodKeeps, NodeCreatedKeeps, EdgeDrawnKeeps, EdgeCreatedKeeps,
             NodeDeletedKeeps, EdgeDeletedKeeps, SnapshotDeletedKeeps

\* Every step keeps it.
LEMMA ViewNextStep ==
  ASSUME ViewIInv, [Next]_vars
  PROVE  ViewIInv'
  <1>1. CASE Sends
    BY <1>1, SendKeeps
  <1>2. CASE Capture
    BY <1>2, CaptureKeeps
  <1>3. ASSUME NEW n \in Node, AddToCanvas(n)
        PROVE  ViewIInv'
    <2>1. CASE ref.nodes = {}
      BY <1>3, <2>1, SendKeeps DEF Sends
    <2>2. CASE ref.nodes # {}
      BY <1>3, <2>2, AddToCanvasKeeps
    <2> QED BY <2>1, <2>2
  <1>4. ASSUME NEW n \in Node, RemoveFromCanvas(n)
        PROVE  ViewIInv'
    BY <1>4, RemoveFromCanvasKeeps
  <1>5. ASSUME NEW n \in Node, NEW parent \in Symbols \cup Files \cup Dirs, AddParent(n, parent)
        PROVE  ViewIInv'
    BY <1>5, AddParentKeeps
  <1>6. ASSUME NEW syms \in SUBSET Symbols,
               NEW cs \in SUBSET {p \in Pairs : Ends(p) \subseteq syms},
               NEW rebuild \in BOOLEAN, Reindex(syms, cs, rebuild)
        PROVE  ViewIInv'
    BY <1>6, ReindexKeeps
  <1>7. CASE Serve \/ Handle \/ RequestFails \/ Render
    BY <1>7, ServeKeeps, HandleKeeps, RequestFailsKeeps, RenderKeeps
  <1>8. CASE UNCHANGED vars
    BY <1>8, StutterKeeps
  <1>9. CASE Next
    <2>1. \/ Sends \/ Capture
          \/ \E n \in Node : AddToCanvas(n) \/ RemoveFromCanvas(n)
          \/ \E n \in Node, parent \in Symbols \cup Files \cup Dirs : AddParent(n, parent)
          \/ \E syms \in SUBSET Symbols :
                \E cs \in SUBSET {p \in Pairs : Ends(p) \subseteq syms} :
                   \E rebuild \in BOOLEAN : Reindex(syms, cs, rebuild)
          \/ Serve \/ Handle \/ RequestFails \/ Render
      BY <1>9 DEF Next, Sends
    <2> QED BY <1>1, <1>2, <1>3, <1>4, <1>5, <1>6, <1>7, <2>1
  <1> QED BY <1>8, <1>9

\* The inductive invariant of the view holds in every reachable state.
THEOREM ViewInvariance == Spec => []ViewIInv
  <1>1. Init => ViewIInv
    BY InitViewIInv
  <1>2. ViewIInv /\ [Next]_vars => ViewIInv'
    BY ViewNextStep
  <1> QED BY <1>1, <1>2, PTL DEF Spec

-----------------------------------------------------------------------------
(* What the view promises.                                                 *)

\* Without requests nothing is taken or made.
LEMMA NothingFollows ==
  ASSUME queue = <<>>
  PROVE  /\ \A n : ~NodeGoes(queue, 0, n) /\ ~NodeComes(queue, 0, n)
         /\ \A p : ~EdgeGoes(queue, 0, p) /\ ~EdgeComes(queue, 0, p)
         /\ ~Rebuilt(queue, 0)
  <1>1. \A j : j \notin After(queue, 0)
    BY DEF After
  <1> QED BY <1>1 DEF NodeGoes, NodeComes, EdgeGoes, EdgeComes, Rebuilt

\* The state of the view, of the daemon and of the requests between them stays
\* of its type: an id that is no symbol's is a virtual node's, an answer is a
\* graph, and what the canvas displays is one.
THEOREM ViewTypeCorrect == Spec => []TypeOK
  <1>1. ViewIInv => TypeOK
    BY DEF ViewIInv
  <1> QED BY <1>1, ViewInvariance, PTL

\* With no request left, a graph that holds and is complete is the daemon's.
LEMMA ViewIInvImpliesDataInSync ==
  ASSUME ViewIInv
  PROVE  GraphDataInSync
  <1> SUFFICES ASSUME AtRest, ~behind, ~lost
               PROVE  ref = Served
    BY DEF GraphDataInSync
  <1>1. Holds(Served, queue, 0, ref) /\ Complete(Served, queue, 0, ref)
    BY NothingFollows DEF ViewIInv, NextInv, AtRest
  <1>2. ref.nodes = Served.nodes /\ ref.edges = Served.edges
    BY <1>1, NothingFollows DEF Holds, Complete, AtRest
  <1>3. ref \in Graph /\ Served \in Graph
    BY ServedIsGraph DEF ViewIInv, TypeOK
  <1> QED BY <1>2, <1>3 DEF Graph

\* When every request is settled and the view has rendered, its graph is the
\* daemon's (useGraph.ts, App.tsx), whatever creations, deletions, expansions
\* and loads overlapped, for any ids, any number of requests in flight and any
\* number of events: unless the index changed or a request failed since it was
\* loaded, or a callback wrote over an update that was not rendered yet.
THEOREM DataInSync == Spec => []GraphDataInSync
  <1>1. ViewIInv => GraphDataInSync
    BY ViewIInvImpliesDataInSync
  <1> QED BY <1>1, ViewInvariance, PTL

\* With no request left, all that can be displayed is there or stale.
LEMMA ViewIInvImpliesCanvasInSync ==
  ASSUME ViewIInv
  PROVE  CanvasInSync
  <1> SUFFICES ASSUME AtRest, ~canvasBehind, ~raced
               PROVE  /\ shown.nodes \subseteq nodes \cup stale \cup Files \cup Dirs
                      /\ shown.edges \subseteq Served.edges \cup stale
                      /\ stale \cap (nodes \cup Served.edges) = {}
    BY DEF CanvasInSync
  <1>1. Calm
    BY DEF Calm
  <1>2. Visible(Served, queue, shown, stale)
    BY <1>1 DEF ViewIInv, ShownInv, AtRest
  <1>3. Served.nodes = nodes
    BY DEF Served
  <1>4. /\ shown.nodes \subseteq nodes \cup stale \cup Files \cup Dirs
        /\ shown.edges \subseteq Served.edges \cup stale
    BY <1>2, <1>3, NothingFollows DEF Visible, AtRest
  <1>5. /\ nodes \subseteq Symbols \cup Vids /\ Served.edges \subseteq Pairs
        /\ \A p \in Served.edges : Ends(p) \subseteq nodes
    BY DEF ViewIInv, TypeOK, Served
  <1>6. ASSUME NEW x \in stale
        PROVE  x \notin nodes /\ x \notin Served.edges
    <2>1. \/ x \in (Symbols \ nodes) \cup Files \cup Dirs
          \/ x \in Pairs /\ SymbolMissing(Served, x)
      BY <1>1 DEF ViewIInv, StaleInv
    <2>2. SymbolMissing(Served, x) => ~(Ends(x) \subseteq nodes)
      BY <1>3 DEF SymbolMissing
    <2> QED BY <1>5, <2>1, <2>2, IdsAssumption
  <1> QED BY <1>4, <1>6

\* Then the canvas shows nothing the daemon does not have but placeholders and
\* what is marked stale, and marks nothing stale that is there
\* (snapshotDisplay.ts, App.tsx), unless the index changed or a request failed
\* since it was refreshed, the refresh kept a virtual directory that is gone
\* (App.tsx:95), or something was displayed while clear or load were under way.
THEOREM CanvasIsInSync == Spec => []CanvasInSync
  <1>1. ViewIInv => CanvasInSync
    BY ViewIInvImpliesCanvasInSync
  <1> QED BY <1>1, ViewInvariance, PTL

\* What is marked stale when the snapshot is displayed is gone.
LEMMA MarksOnlyWhatIsGone ==
  ASSUME ViewIInv, GotSnapshot, ~raced, ~canvasBehind, NEW x \in stale'
  PROVE  IF x \in Pairs THEN ~(Ends(x) \subseteq nodes)
         ELSE x \in (Symbols \ nodes) \cup ((Files \cup Dirs) \ Places(nodes))
  <1> DEFINE s == queue[1].reply
             g == queue[1].closure
  <1>1. Answered /\ Head1.op = "detail" /\ stale' = SnapshotStale(Head1.reply, Head1.closure)
    BY DEF GotSnapshot
  <1>2. /\ Served.nodes \cap Symbols \subseteq g.nodes /\ Found(Served, s, g)
        /\ s \in Graph /\ g \in Graph /\ stale' = SnapshotStale(s, g)
    BY <1>1, DetailFacts DEF Calm
  <1>3. Served.nodes = nodes
    BY DEF Served
  <1>4. x \in SnapshotStale(s, g)
    BY <1>2
  <1> HIDE DEF s, g
  <1>5. \/ x \in (Symbols \ nodes) \cup ((Files \cup Dirs) \ Places(nodes))
        \/ x \in Pairs /\ SymbolMissing(Served, x)
    BY <1>2, <1>3, <1>4, MarkedLacks
  <1>6. SymbolMissing(Served, x) => ~(Ends(x) \subseteq nodes)
    BY <1>3 DEF SymbolMissing
  <1> QED BY <1>5, <1>6, IdsAssumption

\* When a snapshot is displayed, its virtual nodes, the edges whose ends are
\* there and the placeholders of files and directories the graph lists are not
\* marked stale (App.tsx, handleLoadSnapshot; a directory that holds only
\* directories is listed by no graph, and marked): clear, load, get
\* and detail are asked for one after the other, and what the load restored is
\* in the graph that is fetched, unless a request failed on the way or another
\* handler changed the canvas.
THEOREM SnapshotStaysLive == Spec => SnapshotIsLive
  <1>1. ViewIInv /\ [Next]_vars
          => [GotSnapshot /\ ~raced /\ ~canvasBehind =>
                \A x \in stale' :
                   IF x \in Pairs THEN ~(Ends(x) \subseteq nodes)
                   ELSE x \in (Symbols \ nodes) \cup ((Files \cup Dirs) \ Places(nodes))]_vars
    BY MarksOnlyWhatIsGone
  <1> QED BY <1>1, ViewInvariance, PTL DEF Spec, SnapshotIsLive

-----------------------------------------------------------------------------
(* The daemon of the view is DaemonGraph.                                  *)

KeptGraphs == IF Kept THEN {snapshot} ELSE {}

LEMMA PairsOf ==
  ASSUME NEW S, NEW P \in SUBSET Pairs, \A p \in P : Ends(p) \subseteq S
  PROVE  P \subseteq S \X S
  <1>1. \A p \in P : p = <<p[1], p[2]>>
    BY IdsAssumption
  <1> QED BY <1>1 DEF Ends

\* A step that leaves the daemon alone.
LEMMA DaemonStutters ==
  ASSUME UNCHANGED daemonVars
  PROVE  UNCHANGED D!vars
  BY DEF daemonVars, D!vars, Kept

\* A snapshot is captured from what is displayed, and is no mark for none.
LEMMA CaptureCaptures == TypeOK /\ Capture => D!Capture
  <1> SUFFICES ASSUME TypeOK, Capture PROVE D!Capture
    OBVIOUS
  <1>1. shown \in Graph /\ shown.nodes # {} /\ snapshot = NoGraph /\ snapshot' = shown
        /\ UNCHANGED <<nodes, calls, manual>>
    BY DEF TypeOK, Capture
  <1>2. ~Kept /\ Kept'
    BY <1>1, GraphsAreGraphs DEF Kept
  <1>3. KeptGraphs = {} /\ KeptGraphs' = {shown}
    BY <1>1, <1>2 DEF KeptGraphs
  <1> QED BY <1>1, <1>3 DEF D!Capture, KeptGraphs

LEMMA ReindexIsReindex ==
  ASSUME TypeOK, NEW syms \in SUBSET Symbols,
         NEW cs \in SUBSET {p \in Pairs : Ends(p) \subseteq syms}, NEW rebuild \in BOOLEAN,
         Reindex(syms, cs, rebuild)
  PROVE  D!Reindex
  <1>1. /\ nodes' = syms \cup (nodes \cap Vids) /\ calls' = cs
        /\ manual' \in {manual, {}} /\ UNCHANGED snapshot
    BY DEF Reindex
  <1>2. nodes' \cap Vids = nodes \cap Vids /\ nodes' \subseteq Symbols \cup Vids
    BY <1>1, IdsAssumption
  <1>3. calls' \subseteq nodes' \X nodes'
    <2>1. cs \in SUBSET Pairs /\ \A p \in cs : Ends(p) \subseteq syms
      OBVIOUS
    <2>2. cs \subseteq syms \X syms
      BY <2>1, PairsOf
    <2> QED BY <1>1, <2>2
  <1>4. KeptGraphs' = KeptGraphs
    BY <1>1 DEF KeptGraphs, Kept
  <1> QED BY <1>1, <1>2, <1>3, <1>4 DEF D!Reindex, KeptGraphs

\* What the daemon does with a request is one step of DaemonGraph, or none.
LEMMA ServeIsDaemonStep ==
  ASSUME TypeOK, ProperInv, NEW i \in DOMAIN queue, ServeStep(i)
  PROVE  D!Next \/ UNCHANGED D!vars
  <1> DEFINE r == queue[i]
  <1>1. /\ Effected(r, queue'[i].reply) /\ calls' = calls
        /\ r.op # "drop" => snapshot' = snapshot
        /\ r.op = "drop" => snapshot' = Dropped
    BY DEF ServeStep
  <1>2. r.op \in {"createNode", "deleteNode"} => r.arg \in Vids
    BY DEF ProperInv, Proper
  <1>3. PICK arg : arg = r.arg
    OBVIOUS
  <1> HIDE DEF r
  <1>4. nodes \subseteq Symbols \cup Vids
    BY DEF TypeOK
  <1>5. snapshot' = snapshot => KeptGraphs' = KeptGraphs
    BY DEF KeptGraphs, Kept
  <1>6. CASE SameDaemon /\ r.op # "drop"
    BY <1>1, <1>6, DaemonStutters DEF SameDaemon, daemonVars
  <1>7. CASE SameDaemon /\ r.op = "drop"
    <2>1. snapshot' = Dropped /\ UNCHANGED <<nodes, calls, manual>>
      BY <1>1, <1>7 DEF SameDaemon
    <2>2. KeptGraphs' = {}
      BY <2>1 DEF KeptGraphs, Kept
    <2>3. CASE Kept
      <3>1. KeptGraphs = {snapshot}
        BY <2>3 DEF KeptGraphs
      <3>2. \E g \in KeptGraphs : KeptGraphs' = KeptGraphs \ {g}
        BY <2>2, <3>1
      <3>3. D!Forget
        BY <2>1, <3>2 DEF D!Forget, KeptGraphs
      <3> QED BY <3>3 DEF D!Next
    <2>4. CASE ~Kept
      <3>1. KeptGraphs' = KeptGraphs
        BY <2>2, <2>4 DEF KeptGraphs
      <3> QED BY <2>1, <3>1 DEF D!vars, KeptGraphs
    <2> QED BY <2>3, <2>4
  <1>8. CASE /\ r.op = "load" /\ Kept
             /\ nodes' = nodes \cup (snapshot.nodes \cap Vids)
             /\ manual' = manual \cup RestoredEdges
    <2>1. PICK g : g = snapshot
      OBVIOUS
    <2>2. RestoredEdges = D!Restored(g)
      BY <2>1 DEF RestoredEdges, D!Restored, Ends, D!Ends
    <2>3. KeptGraphs' = KeptGraphs /\ g \in KeptGraphs
      BY <1>1, <1>5, <1>8, <2>1 DEF KeptGraphs
    <2>4. D!Load(g)
      BY <1>1, <1>8, <2>1, <2>2, <2>3 DEF D!Load, KeptGraphs
    <2> QED BY <2>3, <2>4 DEF D!Next, KeptGraphs
  <1>9. CASE r.op = "createNode" /\ nodes' = nodes \cup {r.arg} /\ manual' = manual
    <2>1. D!Create(arg)
      BY <1>1, <1>3, <1>5, <1>9 DEF D!Create, KeptGraphs
    <2> QED BY <1>2, <1>3, <1>9, <2>1 DEF D!Next
  <1>10. CASE /\ r.op = "deleteNode" /\ nodes' = nodes \ {r.arg}
              /\ manual' = {p \in manual : r.arg \notin Ends(p)}
    <2>1. D!Delete(arg)
      BY <1>1, <1>3, <1>5, <1>10 DEF D!Delete, KeptGraphs, Ends, D!Ends
    <2> QED BY <1>2, <1>3, <1>10, <2>1 DEF D!Next
  <1>11. CASE /\ r.op = "createEdge" /\ Ends(r.arg) \subseteq nodes
              /\ nodes' = nodes /\ manual' = manual \cup {r.arg}
    <2>1. arg \in manual' /\ D!Ends(arg) \subseteq nodes
      BY <1>3, <1>11 DEF Ends, D!Ends
    <2>2. D!Draw
      BY <1>1, <1>3, <1>5, <1>11, <2>1 DEF D!Draw, KeptGraphs
    <2> QED BY <2>2 DEF D!Next
  <1>12. CASE r.op = "deleteEdge" /\ nodes' = nodes /\ manual' = manual \ {r.arg}
    <2>1. CASE arg \in manual
      <3>1. D!Erase
        BY <1>1, <1>3, <1>5, <1>12, <2>1 DEF D!Erase, KeptGraphs
      <3> QED BY <3>1 DEF D!Next
    <2>2. CASE arg \notin manual
      BY <1>1, <1>3, <1>12, <2>2, DaemonStutters DEF daemonVars
    <2> QED BY <2>1, <2>2
  <1>13. CASE r.op = "clear" /\ nodes' = nodes \cap Symbols /\ manual' = {}
    <2>1. nodes' = nodes \ Vids
      BY <1>4, <1>13, IdsAssumption
    <2>2. D!Clear
      BY <1>1, <1>5, <1>13, <2>1 DEF D!Clear, KeptGraphs
    <2> QED BY <2>2 DEF D!Next
  <1>14. \/ SameDaemon
         \/ /\ r.op = "load" /\ Kept
            /\ nodes' = nodes \cup (snapshot.nodes \cap Vids)
            /\ manual' = manual \cup RestoredEdges
         \/ r.op = "createNode" /\ nodes' = nodes \cup {r.arg} /\ manual' = manual
         \/ /\ r.op = "deleteNode" /\ nodes' = nodes \ {r.arg}
            /\ manual' = {p \in manual : r.arg \notin Ends(p)}
         \/ /\ r.op = "createEdge" /\ Ends(r.arg) \subseteq nodes
            /\ nodes' = nodes /\ manual' = manual \cup {r.arg}
         \/ r.op = "deleteEdge" /\ nodes' = nodes /\ manual' = manual \ {r.arg}
         \/ r.op = "clear" /\ nodes' = nodes \cap Symbols /\ manual' = {}
    BY <1>1 DEF Effected
  <1> QED BY <1>6, <1>7, <1>8, <1>9, <1>10, <1>11, <1>12, <1>13, <1>14

\* No other step of the view reaches the daemon.
LEMMA ViewStepIsDaemonStep ==
  ASSUME ViewIInv, [Next]_vars
  PROVE  [D!Next]_(D!vars)
  <1> SUFFICES D!Next \/ UNCHANGED D!vars
    OBVIOUS
  <1>0. TypeOK /\ ProperInv /\ IdsInv
    BY DEF ViewIInv, QueueInv
  <1>1. CASE Sends
    <2>1. PICK r : SendStep(r)
      BY <1>0, <1>1, SendsSend
    <2> QED BY <2>1, DaemonStutters DEF SendStep, daemonVars
  <1>2. CASE Capture
    BY <1>0, <1>2, CaptureCaptures DEF D!Next
  <1>3. ASSUME NEW n \in Node, AddToCanvas(n) \/ RemoveFromCanvas(n)
        PROVE  UNCHANGED D!vars
    BY <1>3, DaemonStutters DEF AddToCanvas, RemoveFromCanvas, OnlySends
  <1>4. ASSUME NEW n \in Node, NEW parent \in Symbols \cup Files \cup Dirs, AddParent(n, parent)
        PROVE  UNCHANGED D!vars
    BY <1>4, DaemonStutters DEF AddParent
  <1>5. ASSUME NEW syms \in SUBSET Symbols,
               NEW cs \in SUBSET {p \in Pairs : Ends(p) \subseteq syms},
               NEW rebuild \in BOOLEAN, Reindex(syms, cs, rebuild)
        PROVE  D!Next
    BY <1>0, <1>5, ReindexIsReindex DEF D!Next
  <1>6. CASE Serve
    <2>1. PICK i \in DOMAIN queue : ServeStep(i)
      BY <1>0, <1>6, ServeServes
    <2> QED BY <1>0, <2>1, ServeIsDaemonStep
  <1>7. CASE Handle \/ RequestFails \/ Render \/ UNCHANGED vars
    BY <1>7, DaemonStutters DEF Handle, RequestFails, Render, vars
  <1> QED
    <2>1. \/ Sends \/ Capture
          \/ \E n \in Node : AddToCanvas(n) \/ RemoveFromCanvas(n)
          \/ \E n \in Node, parent \in Symbols \cup Files \cup Dirs : AddParent(n, parent)
          \/ \E syms \in SUBSET Symbols :
                \E cs \in SUBSET {p \in Pairs : Ends(p) \subseteq syms} :
                   \E rebuild \in BOOLEAN : Reindex(syms, cs, rebuild)
          \/ Serve \/ Handle \/ RequestFails \/ Render \/ UNCHANGED vars
      BY DEF Next, Sends
    <2> QED BY <1>1, <1>2, <1>3, <1>4, <1>5, <1>6, <1>7, <2>1

\* The daemon the view talks to is the graph of DaemonGraph, which the tables
\* of the daemon implement (GraphStoreProofs): a request changes it in one
\* step, whenever its answer comes, and a request that fails may have.  What the
\* index does is one step as well, the drawn edges a rebuild takes included.
THEOREM ViewDaemonIsDaemonGraph == Spec => ImplementsDaemonGraph
  <1>1. Init => D!Init
    <2> SUFFICES ASSUME Init PROVE D!Init
      OBVIOUS
    <2>1. calls \in SUBSET Pairs /\ \A p \in calls : Ends(p) \subseteq Symbols
      BY DEF Init
    <2>2. calls \subseteq Symbols \X Symbols
      BY <2>1, PairsOf
    <2>3. PICK e \in Earlier :
            nodes = Symbols \cup e.virtual /\ manual = e.manual /\ snapshot = e.snapshot
      BY DEF Init
    <2>4. nodes \subseteq Symbols \cup Vids
          /\ manual \subseteq (Symbols \cup Vids) \X (Symbols \cup Vids)
      BY <2>3, EarlierAssumption, IdsAssumption
    <2>5. Kept => snapshot.nodes # {}
      BY <2>3, EarlierAssumption DEF Kept
    <2> QED BY <2>2, <2>4, <2>5 DEF D!Init
  <1> QED BY <1>1, ViewStepIsDaemonStep, ViewInvariance, PTL
          DEF Spec, ImplementsDaemonGraph, D!Spec
=============================================================================
