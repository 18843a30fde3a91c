------------------------------ MODULE GraphCanvas ------------------------------
(***************************************************************************)
(* The canvas (graph-viz/src/components/GraphCanvas/GraphCanvas.tsx, with  *)
(* buildCytoscapeElements of utils/graphBuilder.ts): the displayed graph   *)
(* is kept in a Cytoscape instance that is changed by differences, and     *)
(* what the user does there is told to App.tsx.                            *)
(*                                                                         *)
(* Cytoscape is modelled by what the component relies on: a node that is   *)
(* removed takes its edges and the nodes inside it along, and two taps     *)
(* within 250 ms are a tap, a tap and a double tap.  A node moves into and *)
(* out of parents of a higher kind only (HomesAssumption), so that no      *)
(* parent is ever inside its child.  Positions and sizes, with dragging,   *)
(* resizing and layouts, are left out.                                     *)
(***************************************************************************)
EXTENDS Integers, FiniteSets

CONSTANTS
    Ids,        \* node ids
    NoNode,
    Graphs,     \* values of the graphData prop, see GraphsAssumption
    MaxChanges, \* bound: renders with another graph or without the canvas
    MaxInputs   \* bound: taps, keys and buttons

Layers == {"directory", "file", "method"}
Containers == {"directory", "file"}

\* `kind' is the layer of a node, `home' its parentId, or the file or directory
\* of its path; `version' stands for the labels and remarks of the nodes.
GraphProp == [nodes : SUBSET Ids, kind : [Ids -> Layers], home : [Ids -> Ids \cup {NoNode}],
          edges : SUBSET (Ids \X Ids), version : Nat]
ASSUME GraphsAssumption == NoNode \notin Ids /\ Graphs \subseteq GraphProp
ASSUME InputsAssumption == {MaxChanges, MaxInputs} \subseteq Nat

VARIABLES
    graph,      \* the graphData prop
    mounted,    \* the canvas is there: the error page is not
    cy,         \* nodes, parents and edges of the Cytoscape instance
    prev,       \* prevElementIdsRef
    selected,   \* nodes selected in Cytoscape
    hidden,     \* nodes with the class layer-hidden
    visible,    \* layerVisibility
    overlay,    \* selectedNodeIdRef: the node with the resize overlay
    timer,      \* the node whose single click is pending
    recent,     \* Cytoscape would take a tap for the second of a double tap
    drawMode,   \* edgeDrawModeRef
    told,       \* what the last action called in App.tsx
    \* History.
    retyped,    \* nodes whose kind changed since the layers were last applied
    doubled,    \* the last tap was the second of a double tap
    changes, inputs

elementVars == <<graph, mounted, cy, prev, retyped>>
inputVars == <<timer, recent, doubled>>
componentVars == <<elementVars, selected, hidden, visible, overlay, inputVars, drawMode, told,
          changes, inputs>>

NoneAt == [n \in Ids |-> NoNode]
Blank == [nodes |-> {}, parent |-> NoneAt, kind |-> [n \in Ids |-> "method"],
          version |-> [n \in Ids |-> 0], edges |-> {}]
Nothing == [call |-> "none", args |-> {}]

-----------------------------------------------------------------------------
(* buildCytoscapeElements.                                                 *)

\* resolveEffectiveParentId: a displayed container other than the node.
EffectiveParent(g, n) ==
    LET p == g.home[n]
    IN  IF p \in g.nodes \ {n} /\ g.kind[p] \in Containers THEN p ELSE NoNode

\* Methods and fields are in files, files and classes in directories.
Above == {<<"directory", "file">>, <<"directory", "method">>, <<"file", "method">>}
ASSUME HomesAssumption ==
    \A g \in Graphs : \A n \in g.nodes :
        EffectiveParent(g, n) # NoNode => <<g.kind[EffectiveParent(g, n)], g.kind[n]>> \in Above

\* Edges with an end that is not displayed are left out.  Mutant: they are not.
ElementsWithDangling(g) ==
    [nodes |-> g.nodes,
     parent |-> [n \in Ids |-> IF n \in g.nodes THEN EffectiveParent(g, n) ELSE NoNode],
     kind |-> g.kind, version |-> [n \in Ids |-> g.version], edges |-> g.edges]
Elements(g) ==
    [nodes |-> g.nodes,
     parent |-> [n \in Ids |-> IF n \in g.nodes THEN EffectiveParent(g, n) ELSE NoNode],
     kind |-> g.kind,
     version |-> [n \in Ids |-> g.version],
     edges |-> {e \in g.edges : e[1] \in g.nodes /\ e[2] \in g.nodes}]

-----------------------------------------------------------------------------
(* Cytoscape.                                                              *)

Touching(N) == {e \in Ids \X Ids : e[1] \in N \/ e[2] \in N}

\* The nodes N and all inside them, however deep: the least set that has both.
Within(c, N) ==
    LET Closed(S) == {m \in c.nodes : m \in N \/ c.parent[m] \in S} \subseteq S
    IN  {n \in c.nodes : \A S \in SUBSET c.nodes : Closed(S) => n \in S}

\* ele.remove(): its descendants and every edge of those go as well.
Remove(c, N) ==
    LET gone == Within(c, N)
    IN  [c EXCEPT !.nodes = @ \ gone,
                  !.parent = [n \in Ids |-> IF n \in gone THEN NoNode ELSE @[n]],
                  !.edges = @ \ Touching(gone)]

\* cy.add() of nodes; a parent that is not there is dropped.
AddNodes(c, N, e) ==
    [c EXCEPT !.nodes = @ \cup N,
              !.parent = [n \in Ids |->
                  IF n \notin N THEN @[n]
                  ELSE IF e.parent[n] \in c.nodes \cup N THEN e.parent[n] ELSE NoNode],
              !.kind = [n \in Ids |-> IF n \in N THEN e.kind[n] ELSE @[n]],
              !.version = [n \in Ids |-> IF n \in N THEN e.version[n] ELSE @[n]]]

-----------------------------------------------------------------------------
(* The difference, in the order of the batch.                              *)

\* Nodes displayed before and after: moved, and their data refreshed.
\* Mutant: they stay where they are.
RefreshNodesInPlace(c, N, e) ==
    [c EXCEPT !.kind = [n \in Ids |-> IF n \in N THEN e.kind[n] ELSE @[n]],
              !.version = [n \in Ids |-> IF n \in N THEN e.version[n] ELSE @[n]]]
RefreshNodes(c, N, e) ==
    [RefreshNodesInPlace(c, N, e) EXCEPT
        !.parent = [n \in Ids |-> IF n \in N THEN e.parent[n] ELSE @[n]]]

\* Children that stay leave parents that go.
Promote(c, going, staying) ==
    [c EXCEPT !.parent = [n \in Ids |->
        IF n \in staying /\ @[n] \in going THEN NoNode ELSE @[n]]]

\* From what is in Cytoscape to the elements e of a graph.
Differ(c, e) ==
    LET added == e.nodes \ prev.nodes
        going == prev.nodes \ e.nodes
        kept == e.nodes \cap prev.nodes
        c1 == [c EXCEPT !.edges = @ \ (prev.edges \ e.edges)]
        c2 == AddNodes(c1, added, e)
        c3 == RefreshNodes(c2, kept \cap c2.nodes, e)
        c4 == Promote(c3, going, e.nodes)
        c5 == Remove(c4, going)
    IN  [c5 EXCEPT !.edges = @ \cup (e.edges \ prev.edges)]

\* syncLayerVisibility.
Hidden(c, layers) == {n \in c.nodes : ~layers[c.kind[n]]}

\* The layers are applied again when something was added.  Mutant: never.
HiddenAsBefore(c, added) == hidden \cap c.nodes
HiddenAfter(c, added) ==
    IF added THEN Hidden(c, visible) ELSE hidden \cap c.nodes

\* The remove listener, and the reset of an empty canvas.
OverlayAfter(c) == IF overlay \in c.nodes THEN overlay ELSE NoNode

\* The graph effect, after a render with the graph g.
GraphEffect(g) ==
    LET e == Elements(g)
        c == Differ(cy, e)
        added == ~(e.nodes \subseteq prev.nodes /\ e.edges \subseteq prev.edges)
    IN  /\ cy' = c
        /\ prev' = [nodes |-> e.nodes, edges |-> e.edges]
        /\ selected' = selected \cap c.nodes
        /\ overlay' = OverlayAfter(c)
        /\ hidden' = HiddenAfter(c, added)
        /\ retyped' = IF added THEN {}
                      ELSE {n \in c.nodes : n \in retyped \/ cy.kind[n] # c.kind[n]}

-----------------------------------------------------------------------------
CanvasInit ==
    /\ graph = [nodes |-> {}, kind |-> Blank.kind, home |-> NoneAt, edges |-> {},
                version |-> 0]
    /\ mounted = TRUE
    /\ cy = Blank /\ prev = [nodes |-> {}, edges |-> {}] /\ retyped = {}
    /\ selected = {} /\ hidden = {} /\ visible = [l \in Layers |-> TRUE]
    /\ overlay = NoNode
    /\ timer = NoNode /\ recent = FALSE /\ doubled = FALSE
    /\ drawMode = FALSE /\ told = Nothing
    /\ changes = 0 /\ inputs = 0

Change == changes < MaxChanges /\ changes' = changes + 1 /\ UNCHANGED inputs
Input == mounted /\ inputs < MaxInputs /\ inputs' = inputs + 1 /\ UNCHANGED changes
Tells(call, args) == told' = [call |-> call, args |-> args]

NewGraph(g) ==
    /\ Change
    /\ g # graph
    /\ graph' = g
    /\ IF mounted THEN GraphEffect(g)
       ELSE UNCHANGED <<cy, prev, selected, overlay, hidden, retyped>>
    /\ told' = Nothing
    /\ UNCHANGED <<mounted, visible, inputVars, drawMode>>

\* The error page takes the place of the view: the instance is destroyed, the
\* pending click cancelled and the component's state gone.
Unmount ==
    /\ Change
    /\ mounted /\ mounted' = FALSE
    /\ cy' = Blank /\ prev' = [nodes |-> {}, edges |-> {}]
    /\ selected' = {} /\ hidden' = {} /\ overlay' = NoNode /\ retyped' = {}
    /\ visible' = [l \in Layers |-> TRUE]
    /\ timer' = NoNode /\ recent' = FALSE /\ doubled' = FALSE
    /\ drawMode' = FALSE /\ told' = Nothing
    /\ UNCHANGED graph

Mount ==
    /\ ~mounted /\ mounted' = TRUE
    /\ GraphEffect(graph)
    /\ told' = Nothing
    /\ UNCHANGED <<graph, visible, inputVars, drawMode, changes, inputs>>

-----------------------------------------------------------------------------
(* Taps.                                                                   *)

\* A double tap cancels the click of its second tap.  Mutant: it does not.
TimerAfterLate(n) == n
TimerAfter(n) == IF recent THEN NoNode ELSE n

\* A tap selects the node, and is a double tap when another was just before,
\* wherever that was.
TapNode(n) ==
    /\ Input
    /\ n \in cy.nodes \ hidden
    /\ timer' = TimerAfter(n)
    /\ recent' = ~recent /\ doubled' = recent
    /\ IF recent THEN Tells("onNodeDoubleClick", {n}) ELSE told' = Nothing
    /\ selected' = {n} /\ overlay' = n
    /\ UNCHANGED <<elementVars, hidden, visible, drawMode>>

\* The 220 ms of a click are over: App hears of the node as it was.
ClickTimer ==
    /\ timer # NoNode
    /\ timer' = NoNode
    /\ Tells("onNodeClick", {timer})
    /\ UNCHANGED <<elementVars, selected, hidden, visible, overlay, recent, doubled,
                   drawMode, changes, inputs>>

\* The 250 ms of Cytoscape are over.
NoLongerRecent ==
    /\ recent /\ recent' = FALSE
    /\ told' = Nothing
    /\ UNCHANGED <<elementVars, selected, hidden, visible, overlay, timer, doubled,
                   drawMode, changes, inputs>>

\* A tap beside every node ends the selection; in placement mode it places a
\* node.  A pending click stays pending.
TapBackground ==
    /\ Input
    /\ recent' = ~recent
    /\ \E call \in {"onBackgroundClick", "onPlaceVirtualNode"} : Tells(call, {})
    /\ selected' = {} /\ overlay' = NoNode
    /\ UNCHANGED <<elementVars, hidden, visible, timer, doubled, drawMode>>

TapEdge(e) ==
    /\ Input
    /\ e \in cy.edges
    /\ {e[1], e[2]} \cap hidden = {}
    /\ recent' = ~recent
    /\ Tells("onEdgeClick", {e[1], e[2]})
    /\ selected' = {} /\ overlay' = NoNode
    /\ UNCHANGED <<elementVars, hidden, visible, timer, doubled, drawMode>>

\* A box, or a key held, adds to the selection or takes from it.  The overlay
\* goes to the node selected last, or to one that is left.
SelectAlso(n) ==
    /\ Input
    /\ n \in cy.nodes \ (hidden \cup selected)
    /\ selected' = selected \cup {n} /\ overlay' = n
    /\ told' = Nothing
    /\ UNCHANGED <<elementVars, hidden, visible, inputVars, drawMode>>

Unselect(n) ==
    /\ Input
    /\ n \in selected
    /\ selected' = selected \ {n}
    /\ overlay' \in IF selected = {n} THEN {NoNode} ELSE selected \ {n}
    /\ told' = Nothing
    /\ UNCHANGED <<elementVars, hidden, visible, inputVars, drawMode>>

-----------------------------------------------------------------------------
(* Other input.                                                            *)

RightClick(n) ==
    /\ Input
    /\ n \in cy.nodes \ hidden /\ cy.kind[n] \in {"method", "file"}
    /\ Tells("onNodeRightClickAddParent", {n})
    /\ UNCHANGED <<elementVars, selected, hidden, visible, overlay, inputVars, drawMode>>

DeleteKey ==
    /\ Input
    /\ selected # {}
    /\ Tells("onNodeDelete", selected)
    /\ UNCHANGED <<elementVars, selected, hidden, visible, overlay, inputVars, drawMode>>

ToggleLayer(l) ==
    /\ Input
    /\ visible' = [visible EXCEPT ![l] = ~@]
    /\ hidden' = Hidden(cy, visible')
    /\ retyped' = {} /\ told' = Nothing
    /\ UNCHANGED <<graph, mounted, cy, prev, selected, overlay, inputVars, drawMode>>

\* The button, or Escape.
ToggleEdgeDraw ==
    /\ Input
    /\ drawMode' = ~drawMode
    /\ told' = Nothing
    /\ UNCHANGED <<elementVars, selected, hidden, visible, overlay, inputVars>>

\* ehcomplete, for a pair canConnect allows.
CompleteEdge(s, t) ==
    /\ Input
    /\ drawMode
    /\ {s, t} \subseteq cy.nodes \ hidden /\ s # t
    /\ Tells("onEdgeDrawn", {s, t})
    /\ UNCHANGED <<elementVars, selected, hidden, visible, overlay, inputVars, drawMode>>

CanvasNext ==
    \/ \E g \in Graphs : NewGraph(g)
    \/ Unmount \/ Mount
    \/ \E n \in Ids : TapNode(n) \/ SelectAlso(n) \/ Unselect(n) \/ RightClick(n)
    \/ ClickTimer \/ NoLongerRecent \/ TapBackground \/ DeleteKey \/ ToggleEdgeDraw
    \/ \E e \in cy.edges : TapEdge(e)
    \/ \E l \in Layers : ToggleLayer(l)
    \/ \E s, t \in Ids : CompleteEdge(s, t)

CanvasSpec == CanvasInit /\ [][CanvasNext]_componentVars

-----------------------------------------------------------------------------
CanvasTypeOK ==
    /\ graph.nodes \subseteq Ids /\ mounted \in BOOLEAN
    /\ cy.nodes \subseteq Ids /\ cy.parent \in [Ids -> cy.nodes \cup {NoNode}]
    /\ cy.edges \subseteq cy.nodes \X cy.nodes
    /\ prev.nodes \subseteq Ids
    /\ hidden \subseteq cy.nodes /\ visible \in [Layers -> BOOLEAN]
    /\ timer \in Ids \cup {NoNode}
    /\ {recent, drawMode, doubled} \subseteq BOOLEAN
    /\ changes \in 0 .. MaxChanges /\ inputs \in 0 .. MaxInputs

\* Step by step the canvas becomes what building it anew would give: the same
\* nodes with their newest data, each in the container that is displayed for
\* it, and the same edges, whatever came, went, moved or changed its kind in
\* one render, and after the error page.
CanvasIsGraph ==
    mounted =>
        LET e == Elements(graph)
        IN  /\ cy.nodes = e.nodes /\ cy.edges = e.edges
            /\ cy.parent = e.parent
            /\ \A n \in cy.nodes : cy.kind[n] = e.kind[n] /\ cy.version[n] = e.version[n]

\* The nodes of a layer that is switched off are hidden and no others are,
\* those that came or changed their container since included, except for nodes
\* that changed their kind in a render that added nothing.
LayersAreHidden ==
    \A n \in cy.nodes \ retyped : n \in hidden <=> ~visible[cy.kind[n]]

\* The resize overlay, whose handles change a node, is on a selected node of
\* the canvas, after that node went with its parent as well.
OverlayIsSelected ==
    overlay # NoNode => overlay \in selected /\ selected \subseteq cy.nodes

\* What the component keeps beside the canvas follows what the canvas does by
\* itself: removing a node removes what is inside it, adding one shows it.
KeptBesideFollows == LayersAreHidden /\ OverlayIsSelected

\* The second tap of a double tap is not told as a click after the expansion
\* ("Bug fix: tap fires for BOTH clicks", GraphCanvas.tsx:435).
NoClickAfterExpansion == [][ClickTimer => ~doubled]_componentVars
=============================================================================
