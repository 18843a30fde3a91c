------------------------------- MODULE GraphView -------------------------------
(***************************************************************************)
(* The state of the graph view (graph-viz/src/App.tsx, hooks/useGraph.ts,  *)
(* utils/graphBuilder.ts, utils/snapshotDisplay.ts): the whole graph, what *)
(* the canvas displays of it, and the asynchronous handlers that change    *)
(* both when the daemon answers.                                           *)
(*                                                                         *)
(* A handler is cut at every await.  React renders some time after a state *)
(* was set: until then the event handlers and graphDataRef see the state   *)
(* of the last render (`ref', `shown'), while a functional update of the   *)
(* displayed graph sees the newest one (`display').                        *)
(*                                                                         *)
(* The daemon serves the requests in the order they were sent, and they    *)
(* are settled in that order (ApiClient, WebviewTransport); one that fails *)
(* may have been carried out.  A node or an edge is its id: labels,        *)
(* positions, annotations and the selection are left out.                  *)
(***************************************************************************)
EXTENDS Integers, Sequences, FiniteSets

CONSTANTS
    Symbols,    \* ids of indexed symbols
    Vids,       \* ids of virtual nodes
    VDirs,      \* those of type directory
    Files,      \* placeholders of files: nodes of type class of the view only
    Dirs,       \* placeholders of directories
    FileOf,     \* the file a symbol is in
    DirOf,      \* the directory a file is in
    Pairs,      \* the <<source, target>> pairs that may have an edge
    Earlier,    \* what earlier sessions may have left in the daemon
    MaxSteps,   \* bound: events from outside: clicks, messages, re-indexing
    MaxFails,   \* bound: requests that fail
    MaxQueue    \* bound: requests in flight

ASSUME IdsAssumption ==
    /\ Symbols \cap Vids = {} /\ (Symbols \cup Vids) \cap (Files \cup Dirs) = {}
    /\ Pairs \subseteq (Symbols \cup Vids) \X (Symbols \cup Vids)
    /\ (Symbols \cup Vids \cup Files \cup Dirs) \cap Pairs = {}
ASSUME PlacesAssumption ==
    /\ VDirs \subseteq Vids /\ Files \cap Dirs = {}
    /\ FileOf \in [Symbols -> Files] /\ DirOf \in [Files -> Dirs]
ASSUME BoundsAssumption == {MaxSteps, MaxFails, MaxQueue} \subseteq Nat

VARIABLES
    \* The daemon.
    nodes,      \* symbols and virtual nodes
    calls,      \* indexed edges
    manual,     \* edges the user drew
    snapshot,   \* the graph of the one snapshot, or NoGraph, or Dropped
    \* The view.
    ref,        \* graphDataRef.current, and graphData as last rendered
    next,       \* the last value given to setGraphData
    shown,      \* displayGraphData as last rendered
    display,    \* displayGraphData with every update applied
    stale,      \* displayed nodes and edges marked isStaleSnapshot
    error,      \* useGraph.error: only a Retry button is left
    listed,     \* the snapshot is in the list of the dropdown
    queue,      \* requests not yet settled, in the order they were sent
    \* History.
    behind,     \* the graph was not loaded since the daemon changed unnoticed
    canvasBehind,   \* the canvas was not refreshed since
    lost,       \* a callback wrote graphData from a ref that was not the newest
    raced,      \* the canvas changed while clear or load were under way
    given,      \* virtual ids ever given out
    steps, fails

daemonVars == <<nodes, calls, manual, snapshot>>
graphVars == <<ref, next, lost>>
canvasVars == <<shown, display, stale, raced>>
vars == <<daemonVars, graphVars, canvasVars, error, listed, queue, behind,
          canvasBehind, given, steps, fails>>

Node == Symbols \cup Vids \cup Files \cup Dirs
Ends(p) == {p[1], p[2]}
NoArg == <<>>
Graph == [nodes : SUBSET Node, edges : SUBSET Pairs]
Empty == [nodes |-> {}, edges |-> {}]
NoGraph == [nodes |-> {}, edges |-> {}, none |-> "not captured"]
Dropped == [nodes |-> {}, edges |-> {}, none |-> "deleted"]
Kept == snapshot \notin {NoGraph, Dropped}
NoReply == [nodes |-> {}, edges |-> {}, reply |-> "none"]
Error == [nodes |-> {}, edges |-> {}, reply |-> "error"]

\* The files and directories of a graph with these nodes: those of its symbols.
\* A directory that only holds directories is not among them.
Places(ns) ==
    LET files == {FileOf[s] : s \in ns \cap Symbols}
    IN  files \cup {DirOf[f] : f \in files}

\* graph.get: edges whose ends it cannot name are left out.
Served == [nodes |-> nodes,
           edges |-> {p \in calls \cup manual : Ends(p) \subseteq nodes}]

\* Virtual nodes and edges the user drew, and a snapshot he took, or none.
ASSUME EarlierAssumption == \A e \in Earlier :
    /\ e.virtual \subseteq Vids /\ e.manual \subseteq Pairs
    /\ e.snapshot \in {NoGraph} \cup {g \in Graph : g.nodes # {}}
GivenIn(e) ==
    Vids \cap (e.virtual \cup e.snapshot.nodes
                \cup UNION {Ends(p) : p \in e.manual \cup e.snapshot.edges})

\* The panel is opened, and its dropdown: nothing is loaded yet.
Init ==
    /\ \E e \in Earlier :
          /\ nodes = Symbols \cup e.virtual /\ manual = e.manual
          /\ snapshot = e.snapshot /\ listed = (e.snapshot # NoGraph)
          /\ given = GivenIn(e)
    /\ calls = {p \in Pairs : Ends(p) \subseteq Symbols}
    /\ ref = Empty /\ next = Empty /\ shown = Empty /\ display = Empty
    /\ stale = {} /\ error = FALSE /\ queue = <<>>
    /\ behind = TRUE /\ canvasBehind = FALSE /\ lost = FALSE /\ raced = FALSE
    /\ steps = 0 /\ fails = 0

-----------------------------------------------------------------------------
(* graphBuilder.ts and the updates of the displayed graph.                 *)

\* mergeGraphData.
Merge(g, h) == [nodes |-> g.nodes \cup h.nodes, edges |-> g.edges \cup h.edges]

\* removeNodeFromGraph, removeEdgeFromGraph.  Mutant: the node's edges stay.
WithoutNodeOnly(g, n) == [g EXCEPT !.nodes = @ \ {n}]
WithoutNode(g, n) == [nodes |-> g.nodes \ {n}, edges |-> {p \in g.edges : n \notin Ends(p)}]
WithoutEdge(g, p) == [g EXCEPT !.edges = @ \ {p}]

NodeOnly(n) == [nodes |-> {n}, edges |-> {}]
EdgeOnly(p) == [nodes |-> {}, edges |-> {p}]

\* handleAddToCanvas: the node and findConnectedEdges.
WithNeighbors(g, n, ids) ==
    [nodes |-> {n}, edges |-> {p \in g.edges : n \in Ends(p) /\ Ends(p) \ {n} \subseteq ids}]

\* handleNodeDoubleClick: the neighbours of n in g, and the edges to them.
Expanded(d, n, g) ==
    LET connected == {p \in g.edges : n \in Ends(p)}
        neighbors == g.nodes \cap UNION {Ends(p) \ {n} : p \in connected}
        ids == d.nodes \cup neighbors \cup {n}
    IN  Merge(d, [nodes |-> neighbors,
                  edges |-> {p \in connected : Ends(p) \subseteq ids}])

\* handleExternalRefresh: what is still there, and what is of type directory,
\* virtual or not; the placeholder of a file is of type class and goes.
Synthetic(d, g) == (d.nodes \cap (Dirs \cup VDirs)) \ g.nodes

Refreshed(d, g) ==
    LET kept == (d.nodes \cap g.nodes) \cup Synthetic(d, g)
    IN  IF d = Empty THEN d
        ELSE [nodes |-> kept, edges |-> {p \in g.edges : Ends(p) \subseteq kept}]

\* buildSnapshotDisplayData: everything in the snapshot, of the edges those
\* between its nodes.
SnapshotDisplay(s) == [s EXCEPT !.edges = {p \in @ : Ends(p) \subseteq s.nodes}]

\* What of it is marked stale: neither in the graph g nor one of its places.
SnapshotStale(s, g) ==
    (SnapshotDisplay(s).nodes \ (g.nodes \cup Places(g.nodes)))
        \cup (SnapshotDisplay(s).edges \ g.edges)

-----------------------------------------------------------------------------
(* Requests.  `then' says which handler waits for it, `arg' what for, and  *)
(* `closure' is the graph the handler still holds; the index has not       *)
(* changed since an answer that is `current'.                              *)

Ask(op, then, arg, closure) ==
    [op |-> op, then |-> then, arg |-> arg, closure |-> closure, reply |-> NoReply,
     current |-> TRUE]
Plain(op, then) == Ask(op, then, NoArg, Empty)

\* A handler that empties the canvas and has not loaded the graph since.
\* Until the end its last request is in flight.
InFlow(q) ==
    \E i \in DOMAIN q : q[i].op \in {"load", "detail"} \/ q[i].then \in {"cleared", "snapshot"}

\* An event from outside, and a click, which needs the view and no error page.
Event ==
    /\ steps < MaxSteps
    /\ steps' = steps + 1
    /\ UNCHANGED <<fails, given>>
Click == Event /\ ~error

Send(request) ==
    /\ Len(queue) < MaxQueue
    /\ queue' = Append(queue, request)

OnlySends == UNCHANGED <<daemonVars, graphVars, canvasVars, listed, behind, canvasBehind>>

\* Load All, Refresh, Retry; and a refresh asked for by the extension or after
\* an annotation was saved.  loadGraph takes the error page away.
LoadGraph ==
    /\ Event
    /\ \E then \in {"show", "refresh"} : Send(Plain("get", then))
    /\ error' = FALSE
    /\ OnlySends

ClickClear == Click /\ Send(Plain("clear", "cleared")) /\ OnlySends /\ UNCHANGED error

ClickLoadSnapshot ==
    Click /\ listed /\ Send(Plain("clear", "snapshot")) /\ OnlySends /\ UNCHANGED error

ClickDeleteSnapshot ==
    Click /\ listed /\ Send(Plain("drop", "none")) /\ OnlySends /\ UNCHANGED error

DoubleClick(n) ==
    Click /\ n \in shown.nodes /\ Send(Ask("expand", "none", n, Empty))
          /\ OnlySends /\ UNCHANGED error

\* Placed on the canvas, or created with the form and its remarks.  The id the
\* daemon will give it is a UUID.
CreateNode(v) ==
    /\ steps < MaxSteps /\ steps' = steps + 1 /\ ~error
    /\ v \notin given /\ given' = given \cup {v}
    /\ \E then \in {"place", "annotate"} : Send(Ask("createNode", then, v, Empty))
    /\ OnlySends /\ UNCHANGED <<error, fails>>

\* handleEdgeDrawn looks for the edge in what was rendered.
DrawEdge(p) ==
    /\ Click
    /\ Ends(p) \subseteq ref.nodes \cap shown.nodes /\ p \notin shown.edges
    /\ Send(Ask("createEdge", "drawn", p, Empty))
    /\ OnlySends /\ UNCHANGED error

\* The form offers the nodes of the graph and does not look for the edge.
CreateEdge(p) ==
    /\ Click
    /\ Ends(p) \subseteq ref.nodes /\ p[1] # p[2]
    /\ Send(Ask("createEdge", "form", p, shown))
    /\ OnlySends /\ UNCHANGED error

\* The button is not offered for what is stale; the Delete key does not look.
DeleteNode(v) ==
    Click /\ v \in shown.nodes /\ Send(Ask("deleteNode", "none", v, Empty))
          /\ OnlySends /\ UNCHANGED error

\* Offered for edges the user made.
DeleteEdge(p) ==
    Click /\ p \in shown.edges \ stale /\ (p \in manual \/ Ends(p) \cap Vids # {})
          /\ Send(Ask("deleteEdge", "none", p, Empty)) /\ OnlySends /\ UNCHANGED error

-----------------------------------------------------------------------------
(* What changes the canvas without the daemon.                             *)

\* What is put on the canvas from graphDataRef may not be in the daemon: that
\* is not the newest graph, or a graph that misses a change.
RefIsOff == ref # next \/ lost \/ behind

\* A change of the canvas while clear or load are under way.
Display(d, inFlow) ==
    /\ display' = d
    /\ raced' = (raced \/ inFlow)

\* The mark is on the node or edge, and goes with it.
StaleOn(d) == stale' = stale \cap (d.nodes \cup d.edges)

\* handleNodeDelete of a node that is not virtual.
RemoveFromCanvas(n) ==
    /\ Click
    /\ n \in shown.nodes \ Vids
    /\ Display(WithoutNode(display, n), InFlow(queue))
    /\ StaleOn(WithoutNode(display, n))
    /\ UNCHANGED <<daemonVars, graphVars, shown, error, listed, queue, behind, canvasBehind>>

\* What handleAddToCanvas finds in a graph for a node of the tree: a directory
\* it makes up itself.
Addable(g) == g.nodes \cup (Places(g.nodes) \cap Files) \cup Dirs

\* handleAddToCanvas of a node of the tree that is not displayed.  From an
\* empty graph it loads first, and goes on with the nodes displayed before.
AddToCanvas(n) ==
    /\ Click
    /\ n \notin shown.nodes
    /\ IF ref.nodes = {}
       THEN /\ n \notin Vids
            /\ Send(Ask("get", "add", n, shown))
            /\ OnlySends
       ELSE /\ n \in Addable(ref)
            /\ Display(Merge(display, WithNeighbors(ref, n, shown.nodes)), InFlow(queue))
            /\ canvasBehind' = (canvasBehind \/ RefIsOff)
            /\ UNCHANGED <<daemonVars, graphVars, shown, stale, listed, queue, behind>>
    /\ UNCHANGED error

\* handleNodeRightClickAddParent: the parent alone, no edges.
AddParent(n, parent) ==
    /\ Click
    /\ n \in shown.nodes \ (Dirs \cup VDirs)
    /\ parent \in ((ref.nodes \cap Symbols) \cup Places(ref.nodes)) \ shown.nodes
    /\ Display(Merge(display, NodeOnly(parent)), InFlow(queue))
    /\ canvasBehind' = (canvasBehind \/ RefIsOff)
    /\ UNCHANGED <<daemonVars, graphVars, shown, stale, error, listed, queue, behind>>

\* handleCreateSnapshot, of what was rendered; answered at once.
Capture ==
    /\ Click
    /\ snapshot = NoGraph /\ shown.nodes # {}
    /\ snapshot' = shown
    /\ listed' = TRUE
    /\ UNCHANGED <<nodes, calls, manual, graphVars, canvasVars, error, queue, behind,
                   canvasBehind>>

Render ==
    /\ ref # next \/ shown # display
    /\ ref' = next /\ shown' = display
    /\ UNCHANGED <<daemonVars, next, lost, display, stale, raced, error, listed, queue,
                   behind, canvasBehind, given, steps, fails>>

-----------------------------------------------------------------------------
(* The daemon.                                                             *)

Unserved == {i \in DOMAIN queue : queue[i].reply = NoReply}

\* A save or a full index replaces symbols and indexed edges; a rebuild takes
\* the drawn edges as well.
Reindex(syms, cs, rebuild) ==
    /\ Event
    /\ nodes' = syms \cup (nodes \cap Vids)
    /\ calls' = cs
    /\ manual' = IF rebuild THEN {} ELSE manual
    /\ behind' = TRUE /\ canvasBehind' = TRUE
    /\ queue' = [i \in DOMAIN queue |-> [queue[i] EXCEPT !.current = @ /\ i \in Unserved]]
    /\ UNCHANGED <<snapshot, graphVars, canvasVars, error, listed>>

\* The edges snapshots.load restores: those with a virtual end, and those of
\* symbols that still exist.
RestoredEdges ==
    {p \in snapshot.edges \ calls :
        Ends(p) \cap Vids \cap snapshot.nodes # {} \/ Ends(p) \subseteq nodes \cap Symbols}

\* The edges a node leaves behind.  Mutant: all of them.
LeftByNone(n) == manual
LeftBy(n) == {p \in manual : n \notin Ends(p)}

\* One request: what it changes, and its answer.
Effect(r) ==
    \/ /\ r.op = "load" /\ Kept
       /\ nodes' = nodes \cup (snapshot.nodes \cap Vids)
       /\ manual' = manual \cup RestoredEdges
    \/ r.op = "createNode" /\ nodes' = nodes \cup {r.arg} /\ UNCHANGED manual
    \/ r.op = "deleteNode" /\ nodes' = nodes \ {r.arg}
                           /\ manual' = LeftBy(r.arg)
    \/ r.op = "createEdge" /\ Ends(r.arg) \subseteq nodes
                           /\ manual' = manual \cup {r.arg} /\ UNCHANGED nodes
    \/ r.op = "deleteEdge" /\ manual' = manual \ {r.arg} /\ UNCHANGED nodes
    \/ r.op = "clear" /\ nodes' = nodes \cap Symbols /\ manual' = {}
    \/ r.op \in {"get", "expand", "note", "drop", "detail"} /\ UNCHANGED <<nodes, manual>>

Answer(r) ==
    CASE r.op = "get" -> Served
      [] r.op = "expand" /\ r.arg \in nodes ->
            [nodes |-> {r.arg} \cup UNION {Ends(p) : p \in {q \in Served.edges : r.arg \in Ends(q)}},
             edges |-> {p \in Served.edges : r.arg \in Ends(p)}]
      [] r.op = "detail" /\ Kept -> snapshot
      [] r.op \in {"expand", "detail"} -> Error
      [] OTHER -> Empty

Refused(r) ==
    \/ r.op = "createEdge" /\ ~(Ends(r.arg) \subseteq nodes)
    \/ r.op = "load" /\ ~Kept

\* The oldest request not yet served.
Serve ==
    \E i \in Unserved :
        LET r == queue[i]
        IN  /\ \A j \in Unserved : i <= j
            /\ queue' = [queue EXCEPT ![i].reply = IF Refused(r) THEN Error ELSE Answer(r)]
            /\ IF Refused(r) THEN UNCHANGED <<nodes, manual>> ELSE Effect(r)
            /\ snapshot' = IF r.op = "drop" THEN Dropped ELSE snapshot
            /\ UNCHANGED <<calls, graphVars, canvasVars, error, listed, behind,
                           canvasBehind, given, steps, fails>>

-----------------------------------------------------------------------------
(* The handlers, when their request is answered.                           *)

Head1 == Head(queue)
Rest == Tail(queue)
Answered == queue # <<>> /\ Head1.reply \notin {NoReply, Error}

\* setGraphData of something built from graphDataRef.current.
SetFromRef(g) ==
    /\ next' = g
    /\ lost' = (lost \/ ref # next)
    /\ UNCHANGED ref

\* A node the user made is no longer in the daemon.
Gone(n) == n \notin nodes

SameGraph == UNCHANGED graphVars
SameCanvas == UNCHANGED <<display, raced>>

\* A virtual directory that is gone survives the refresh.
KeepsGoneNode(g) == Synthetic(display, g) \cap VDirs # {}

\* loadGraph, and what goes on after it.
GotGraph ==
    LET g == Head1.reply
    IN  /\ Answered /\ Head1.op = "get"
        /\ next' = g /\ lost' = FALSE /\ behind' = ~Head1.current /\ UNCHANGED ref
        /\ canvasBehind' = IF Head1.then = "refresh" THEN ~Head1.current \/ KeepsGoneNode(g)
                           ELSE canvasBehind
        /\ \/ /\ Head1.then \in {"show", "cleared"}
              /\ queue' = Rest /\ SameCanvas /\ UNCHANGED stale
           \/ /\ Head1.then = "refresh"
              /\ queue' = Rest
              /\ display' = Refreshed(display, g)
              /\ stale' = stale \cap Synthetic(display, g)
              /\ raced' = InFlow(Rest)
           \/ /\ Head1.then = "add"
              /\ queue' = Rest
              /\ IF Head1.arg \in Addable(g)
                 THEN Display(Merge(display, WithNeighbors(g, Head1.arg, Head1.closure.nodes)),
                              InFlow(Rest))
                 ELSE SameCanvas
              /\ UNCHANGED stale
           \/ /\ Head1.then = "snapshot"
              /\ queue' = Append(Rest, Ask("detail", "none", NoArg, g))
              /\ SameCanvas /\ UNCHANGED stale
        /\ UNCHANGED listed

\* handleClear and handleLoadSnapshot: the canvas is emptied first.
\* Mutant: the graph is fetched before the snapshot is loaded.
AfterClearedGraphFirst(then) ==
    IF then = "cleared" THEN Plain("get", "cleared") ELSE Plain("get", "snapshot")
AfterCleared(then) ==
    IF then = "cleared" THEN Plain("get", "cleared") ELSE Plain("load", "none")

WasCleared ==
    /\ Answered /\ Head1.op = "clear"
    /\ queue' = Append(Rest, AfterCleared(Head1.then))
    /\ display' = Empty /\ stale' = {} /\ raced' = InFlow(Rest)
    /\ canvasBehind' = FALSE
    /\ SameGraph /\ UNCHANGED <<listed, behind>>

SnapshotLoaded ==
    /\ Answered /\ Head1.op = "load"
    /\ queue' = Append(Rest, Plain("get", "snapshot"))
    /\ SameGraph /\ SameCanvas /\ UNCHANGED <<stale, listed, behind, canvasBehind>>

GotSnapshot ==
    /\ Answered /\ Head1.op = "detail"
    /\ queue' = Rest
    /\ display' = SnapshotDisplay(Head1.reply)
    /\ stale' = SnapshotStale(Head1.reply, Head1.closure)
    /\ raced' = (raced \/ InFlow(Rest))
    /\ SameGraph /\ UNCHANGED <<listed, behind, canvasBehind>>

\* expandNode and handleNodeDoubleClick.
GotNeighborhood ==
    LET merged == Merge(ref, Head1.reply)
    IN  /\ Answered /\ Head1.op = "expand"
        /\ queue' = Rest
        /\ SetFromRef(merged)
        /\ Display(Expanded(display, Head1.arg, merged), InFlow(Rest))
        /\ canvasBehind' = (canvasBehind \/ RefIsOff)
        /\ UNCHANGED <<stale, listed, behind>>

\* addNodeToGraphData and the canvas; the form saves the remarks before, and
\* shows the node after even when a clear came between and removed it.
NodeCreated ==
    /\ Answered /\ Head1.op \in {"createNode", "note"}
    /\ IF Head1.then = "annotate"
       THEN /\ queue' = Append(Rest, Ask("note", "none", Head1.arg, Empty))
            /\ SameGraph /\ SameCanvas /\ UNCHANGED <<behind, canvasBehind>>
       ELSE /\ queue' = Rest
            /\ SetFromRef(IF Head1.arg \in ref.nodes THEN next
                          ELSE Merge(ref, NodeOnly(Head1.arg)))
            /\ Display(Merge(display, NodeOnly(Head1.arg)), InFlow(Rest))
            /\ behind' = (behind \/ Gone(Head1.arg))
            /\ canvasBehind' = (canvasBehind \/ Gone(Head1.arg))
    /\ UNCHANGED <<stale, listed>>

\* addEdgeToGraphData and the canvas; the form's edge is displayed when its
\* ends were at the time of the click.
AddEdge(p) ==
    /\ queue' = Rest
    /\ SetFromRef(IF p \in ref.edges THEN next ELSE Merge(ref, EdgeOnly(p)))
    /\ UNCHANGED <<stale, listed, behind, canvasBehind>>

EdgeDrawn ==
    /\ Answered /\ Head1.op = "createEdge" /\ Head1.then = "drawn"
    /\ AddEdge(Head1.arg)
    /\ Display(Merge(display, EdgeOnly(Head1.arg)), InFlow(Rest))

EdgeCreated ==
    /\ Answered /\ Head1.op = "createEdge" /\ Head1.then = "form"
    /\ AddEdge(Head1.arg)
    /\ IF Ends(Head1.arg) \subseteq Head1.closure.nodes
       THEN Display(Merge(display, EdgeOnly(Head1.arg)), InFlow(Rest))
       ELSE SameCanvas

\* The canvas without a deleted node.  Mutant: its edges stay.
DisplayWithoutNodeOnly(n) == [display EXCEPT !.nodes = @ \ {n}]
DisplayWithout(n) == WithoutNode(display, n)

NodeDeleted ==
    /\ Answered /\ Head1.op = "deleteNode"
    /\ queue' = Rest
    /\ SetFromRef(WithoutNode(ref, Head1.arg))
    /\ Display(DisplayWithout(Head1.arg), InFlow(Rest))
    /\ StaleOn(WithoutNode(display, Head1.arg))
    /\ UNCHANGED <<listed, behind, canvasBehind>>

\* An edge the index has as well stays in the daemon.
EdgeDeleted ==
    /\ Answered /\ Head1.op = "deleteEdge"
    /\ behind' = (behind \/ Head1.arg \in calls)
    /\ queue' = Rest
    /\ SetFromRef(WithoutEdge(ref, Head1.arg))
    /\ Display(WithoutEdge(display, Head1.arg), InFlow(Rest))
    /\ StaleOn(WithoutEdge(display, Head1.arg))
    /\ UNCHANGED <<listed, canvasBehind>>

SnapshotDeleted ==
    /\ Answered /\ Head1.op = "drop"
    /\ queue' = Rest
    /\ listed' = FALSE
    /\ SameGraph /\ SameCanvas /\ UNCHANGED <<stale, behind, canvasBehind>>

\* loadGraph takes the error away when it is called.
LoadsGraph(r) == r.op = "load" \/ (r.op = "clear" /\ r.then = "cleared")

Handle ==
    /\ \/ GotGraph \/ WasCleared \/ SnapshotLoaded \/ GotSnapshot \/ GotNeighborhood
       \/ NodeCreated \/ EdgeDrawn \/ EdgeCreated \/ NodeDeleted \/ EdgeDeleted \/ SnapshotDeleted
    /\ error' = (error /\ ~LoadsGraph(Head1))
    /\ UNCHANGED <<daemonVars, shown, given, steps, fails>>

-----------------------------------------------------------------------------
(* The handlers, when their request fails: refused by the daemon, or, up   *)
(* to MaxFails times, timed out or cut off, whether carried out or not.    *)

\* loadGraph reports no failure to its caller: it returns an empty graph.
FailedGraph ==
    /\ Head1.op = "get"
    /\ error' = TRUE
    /\ queue' = IF Head1.then = "snapshot"
                THEN Append(Rest, Ask("detail", "none", NoArg, Empty)) ELSE Rest
    /\ \/ /\ Head1.then = "refresh"
          /\ Display(Refreshed(display, Empty), FALSE)
          /\ stale' = stale \cap Synthetic(display, Empty)
       \/ /\ Head1.then = "add" /\ Head1.arg \in Addable(Empty)
          /\ Display(Merge(display, NodeOnly(Head1.arg)), InFlow(Rest))
          /\ UNCHANGED stale
       \/ /\ Head1.then # "refresh" /\ (Head1.then = "add" => Head1.arg \notin Addable(Empty))
          /\ SameCanvas /\ UNCHANGED stale

\* expandNode returns what it has.
FailedExpand ==
    /\ Head1.op = "expand"
    /\ queue' = Rest
    /\ Display(Expanded(display, Head1.arg, ref), InFlow(Rest))
    /\ UNCHANGED <<stale, error>>

FailedOther ==
    /\ Head1.op \notin {"get", "expand"}
    /\ queue' = Rest
    /\ SameCanvas /\ UNCHANGED <<stale, error>>

RequestFails ==
    /\ queue # <<>>
    /\ IF Head1.reply = Error THEN UNCHANGED fails
       ELSE fails < MaxFails /\ fails' = fails + 1
    /\ FailedGraph \/ FailedExpand \/ FailedOther
    /\ behind' = (behind \/ Head1.op # "expand")
    /\ canvasBehind' = TRUE
    /\ UNCHANGED <<daemonVars, graphVars, shown, listed, given, steps>>

-----------------------------------------------------------------------------
Next ==
    \/ LoadGraph \/ ClickClear \/ ClickLoadSnapshot \/ ClickDeleteSnapshot \/ Capture
    \/ \E n \in Node : DoubleClick(n) \/ AddToCanvas(n) \/ RemoveFromCanvas(n)
    \/ \E v \in Vids : CreateNode(v) \/ DeleteNode(v)
    \/ \E n \in Node, parent \in Symbols \cup Files \cup Dirs : AddParent(n, parent)
    \/ \E p \in Pairs : DrawEdge(p) \/ CreateEdge(p) \/ DeleteEdge(p)
    \/ \E syms \in SUBSET Symbols : \E cs \in SUBSET {p \in Pairs : Ends(p) \subseteq syms} :
          \E rebuild \in BOOLEAN : Reindex(syms, cs, rebuild)
    \/ Serve \/ Handle \/ RequestFails \/ Render

Spec == Init /\ [][Next]_vars

-----------------------------------------------------------------------------
Request ==
    [op : {"get", "expand", "clear", "load", "detail", "createNode", "note", "createEdge",
           "deleteNode", "deleteEdge", "drop"},
     then : {"show", "refresh", "cleared", "snapshot", "add", "place", "annotate", "drawn",
             "form", "none"},
     arg : Node \cup Pairs \cup {NoArg}, closure : Graph,
     reply : Graph \cup {NoReply, Error}, current : BOOLEAN]

TypeOK ==
    /\ nodes \subseteq Symbols \cup Vids /\ calls \subseteq Pairs /\ manual \subseteq Pairs
    /\ snapshot \in Graph \cup {NoGraph, Dropped}
    /\ {ref, next, shown, display} \subseteq Graph
    /\ stale \subseteq Node \cup Pairs
    /\ queue \in Seq(Request)
    /\ {error, listed, behind, canvasBehind, lost, raced} \subseteq BOOLEAN
    /\ given \subseteq Vids /\ steps \in 0 .. MaxSteps /\ fails \in 0 .. MaxFails

AtRest == queue = <<>> /\ ref = next /\ shown = display

\* When all is answered and rendered, the view has the daemon's graph, however
\* creations, deletions, expansions and loads overlapped, unless the index
\* changed or a request failed since the last load (`behind') or a callback
\* wrote over an update not yet rendered (`lost').
GraphDataInSync == AtRest /\ ~behind /\ ~lost => ref = Served

\* Then the canvas shows no node and no edge the daemon does not have, but
\* placeholders and what is marked stale, and marks nothing stale that is
\* there, unless the index changed or a request failed since the last refresh
\* or something was put on the canvas while clear or load were under way, or
\* that refresh left a virtual directory there that is gone.
CanvasInSync ==
    AtRest /\ ~canvasBehind /\ ~raced =>
        /\ shown.nodes \subseteq nodes \cup stale \cup Files \cup Dirs
        /\ shown.edges \subseteq Served.edges \cup stale
        /\ stale \cap (nodes \cup Served.edges) = {}

\* When a snapshot was loaded, its virtual nodes, the edges whose ends are there
\* and the placeholders of files and directories the graph lists are displayed
\* as live ones: the daemon had restored them all before the graph they are
\* looked up in was fetched, unless a request failed on the way or another handler
\* changed the canvas.
SnapshotIsLive ==
    [][GotSnapshot /\ ~raced /\ ~canvasBehind =>
          \A x \in stale' :
             IF x \in Pairs THEN ~(Ends(x) \subseteq nodes)
             ELSE x \in (Symbols \ nodes) \cup ((Files \cup Dirs) \ Places(nodes))]_vars

-----------------------------------------------------------------------------
(* The daemon of this module is DaemonGraph, which GraphStore implements.  *)

D == INSTANCE DaemonGraph WITH
        drawn <- manual, kept <- IF Kept THEN {snapshot} ELSE {}

\* What the view assumes of the daemon is what its users may assume: a request
\* the view sees answered, refused or lost took effect at once or not at all.
ImplementsDaemonGraph == D!Spec
=============================================================================
