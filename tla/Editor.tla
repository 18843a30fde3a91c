-------------------------------- MODULE Editor --------------------------------
(***************************************************************************)
(* The forms of the graph view in which the user edits what the daemon     *)
(* keeps: NodeInfo and EdgeInfo of                                         *)
(* graph-viz/src/components/InfoPanel/InfoPanel.tsx, one of which shows    *)
(* the selection (hooks/useSelection.ts), and PromptPreviewModal.tsx,      *)
(* which covers the whole view while it is open.                           *)
(*                                                                         *)
(* A form copies what it edits when it is mounted or when React runs its   *)
(* effect, and not when the graph is refreshed; a save goes on while the   *)
(* user types or selects something else, and what it does at its end it    *)
(* does to the form that is there then, if it is still the same component. *)
(* Requests are carried out and answered in the order they are sent, and   *)
(* as nobody else writes what they write, a request counts as carried out  *)
(* when it is answered.  The deletion of nodes and edges is in GraphView.  *)
(*                                                                         *)
(* A document is a node, an edge or the prompt of a snapshot.  A text is   *)
(* the document it began as with the number of what was typed last: 0 is   *)
(* no annotation, or the prompt generated from the snapshot.               *)
(***************************************************************************)
EXTENDS Integers, Sequences

CONSTANTS
    Nodes, Edges, Snapshots,
    Virtual,    \* the nodes with a label and a directory of the user's
    None,
    Labels,     \* what may be typed for a label
    FirstLabel, \* the label of a new node
    NoLabel,    \* nothing, or blanks
    TypedDirs,  \* directories the user types: sequences of names, <<>> for none
    MaxSteps,   \* bound: what the user does
    MaxFails    \* bound: requests that are refused or time out

\* What paths are made of.
Names == Labels \cup {"virtual"} \cup UNION {{d[i] : i \in DOMAIN d} : d \in TypedDirs}

ASSUME EditorAssumption ==
    /\ Virtual \subseteq Nodes
    /\ Nodes \cap Edges = {} /\ (Nodes \cup Edges) \cap Snapshots = {}
    /\ None \notin Nodes \cup Edges \cup Snapshots
    /\ FirstLabel \in Labels /\ NoLabel \in Labels \ {FirstLabel}
    /\ TypedDirs \subseteq Seq(Names)
    /\ MaxSteps \in Nat /\ MaxFails \in Nat

VARIABLES
    stored,     \* what the daemon has of each document
    graph,      \* graphData: what the view was last told of nodes and edges
    broken,     \* the error page is shown instead of everything else
    panel,      \* the state of NodeInfo or EdgeInfo
    modal,      \* the state of PromptPreviewModal
    calls,      \* requests without an answer, oldest first
    \* History.
    asked,      \* what the user last asked to be stored
    moved,      \* nodes updated by a save in which no other directory was typed
    spoiled,    \* documents saved out of a form that was not theirs, or in vain
    steps, fails

vars == <<stored, graph, broken, panel, modal, calls, asked, moved, spoiled, steps, fails>>

Shown == Nodes \cup Edges
Docs == Shown \cup Snapshots
Fields == {"label", "dir", "text"}
Blank(d) == [label |-> FirstLabel, dir |-> <<>>, text |-> <<d, 0>>]

\* virtualNodeFilePathSQL: a node is shown under a path made of its directory and label.
FilePath(v) == (IF v.dir = <<>> THEN <<"virtual">> ELSE v.dir) \o <<v.label>>

PanelOps == {"update", "annotate", "remark"}
ModalOps == {"get", "prompt", "reset"}
\* `live': the component that sent it is still mounted.
Call(op, d, v, gives) == [op |-> op, doc |-> d, val |-> v, gives |-> gives, live |-> TRUE]
Refresh == Call("graph", None, Blank(None), {})

CallsOn(d) == {i \in DOMAIN calls : calls[i].doc = d}
Forgotten(cs, ops) ==
    [i \in DOMAIN cs |-> [cs[i] EXCEPT !.live = @ /\ cs[i].op \notin ops]]
Awaited(ops) == \E i \in DOMAIN calls : calls[i].op \in ops /\ calls[i].live

-----------------------------------------------------------------------------
(* What the forms hold.                                                    *)

NoPanel == [of |-> None, editing |-> FALSE, saving |-> FALSE, typed |-> {}, odd |-> FALSE,
            input |-> [label |-> FirstLabel, dir |-> <<>>, text |-> <<None, 0>>]]

\* The form as a new component, or its reset effect, fills it from the graph.
\* `odd': from a graph that is older than what is stored, or about to be.
Outdated(d, g) == g[d] # stored[d] \/ CallsOn(d) # {}
Filled(d, g, saving) ==
    [of |-> d, editing |-> FALSE, saving |-> saving, typed |-> {}, odd |-> Outdated(d, g),
     input |-> [g[d] EXCEPT !.dir = FilePath(g[d])]]

SameComponent(d) == {panel.of, d} \subseteq Nodes \/ {panel.of, d} \subseteq Edges

NoModal == [open |-> None, prompt |-> <<None, 0>>, original |-> <<None, 0>>,
            custom |-> FALSE, loading |-> TRUE, saving |-> FALSE, odd |-> FALSE]

Init ==
    /\ stored = [d \in Docs |-> Blank(d)] /\ graph = [d \in Shown |-> Blank(d)]
    /\ broken = FALSE
    /\ panel = NoPanel /\ modal = NoModal
    /\ calls = <<>>
    /\ asked = stored /\ moved = {} /\ spoiled = {}
    /\ steps = 0 /\ fails = 0

Step == steps < MaxSteps /\ steps' = steps + 1
AtPanel == Step /\ ~broken /\ modal.open = None
AtModal == Step /\ ~broken /\ modal.open # None

Send(c) == calls' = Append(calls, c)
history == <<asked, moved, spoiled>>

-----------------------------------------------------------------------------
(* The info panel.                                                         *)

\* selectNode, selectEdge, clearSelection: another kind of selection is another
\* component, another node or edge only runs the effect, the same one nothing.
Select(d) ==
    /\ AtPanel
    /\ d # panel.of
    /\ panel' = IF d = None THEN NoPanel
                ELSE Filled(d, graph, SameComponent(d) /\ panel.saving)
    /\ calls' = IF SameComponent(d) THEN calls ELSE Forgotten(calls, PanelOps)
    /\ UNCHANGED <<stored, graph, broken, modal, history, fails>>

Edit ==
    /\ AtPanel
    /\ panel.of # None /\ ~panel.editing
    /\ panel' = [panel EXCEPT !.editing = TRUE]
    /\ UNCHANGED <<stored, graph, broken, modal, calls, history, fails>>

\* Mutant: the inputs of a virtual node are there for every node.
TypeableAlways(d) == Fields
Typeable(d) == IF d \in Virtual THEN Fields ELSE {"text"}
Typings(f) ==
    CASE f = "label" -> Labels
      [] f = "dir"   -> TypedDirs
      [] f = "text"  -> {<<panel.input.text[1], k>> : k \in 1..2}

\* The inputs stay enabled while a save is under way.
Type(f, x) ==
    /\ AtPanel
    /\ panel.editing /\ f \in Typeable(panel.of)
    /\ x # panel.input[f]
    /\ panel' = [panel EXCEPT !.input[f] = x, !.typed = @ \cup {f}]
    /\ UNCHANGED <<stored, graph, broken, modal, calls, history, fails>>

\* virtualDirInput is not taken back.
Cancelled(p) ==
    [p EXCEPT !.editing = FALSE, !.typed = {},
              !.input = [graph[p.of] EXCEPT !.dir = p.input.dir],
              !.odd = Outdated(p.of, graph) \/ p.input.dir # FilePath(graph[p.of])]
Cancel ==
    /\ AtPanel
    /\ panel.editing /\ ~panel.saving
    /\ panel' = Cancelled(panel)
    /\ UNCHANGED <<stored, graph, broken, modal, calls, history, fails>>

\* The updates of handleSave: what differs from the node of the last render, but
\* no label that was cleared.
Updates(d) ==
    {f \in {"label", "dir"} :
        /\ d \in Virtual
        /\ panel.input[f] # IF f = "dir" THEN FilePath(graph[d]) ELSE graph[d][f]
        /\ f = "label" => panel.input.label # NoLabel}

\* What the user asks for: who types the directory that is shown asks for none,
\* and who clears the label for the one there is.
Asks(d) ==
    {f \in panel.typed :
        /\ f = "dir" => f \in Updates(d)
        /\ f = "label" => panel.input.label # NoLabel}

Save ==
    LET d == panel.of
        gives == Updates(d)
        op == IF d \in Edges THEN "remark" ELSE IF gives = {} THEN "annotate" ELSE "update"
    IN  /\ AtPanel
        /\ panel.editing /\ ~panel.saving
        /\ panel' = [panel EXCEPT !.saving = TRUE, !.typed = {}]
        /\ Send(Call(op, d, panel.input, gives))
        /\ asked' = [asked EXCEPT ![d] =
                        [f \in Fields |-> IF f \in Asks(d) THEN panel.input[f] ELSE @[f]]]
        /\ moved' = IF gives # {} /\ "dir" \notin Asks(d) THEN moved \cup {d} ELSE moved
        /\ spoiled' = IF panel.odd \/ Outdated(d, graph) THEN spoiled \cup {d} ELSE spoiled
        /\ UNCHANGED <<stored, graph, broken, modal, fails>>

-----------------------------------------------------------------------------
(* The prompt of a snapshot.  The component stays mounted while the        *)
(* dropdown is open, with its modal open or not.                           *)

Open(s) ==
    /\ Step /\ ~broken
    /\ modal.open = None
    /\ modal' = [modal EXCEPT !.open = s, !.loading = TRUE]
    /\ Send(Call("get", s, Blank(s), {}))
    /\ UNCHANGED <<stored, graph, broken, panel, history, fails>>

Close ==
    /\ AtModal
    /\ modal' = [modal EXCEPT !.open = None]
    /\ UNCHANGED <<stored, graph, broken, panel, calls, history, fails>>

\* A click beside the dropdown, on its cross, on Load or on the Snapshots button,
\* which the modal covers.  With nothing to unmount nothing changes.
CloseDropdown ==
    /\ AtPanel
    /\ modal # NoModal \/ Awaited(ModalOps)
    /\ modal' = NoModal
    /\ calls' = Forgotten(calls, ModalOps)
    /\ UNCHANGED <<stored, graph, broken, panel, history, fails>>

TypePrompt(k) ==
    /\ AtModal
    /\ ~modal.loading
    /\ k # modal.prompt[2]
    /\ modal' = [modal EXCEPT !.prompt[2] = k]
    /\ UNCHANGED <<stored, graph, broken, panel, calls, history, fails>>

\* What is saved for a snapshot is another's while its own is not loaded.
OwnLoaded == ~modal.odd /\ \A i \in DOMAIN calls : calls[i].op # "get"

SavePrompt ==
    LET s == modal.open
    IN  /\ AtModal
        /\ ~modal.loading /\ ~modal.saving /\ modal.prompt # modal.original
        /\ modal' = [modal EXCEPT !.saving = TRUE]
        /\ Send(Call("prompt", s, [Blank(s) EXCEPT !.text = modal.prompt], {}))
        /\ asked' = [asked EXCEPT ![s].text = <<s, modal.prompt[2]>>]
        /\ spoiled' = IF OwnLoaded THEN spoiled ELSE spoiled \cup {s}
        /\ UNCHANGED <<stored, graph, broken, panel, moved, fails>>

Reset ==
    LET s == modal.open
    IN  /\ AtModal
        /\ ~modal.loading /\ ~modal.saving /\ modal.custom
        /\ modal' = [modal EXCEPT !.saving = TRUE]
        /\ Send(Call("reset", s, Blank(s), {}))
        /\ asked' = [asked EXCEPT ![s] = Blank(s)]
        /\ UNCHANGED <<stored, graph, broken, panel, moved, spoiled, fails>>

-----------------------------------------------------------------------------
(* Requests and their answers.                                             *)

\* handleUpdateNode overwrites the directory also when the request has none.
Executed(c) ==
    CASE c.op = "update" ->
            [stored EXCEPT
                ![c.doc].label = IF "label" \in c.gives THEN c.val.label ELSE @,
                ![c.doc].dir = IF "dir" \in c.gives THEN c.val.dir ELSE <<>>]
      [] c.op \in {"annotate", "remark", "prompt"} ->
            [stored EXCEPT ![c.doc].text = c.val.text]
      [] c.op = "reset" -> [stored EXCEPT ![c.doc] = Blank(c.doc)]
      [] OTHER -> stored

\* loadGraph takes the error page away before it has the new graph.
Reloading ==
    /\ broken' = FALSE
    /\ panel' = IF broken /\ panel.of # None THEN Filled(panel.of, graph, FALSE) ELSE panel

\* The Refresh and Retry buttons, and graphRefreshRequested after an index.
RequestRefresh ==
    /\ Step
    /\ Reloading
    /\ Send(Refresh)
    /\ UNCHANGED <<stored, graph, modal, history, fails>>

\* setEditing(false) and setSaving(false), of whatever the component shows by now.
Closed(p) ==
    [p EXCEPT !.editing = FALSE, !.saving = FALSE, !.typed = {}, !.odd = @ \/ p.typed # {}]

\* EdgeInfo's effect runs for every new annotation object: not from none to none.
Rerun(e) == e \in Edges /\ ~({graph[e].text, stored[e].text} \subseteq {<<e, 0>>})

Answered(op) == calls # <<>> /\ Head(calls).op = op /\ stored' = Executed(Head(calls))

\* Mutant: the second request of a save reads the form and not what was saved.
UpdatedFromForm ==
    /\ Answered("update")
    /\ calls' = Append(Tail(calls), [Head(calls) EXCEPT !.op = "annotate", !.val = panel.input])
    /\ UNCHANGED <<graph, broken, panel, modal, history, steps, fails>>
Updated ==
    /\ Answered("update")
    /\ calls' = Append(Tail(calls), [Head(calls) EXCEPT !.op = "annotate"])
    /\ UNCHANGED <<graph, broken, panel, modal, history, steps, fails>>

\* Mutant: onUpdate is not called.
SavedUnrefreshed ==
    /\ Answered("annotate") \/ Answered("remark")
    /\ calls' = Tail(calls)
    /\ panel' = IF Head(calls).live THEN Closed(panel) ELSE panel
    /\ UNCHANGED <<graph, broken, modal, history, steps, fails>>
Saved ==
    /\ Answered("annotate") \/ Answered("remark")
    /\ calls' = Append(Tail(calls), Refresh)
    /\ IF Head(calls).live THEN panel' = Closed(panel) /\ UNCHANGED broken ELSE Reloading
    /\ UNCHANGED <<graph, modal, history, steps, fails>>

GotGraph ==
    /\ Answered("graph")
    /\ graph' = [d \in Shown |-> stored[d]]
    /\ panel' = IF ~broken /\ Rerun(panel.of) THEN Filled(panel.of, graph', panel.saving)
                ELSE panel
    /\ calls' = Tail(calls)
    /\ UNCHANGED <<broken, modal, history, steps, fails>>

GotPrompt ==
    LET c == Head(calls)
        text == stored[c.doc].text
    IN  /\ Answered("get")
        /\ modal' = IF c.live
                    THEN [modal EXCEPT !.prompt = text, !.original = text, !.loading = FALSE,
                                       !.custom = text # <<c.doc, 0>>, !.odd = FALSE]
                    ELSE modal
        /\ calls' = Tail(calls)
        /\ UNCHANGED <<graph, broken, panel, history, steps, fails>>

PromptSaved ==
    /\ Answered("prompt")
    /\ modal' = IF Head(calls).live
                THEN [modal EXCEPT !.original = Head(calls).val.text, !.custom = TRUE,
                                   !.saving = FALSE]
                ELSE modal
    /\ calls' = Tail(calls)
    /\ UNCHANGED <<graph, broken, panel, history, steps, fails>>

PromptReset ==
    LET c == Head(calls)
    IN  /\ Answered("reset")
        /\ modal' = IF c.live
                    THEN [modal EXCEPT !.prompt = <<c.doc, 0>>, !.original = <<c.doc, 0>>,
                                       !.custom = FALSE, !.saving = FALSE]
                    ELSE modal
        /\ calls' = Tail(calls)
        /\ UNCHANGED <<graph, broken, panel, history, steps, fails>>

\* Refused, or carried out with the answer lost.
Failed(ops) ==
    /\ fails < MaxFails /\ fails' = fails + 1
    /\ calls # <<>> /\ Head(calls).op \in ops
    /\ stored' \in {stored, Executed(Head(calls))}
    /\ UNCHANGED <<graph, asked, moved, steps>>

\* Mutant: setSaving(false) stands in the try block.
SaveFailsDisabled ==
    /\ Failed(PanelOps)
    /\ spoiled' = spoiled \cup {Head(calls).doc}
    /\ calls' = Tail(calls)
    /\ UNCHANGED <<broken, panel, modal>>
SaveFails ==
    /\ Failed(PanelOps)
    /\ panel' = [panel EXCEPT !.saving = @ /\ ~Head(calls).live]
    /\ spoiled' = spoiled \cup {Head(calls).doc}
    /\ calls' = Tail(calls)
    /\ UNCHANGED <<broken, modal>>

PromptFails ==
    LET c == Head(calls)
    IN  /\ Failed(ModalOps)
        /\ modal' = IF ~c.live THEN modal
                    ELSE IF c.op = "get" THEN [modal EXCEPT !.loading = FALSE, !.odd = TRUE]
                    ELSE [modal EXCEPT !.saving = FALSE]
        /\ spoiled' = IF c.op = "get" THEN spoiled ELSE spoiled \cup {c.doc}
        /\ calls' = Tail(calls)
        /\ UNCHANGED <<broken, panel>>

\* The error page unmounts both forms; the selection stays.
GraphFails ==
    /\ Failed({"graph"})
    /\ broken' = TRUE
    /\ panel' = [NoPanel EXCEPT !.of = panel.of] /\ modal' = NoModal
    /\ calls' = Forgotten(Tail(calls), PanelOps \cup ModalOps)
    /\ UNCHANGED spoiled

Next ==
    \/ \E d \in Shown \cup {None} : Select(d)
    \/ Edit \/ Cancel \/ Save
    \/ \E f \in Fields : \E x \in Typings(f) : Type(f, x)
    \/ \E s \in Snapshots : Open(s)
    \/ \E k \in 1..2 : TypePrompt(k)
    \/ Close \/ CloseDropdown \/ SavePrompt \/ Reset
    \/ RequestRefresh
    \/ Updated \/ Saved \/ GotGraph \/ GotPrompt \/ PromptSaved \/ PromptReset
    \/ SaveFails \/ PromptFails \/ GraphFails

Spec == Init /\ [][Next]_vars

-----------------------------------------------------------------------------
(* Properties.                                                             *)

Texts == (Docs \cup {None}) \X (0..2)
Value == [label : Labels, dir : Seq(Names), text : Texts]

\* Types.  What is typed is in a form that is being edited, and only a virtual
\* node's label and directory can be.
TypeOK ==
    /\ stored \in [Docs -> Value] /\ graph \in [Shown -> Value] /\ asked \in [Docs -> Value]
    /\ broken \in BOOLEAN
    /\ panel \in [of : Shown \cup {None}, editing : BOOLEAN, saving : BOOLEAN,
                  typed : SUBSET (IF panel.of \in Virtual THEN Fields ELSE {"text"}),
                  odd : BOOLEAN, input : Value]
    /\ panel.typed # {} => panel.editing
    /\ panel.editing => panel.of # None
    /\ modal \in [open : Snapshots \cup {None}, prompt : Texts, original : Texts,
                  custom : BOOLEAN, loading : BOOLEAN, saving : BOOLEAN, odd : BOOLEAN]
    /\ calls \in Seq([op : PanelOps \cup ModalOps \cup {"graph"}, doc : Docs \cup {None},
                      val : Value, gives : SUBSET Fields, live : BOOLEAN])
    /\ moved \subseteq Virtual /\ spoiled \subseteq Docs
    /\ steps \in 0..MaxSteps /\ fails \in 0..MaxFails

\* A button that a request disables, and the page it keeps from showing, come
\* back: whatever was selected or opened meanwhile, the request that will enable
\* them is still under way and still belongs to the form.
DisabledOnlyWhileAwaited ==
    /\ panel.saving => Awaited(PanelOps)
    /\ modal.saving => Awaited({"prompt", "reset"})
    /\ modal.open # None /\ modal.loading => Awaited({"get"})

\* Once the requests about a document are answered, it is what the user asked
\* for: the fields typed in the form, in the document it was typed for, and the
\* other fields as they were.  Except for what was saved out of a form that was
\* filled or compared with an old graph or before its prompt was there, while
\* another save of it was under way, or in vain; and except for the directory of a node
\* that was saved with another label, or out of the form that changed it.
AskedIsStored ==
    \A d \in Docs \ spoiled :
        CallsOn(d) = {} =>
            /\ stored[d].text = asked[d].text /\ stored[d].label = asked[d].label
            /\ d \notin moved => stored[d].dir = asked[d].dir

\* When no request is under way the forms show what is stored: the graph has
\* been refreshed after every save, and a text that is not being edited is not
\* one that was typed and never saved.  A form that was filled from an older
\* graph, or closed by a save with something typed since, is excepted (`odd').
ShownIsStored ==
    calls = <<>> /\ ~broken =>
        /\ panel.of \notin spoiled \cup {None} =>
            /\ graph[panel.of] = stored[panel.of]
            /\ ~panel.editing /\ ~panel.odd => panel.input.text = stored[panel.of].text
        /\ modal.open \notin spoiled \cup {None} /\ ~modal.odd
                /\ modal.prompt = modal.original =>
            /\ modal.prompt = stored[modal.open].text
            /\ modal.custom <=> stored[modal.open].text # <<modal.open, 0>>
=============================================================================
