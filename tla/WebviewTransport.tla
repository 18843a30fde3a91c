--------------------------- MODULE WebviewTransport ---------------------------
(***************************************************************************)
(* The graph view's path to the daemon: WebviewTransport in the webview    *)
(* (graph-viz/src/services/webviewTransport.ts) posts a request to the     *)
(* extension, whose panel (build-with-me/src/ui/panels/graphPanel.ts)      *)
(* makes it a call of the API client and posts the result back.            *)
(*                                                                         *)
(* A panel that was closed and opened again is another webview: another    *)
(* transport that counts its requests from 1, while handlers of requests   *)
(* of the old one still wait for the daemon.  VS Code drops the messages   *)
(* from and to a disposed webview and keeps the others in order.  Panels   *)
(* that are opened while the API server starts are open side by side.      *)
(*                                                                         *)
(* The API client is what Rpc promises of it, and the graph view is        *)
(* promised the same: Rpc again.  No property needs the daemon to run, so  *)
(* a call of a stopped client is just refused.                             *)
(***************************************************************************)
EXTENDS Integers, Sequences

CONSTANTS
    Requests,   \* invocations of sendRequest in a webview
    MaxPanels   \* bound: how many panels are ever opened

ASSUME PanelsAssumption == MaxPanels \in Nat \ {0}

VARIABLES
    currentPanel,   \* the panel the module knows, NoPanel for undefined
    opened,         \* panels opened so far: 1..opened
    starting,       \* calls of openGraphPanel that wait for the API server
    alive,          \* panels that are not disposed
    doubled,        \* history: two panels were open at a time
    \* Each webview.
    requestId,      \* WebviewTransport.requestId
    pending,        \* WebviewTransport.pending: entries [id, request]
    timers,         \* requests whose timeout is armed
    outcome,        \* state of the request's promise
    panelOf,        \* the webview a request was made in
    \* Between webview and extension.
    toExtension,    \* apiRequest messages of a panel
    toView,         \* apiResponse messages to a panel
    \* The extension.
    handling,       \* requests in handleApiRequest
    callOf,         \* the entry a handler was called with
    target,         \* the panel a handler was called with
    \* The API client.
    status, done, confused

viewVars == <<requestId, pending, timers, outcome, panelOf>>
panelVars == <<currentPanel, opened, starting, alive, doubled>>
extVars == <<handling, callOf, target>>
clientVars == <<status, done, confused>>
vars == <<panelVars, viewVars, toExtension, toView, extVars, clientVars>>

NoPanel == 0
Panels == 1 .. MaxPanels
NoRequest == "none"

ASSUME RequestsAssumption == NoRequest \notin Requests

Client == INSTANCE Rpc WITH Calls <- Requests

Entry == [id : Nat \ {0}, request : Requests]
NoEntry == [id |-> 0, request |-> NoRequest]
Waiting(r) == outcome[r] = "waiting"

Init ==
    /\ currentPanel = NoPanel /\ opened = 0 /\ starting = 0
    /\ alive = {} /\ doubled = FALSE
    /\ requestId = [p \in Panels |-> 0] /\ pending = [p \in Panels |-> {}]
    /\ timers = {} /\ outcome = [r \in Requests |-> "unsent"]
    /\ panelOf = [r \in Requests |-> NoPanel]
    /\ toExtension = [p \in Panels |-> <<>>] /\ toView = [p \in Panels |-> <<>>]
    /\ handling = {} /\ callOf = [r \in Requests |-> NoEntry]
    /\ target = [r \in Requests |-> NoPanel]
    /\ Client!Init

-----------------------------------------------------------------------------
(* The panel.                                                              *)

\* The panel is created; the webview loads its script anew.
CreatePanel ==
    /\ opened' = opened + 1
    /\ currentPanel' = opened'
    /\ alive' = alive \cup {opened'}
    /\ doubled' = (doubled \/ alive # {})

OnlyPanels == UNCHANGED <<viewVars, toExtension, toView, extVars, clientVars>>

\* openGraphPanel when no panel is known; with one it only reveals it.  It
\* goes on at once when the API server runs, and starts it otherwise.
Open ==
    /\ currentPanel = NoPanel
    /\ opened + starting < MaxPanels
    /\ \/ CreatePanel /\ UNCHANGED starting
       \/ starting' = starting + 1 /\ UNCHANGED <<currentPanel, opened, alive, doubled>>
    /\ OnlyPanels

\* The server runs, or could not be started.
Started ==
    /\ starting > 0
    /\ starting' = starting - 1
    /\ CreatePanel \/ UNCHANGED <<currentPanel, opened, alive, doubled>>
    /\ OnlyPanels

\* onDidDispose, of whatever panel.  The webview goes with all that waits in
\* it, which nobody is left to see; the handlers of the extension go on.
Dispose(p) ==
    /\ p \in alive
    /\ alive' = alive \ {p}
    /\ currentPanel' = NoPanel
    /\ pending' = [pending EXCEPT ![p] = {}]
    /\ timers' = {r \in timers : panelOf[r] # p}
    /\ outcome' = [r \in Requests |->
                      IF panelOf[r] = p /\ Waiting(r) THEN "failed" ELSE outcome[r]]
    /\ toExtension' = [toExtension EXCEPT ![p] = <<>>]
    /\ toView' = [toView EXCEPT ![p] = <<>>]
    /\ UNCHANGED <<opened, starting, doubled, requestId, panelOf, extVars, clientVars>>

-----------------------------------------------------------------------------
(* WebviewTransport.                                                       *)

\* ++this.requestId.  Mutant: a post-increment.
NextIdPostIncrement(p) == requestId[p]
NextId(p) == requestId[p] + 1

\* The timeout, armed before the message is posted.  Mutant: it is not.
ArmNothing(r) == timers
Arm(r) == timers \cup {r}

\* request.
Request(p, r) ==
    LET entry == [id |-> NextId(p), request |-> r]
    IN  /\ p \in alive
        /\ outcome[r] = "unsent"
        /\ requestId' = [requestId EXCEPT ![p] = @ + 1]
        /\ pending' = [pending EXCEPT ![p] = @ \cup {entry}]
        /\ timers' = Arm(r)
        /\ outcome' = [outcome EXCEPT ![r] = "waiting"]
        /\ panelOf' = [panelOf EXCEPT ![r] = p]
        /\ toExtension' = [toExtension EXCEPT ![p] = Append(@, entry)]
        /\ UNCHANGED <<panelVars, toView, extVars, clientVars>>

Timeout(r) ==
    /\ r \in timers
    /\ timers' = timers \ {r}
    /\ pending' = [pending EXCEPT ![panelOf[r]] = {entry \in @ : entry.request # r}]
    /\ outcome' = [outcome EXCEPT ![r] = "failed"]
    /\ UNCHANGED <<panelVars, requestId, panelOf, toExtension, toView, extVars,
                   clientVars>>

\* handleResponse: the entry with the id of the response, if there is one.
HandleResponse(p) ==
    LET response == Head(toView[p])
        found == {entry \in pending[p] : entry.id = response.id}
        called == {entry.request : entry \in found}
    IN  /\ toView[p] # <<>>
        /\ toView' = [toView EXCEPT ![p] = Tail(@)]
        /\ pending' = [pending EXCEPT ![p] = @ \ found]
        /\ timers' = timers \ called
        /\ outcome' = [r \in Requests |->
                          IF r \notin called THEN outcome[r]
                          ELSE IF status[response.request] = "answered"
                               THEN "answered" ELSE "failed"]
        /\ UNCHANGED <<panelVars, requestId, panelOf, toExtension, extVars, clientVars>>

-----------------------------------------------------------------------------
(* handleApiRequest.                                                       *)

\* The message arrives: the call is made, or refused at once.  The handler
\* keeps the panel that is current, whichever sent the message, if any is.
Receive(p) ==
    LET entry == Head(toExtension[p])
        r == entry.request
    IN  /\ toExtension[p] # <<>>
        /\ toExtension' = [toExtension EXCEPT ![p] = Tail(@)]
        /\ handling' = handling \cup {r}
        /\ callOf' = [callOf EXCEPT ![r] = entry]
        /\ target' = [target EXCEPT ![r] = currentPanel]
        /\ Client!Send(r) \/ Client!Refuse(r)
        /\ UNCHANGED <<panelVars, viewVars, toView>>

\* What happens to the call meanwhile.
CallGoesOn ==
    /\ \/ \E r \in Requests : Client!CarryOut(r) \/ Client!Answer(r)
       \/ \E rs \in SUBSET Requests : Client!Fail(rs)
    /\ UNCHANGED <<panelVars, viewVars, toExtension, toView, extVars>>

\* The panel to post to.  Mutant: the panel that is open now.
PostToCurrent(r) == currentPanel
PostTo(r) == target[r]

\* The call settled: the result is posted to the panel, which may be gone; what
\* that throws is caught.
Post(r) ==
    /\ r \in handling
    /\ status[r] \notin {"unsent", "waiting"}
    /\ handling' = handling \ {r}
    /\ toView' = IF PostTo(r) \in alive
                 THEN [toView EXCEPT ![PostTo(r)] = Append(@, callOf[r])]
                 ELSE toView
    /\ UNCHANGED <<panelVars, viewVars, toExtension, callOf, target, clientVars>>

-----------------------------------------------------------------------------
Next ==
    \/ Open \/ Started
    \/ \E p \in Panels : Dispose(p) \/ HandleResponse(p) \/ Receive(p)
    \/ \E p \in Panels, r \in Requests : Request(p, r)
    \/ \E r \in Requests : Timeout(r) \/ Post(r)
    \/ CallGoesOn

\* The webview's timers run; nothing else is relied on, so the extension and
\* the daemon may hang.
Fairness == \A r \in Requests : WF_vars(Timeout(r))

Spec == Init /\ [][Next]_vars
FairSpec == Spec /\ Fairness

-----------------------------------------------------------------------------
TypeOK ==
    /\ currentPanel \in {NoPanel, opened} /\ opened \in 0 .. MaxPanels
    /\ starting \in 0 .. MaxPanels - opened
    /\ alive \subseteq 1 .. opened /\ doubled \in BOOLEAN
    /\ requestId \in [Panels -> Nat]
    /\ pending \in [Panels -> SUBSET Entry]
    /\ timers \subseteq Requests
    /\ outcome \in [Requests -> Client!Status]
    /\ panelOf \in [Requests -> 0 .. opened]
    /\ toExtension \in [Panels -> Seq(Entry)]
    /\ toView \in [Panels -> Seq(Entry)]
    /\ handling \subseteq Requests
    /\ callOf \in [Requests -> Entry \cup {NoEntry}]
    /\ target \in [Requests -> 0 .. opened]
    /\ status \in [Requests -> Client!Status]
    /\ done \subseteq Requests /\ confused \subseteq Requests

\* Every request is settled, whatever hangs.
EveryRequestSettles == \A r \in Requests : Waiting(r) ~> ~Waiting(r)

\* Of two panels that are open the extension knows one.
Mixed == IF doubled THEN Requests ELSE confused

View == INSTANCE Rpc WITH Calls <- Requests, status <- outcome, confused <- Mixed

\* The graph view is promised what the extension is: a request is settled at
\* most once, and answered only when the daemon carried this one out, although
\* the next panel's transport gives out the ids of the last one's again while
\* the extension still works on those, and two timeouts run one behind the
\* other; unless two panels were open at a time (graphPanel.ts:32,
\* handleApiRequest).
ImplementsRpc == View!Spec
=============================================================================
