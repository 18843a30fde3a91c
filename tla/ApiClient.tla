------------------------------ MODULE ApiClient ------------------------------
(***************************************************************************)
(* The extension's JSON-RPC client to the Go daemon                        *)
(* (build-with-me/src/infrastructure/services/apiStdioServer.ts): one      *)
(* module-level connection state shared by every daemon process the        *)
(* extension ever spawns, and by the event handlers of all of them.        *)
(*                                                                         *)
(* A call is one invocation of sendApiRequest.  Its promise is settled by  *)
(* a response, by its timeout, by a failed write, or by the teardown of a  *)
(* process.  The daemon (server/pkg/api/stdio_server.go) serves one line   *)
(* at a time, in order, with one response per request.                     *)
(*                                                                         *)
(* The environment is Node's: 'exit' may be reported before the last       *)
(* stdout data of the process, a chunk of stdout may end inside a line,    *)
(* and the callback of a write to a process that died may come late.       *)
(***************************************************************************)
EXTENDS Integers, Sequences, FiniteSets

CONSTANTS
    Calls,      \* invocations of sendApiRequest
    MaxSpawns   \* bound: how many daemon processes are ever spawned

ASSUME SpawnsAssumption == MaxSpawns \in Nat \ {0}

VARIABLES
    \* Module-level state of the extension.
    current,     \* apiStdioProcess: the process it names, NoProc for undefined
    requestId,   \* requestId
    pending,     \* pendingRequests: a map from ids to the calls that wait
    buffer,      \* responseBuffer: NoProc for '', p for the first part of a
                 \* line of p, Garbage for parts of lines of two processes
    \* The closures of each call.
    timers,      \* calls whose timeout is armed
    writing,     \* calls whose stdin write may still report an error
    outcome,     \* state of the call's promise
    idOf,        \* the id the call was given
    \* The processes.
    spawned,     \* processes spawned so far: 1..spawned
    alive,       \* processes that still run
    tornDown,    \* processes whose 'exit' or 'error' event was handled
    stdin,       \* requests written and not yet read, per process
    stdout,      \* responses not yet delivered, per process
    cut,         \* processes whose next line was delivered in part
    \* History.
    procOf,      \* the process a call was written to
    answer       \* the call whose response settled this one

extVars == <<current, requestId, pending, buffer>>
callVars == <<timers, writing, outcome, idOf, procOf, answer>>
procVars == <<spawned, alive, tornDown, stdin, stdout, cut>>
vars == <<extVars, callVars, procVars>>

Procs == 1 .. MaxSpawns
NoProc == 0
Garbage == -1
NoCall == "none"

ASSUME CallsAssumption == NoCall \notin Calls

Entry == [id : Nat \ {0}, call : Calls]
Outcome == {"unsent", "waiting", "answered", "failed"}
Sent(c) == procOf[c] # NoProc
Waiting(c) == outcome[c] = "waiting"
PendingCalls == {e.call : e \in pending}

Init ==
    /\ current = NoProc /\ requestId = 0 /\ pending = {} /\ buffer = NoProc
    /\ timers = {} /\ writing = {}
    /\ outcome = [c \in Calls |-> "unsent"]
    /\ idOf = [c \in Calls |-> 0]
    /\ procOf = [c \in Calls |-> NoProc]
    /\ answer = [c \in Calls |-> NoCall]
    /\ spawned = 0 /\ alive = {} /\ tornDown = {} /\ cut = {}
    /\ stdin = [p \in Procs |-> <<>>]
    /\ stdout = [p \in Procs |-> <<>>]

-----------------------------------------------------------------------------
(* startApiStdioServer.  With a process at hand it returns at once and     *)
(* changes nothing; otherwise it resets the module state, and then either  *)
(* gives up (no workspace, no binary, spawn throws) or spawns.             *)

ResetState ==
    /\ requestId' = 0
    /\ pending' = {}
    /\ buffer' = NoProc

Start ==
    /\ current = NoProc
    /\ spawned < MaxSpawns
    /\ ResetState
    /\ spawned' = spawned + 1
    /\ current' = spawned'
    /\ alive' = alive \cup {spawned'}
    /\ UNCHANGED <<callVars, tornDown, stdin, stdout, cut>>

StartFails ==
    /\ current = NoProc
    /\ ResetState
    /\ UNCHANGED <<current, callVars, procVars>>

-----------------------------------------------------------------------------
(* sendApiRequest.                                                         *)

SendRefused(c) ==
    /\ outcome[c] = "unsent"
    /\ current = NoProc
    /\ outcome' = [outcome EXCEPT ![c] = "failed"]
    /\ UNCHANGED <<extVars, timers, writing, idOf, procOf, answer, procVars>>

\* ++requestId.  Mutants: a post-increment, an id taken from the map's size.
NextIdPostIncrement == requestId
NextIdOfMapSize == Cardinality(pending) + 1
NextId == requestId + 1

Send(c) ==
    /\ outcome[c] = "unsent"
    /\ current # NoProc
    /\ requestId' = NextId
    /\ pending' = pending \cup {[id |-> NextId, call |-> c]}
    /\ timers' = timers \cup {c}
    /\ writing' = writing \cup {c}
    /\ outcome' = [outcome EXCEPT ![c] = "waiting"]
    /\ idOf' = [idOf EXCEPT ![c] = NextId]
    /\ procOf' = [procOf EXCEPT ![c] = current]
    /\ stdin' = [stdin EXCEPT ![current] =
                    Append(@, [id |-> NextId, call |-> c])]
    /\ UNCHANGED <<current, buffer, answer, spawned, alive, tornDown, stdout, cut>>

\* pendingRequests.delete(id), whoever the entry belongs to.
DeletePending(id) == {e \in pending : e.id # id}

\* The timeout rejects its own call, but looks the id up in the shared map.
TimeoutFires(c) ==
    /\ c \in timers
    /\ timers' = timers \ {c}
    /\ pending' = DeletePending(idOf[c])
    /\ outcome' = IF pending' # pending
                  THEN [outcome EXCEPT ![c] = "failed"] ELSE outcome
    /\ UNCHANGED <<current, requestId, buffer, writing, idOf, procOf, answer, procVars>>

\* The catch of drainWrite: the process was gone before it read the line.
WriteFails(c) ==
    /\ c \in writing
    /\ procOf[c] \notin alive
    /\ writing' = writing \ {c}
    /\ timers' = timers \ {c}
    /\ pending' = DeletePending(idOf[c])
    /\ outcome' = IF Waiting(c) THEN [outcome EXCEPT ![c] = "failed"] ELSE outcome
    /\ UNCHANGED <<current, requestId, buffer, idOf, procOf, answer, procVars>>

-----------------------------------------------------------------------------
(* The daemon: read one line, dispatch it, write one line.                 *)

Serve(p) ==
    /\ p \in alive
    /\ stdin[p] # <<>>
    /\ stdin' = [stdin EXCEPT ![p] = Tail(@)]
    /\ stdout' = [stdout EXCEPT ![p] = Append(@, Head(stdin[p]))]
    /\ writing' = writing \ {Head(stdin[p]).call}
    /\ UNCHANGED <<extVars, timers, outcome, idOf, procOf, answer,
                   spawned, alive, tornDown, cut>>

\* It crashes, or it dies of the signal stopApiStdioServer sent.
Crash(p) ==
    /\ p \in alive
    /\ alive' = alive \ {p}
    /\ UNCHANGED <<extVars, callVars, spawned, tornDown, stdin, stdout, cut>>

-----------------------------------------------------------------------------
(* Events of the process, handled by the extension.                        *)

\* Mutants: the map is not cleared; the map is cleared and nobody rejected.
RejectAllKeepsMap ==
    /\ pending' = pending
    /\ buffer' = NoProc
    /\ timers' = timers \ PendingCalls
    /\ outcome' = [c \in Calls |->
                      IF c \in PendingCalls THEN "failed" ELSE outcome[c]]
RejectAllSilently ==
    /\ pending' = {}
    /\ buffer' = NoProc
    /\ timers' = timers \ PendingCalls
    /\ outcome' = outcome

\* Reject every pending call, whichever process it was written to.
RejectAll ==
    /\ pending' = {}
    /\ buffer' = NoProc
    /\ timers' = timers \ PendingCalls
    /\ outcome' = [c \in Calls |->
                      IF c \in PendingCalls THEN "failed" ELSE outcome[c]]

\* teardown, on 'error' or 'exit'; at most once for a process.
ExitEvent(p) ==
    /\ p \in 1 .. spawned
    /\ p \notin alive
    /\ p \notin tornDown
    /\ tornDown' = tornDown \cup {p}
    /\ RejectAll
    /\ current' = NoProc
    /\ UNCHANGED <<requestId, writing, idOf, procOf, answer,
                   spawned, alive, stdin, stdout, cut>>

\* handleResponse: settle the call the map names for the id, if any.
HandleResponse(r) ==
    LET found == {e \in pending : e.id = r.id}
        called == {e.call : e \in found}
    IN  /\ pending' = pending \ found
        /\ timers' = timers \ called
        /\ outcome' = [c \in Calls |-> IF c \in called THEN "answered" ELSE outcome[c]]
        /\ answer' = [c \in Calls |-> IF c \in called THEN r.call ELSE answer[c]]

\* stdout 'data' that ends inside a line: the part stays in responseBuffer.
DataPart(p) ==
    /\ stdout[p] # <<>>
    /\ p \notin cut
    /\ cut' = cut \cup {p}
    /\ buffer' = IF buffer = NoProc THEN p ELSE Garbage
    /\ UNCHANGED <<current, requestId, pending, callVars,
                   spawned, alive, tornDown, stdin, stdout>>

\* The line is whole when responseBuffer holds exactly its first part.
WholeLine(p) == buffer = IF p \in cut THEN p ELSE NoProc

\* stdout 'data' that ends a line: it is handled, or fails to parse.
DataLine(p) ==
    /\ stdout[p] # <<>>
    /\ stdout' = [stdout EXCEPT ![p] = Tail(@)]
    /\ cut' = cut \ {p}
    /\ buffer' = NoProc
    /\ IF WholeLine(p)
       THEN HandleResponse(Head(stdout[p]))
       ELSE UNCHANGED <<pending, timers, outcome, answer>>
    /\ UNCHANGED <<current, requestId, writing, idOf, procOf,
                   spawned, alive, tornDown, stdin>>

\* stopApiStdioServer (deactivate).  The signal ends the process later, and
\* nothing keeps the work in flight from starting another one.
Stop ==
    /\ current # NoProc
    /\ RejectAll
    /\ current' = NoProc
    /\ UNCHANGED <<requestId, writing, idOf, procOf, answer, procVars>>

-----------------------------------------------------------------------------
Next ==
    \/ Start \/ StartFails \/ Stop
    \/ \E c \in Calls :
          SendRefused(c) \/ Send(c) \/ TimeoutFires(c) \/ WriteFails(c)
    \/ \E p \in Procs :
          Serve(p) \/ Crash(p) \/ ExitEvent(p) \/ DataPart(p) \/ DataLine(p)

\* Only timers are relied on: the daemon may hang for ever.
Fairness == \A c \in Calls : WF_vars(TimeoutFires(c))

Spec == Init /\ [][Next]_vars
FairSpec == Spec /\ Fairness

-----------------------------------------------------------------------------
TypeOK ==
    /\ current \in 0 .. spawned
    /\ spawned \in 0 .. MaxSpawns
    /\ requestId \in Nat
    /\ pending \subseteq Entry
    /\ buffer \in Procs \cup {NoProc, Garbage}
    /\ timers \subseteq Calls /\ writing \subseteq Calls
    /\ outcome \in [Calls -> Outcome]
    /\ idOf \in [Calls -> Nat]
    /\ procOf \in [Calls -> 0 .. spawned]
    /\ answer \in [Calls -> Calls \cup {NoCall}]
    /\ alive \subseteq 1 .. spawned /\ tornDown \subseteq 1 .. spawned
    /\ cut \subseteq Procs
    /\ stdin \in [Procs -> Seq(Entry)]
    /\ stdout \in [Procs -> Seq(Entry)]

\* Two calls were given the same id, in the lifetimes of two processes.
Collide(c, d) ==
    /\ Sent(c) /\ Sent(d)
    /\ idOf[c] = idOf[d] /\ procOf[c] # procOf[d]

\* No call is kept waiting on a process the extension has let go of: the map
\* holds calls written to the current process only, under the ids they were
\* given, and it is empty while there is none.  Otherwise the "new Map()" of
\* startApiStdioServer would drop calls that wait.
PendingOfCurrent ==
    \A e \in pending :
        /\ current # NoProc
        /\ procOf[e.call] = current
        /\ idOf[e.call] = e.id
        /\ Waiting(e.call)

\* A call is settled by its own response, or by the response of a call that
\* an earlier process was sent under the same id: responses of one process
\* are never mixed up, whatever times out, fails or is cut in parts.
AnswersOfOneProcess ==
    \A c \in Calls : outcome[c] = "answered" =>
        \/ answer[c] = c
        \/ /\ answer[c] \in Calls
           /\ Collide(c, answer[c])
           /\ procOf[answer[c]] < procOf[c]

\* The promise of a call that waits can still be settled (its entry is in
\* the map and its timeout is armed), unless its id was used twice.
NoLostCall ==
    \A c \in Calls : Waiting(c) =>
        \/ /\ [id |-> idOf[c], call |-> c] \in pending
           /\ c \in timers
        \/ \E d \in Calls : Collide(c, d)

\* Every call is settled in the end, unless its id was used twice.
EveryCallSettles ==
    \A c \in Calls :
        Waiting(c) ~> (~Waiting(c) \/ \E d \in Calls : Collide(c, d))

\* "Reset module-level state so a restart after a crash starts clean": a call
\* is only ever settled by the response to itself.
RestartStartsClean ==
    \A c \in Calls : outcome[c] = "answered" => answer[c] = c

-----------------------------------------------------------------------------
(* The client implements Rpc.                                              *)

\* The daemon read the request, which is when it carries it out.
CarriedOut(c) ==
    Sent(c) /\ \A i \in DOMAIN stdin[procOf[c]] : stdin[procOf[c]][i].call # c

CallStatus ==
    [c \in Calls |-> IF outcome[c] = "failed" /\ ~Sent(c) THEN "refused" ELSE outcome[c]]
Done == {c \in Calls : CarriedOut(c)}
Confused == {c \in Calls : \E d \in Calls : Collide(c, d)}

R == INSTANCE Rpc WITH status <- CallStatus, done <- Done, confused <- Confused

\* Whatever crashes, restarts, times out or comes late, a call is settled at
\* most once, and answered only when the daemon has carried it out, unless its
\* id was used by two processes.
ImplementsRpc == R!Spec
=============================================================================
