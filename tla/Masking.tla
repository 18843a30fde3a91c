-------------------------------- MODULE Masking --------------------------------
(***************************************************************************)
(* Masked code and its validation                                          *)
(* (build-with-me/src/features/masking/maskCodeLensProvider.ts and         *)
(* infrastructure/clients/validationClient.ts, with the daemon's           *)
(* pkg/db/mask_sessions.go, pkg/api/handlers_validation.go and the tools   *)
(* of pkg/mcp/handlers.go).                                                *)
(*                                                                         *)
(* A method that is masked gets a session, whose id is in the markers of   *)
(* the file.  The provider remembers, for a file, the sessions it has seen *)
(* a marker of, so that what was filled in can still be validated when the *)
(* markers are gone.  A validation asks the daemon about each of them in   *)
(* turn, with the text the file had at the start.  Two processes write the *)
(* sessions: the daemon of the extension, in two statements, and the MCP   *)
(* server Copilot calls, in one.                                           *)
(*                                                                         *)
(* One file.  Of its text, the markers in it and whether it parses matter. *)
(***************************************************************************)
EXTENDS Integers, Sequences, FiniteSets

CONSTANTS
    Sessions,   \* ids of mask sessions
    Runs,       \* validations that may be under way at a time
    MaxEvents,  \* bound: edits, sessions created, validations, calls of Copilot
    MaxFails    \* bound: requests refused and statements that fail

ASSUME BoundsAssumption == {MaxEvents, MaxFails} \subseteq Nat

VARIABLES
    doc,        \* the text of the file
    tracked,    \* _trackedSessions of the file
    problems,   \* the diagnostics of the file are not empty
    run,        \* the validations
    inbox,      \* validation.run requests the daemon has not answered
    rows,       \* mask_sessions
    torn,       \* history: sessions whose status is not about their filled code
    events, fails

editorVars == <<doc, tracked, problems>>
daemonVars == <<inbox, rows, torn>>
vars == <<editorVars, run, daemonVars, events, fails>>

Text == {t \in [marks : SUBSET Sessions, code : {"good", "bad", "empty"}] :
            t.code = "empty" => t.marks = {}}
Parses(t) == t.code = "good"
NoText == [none |-> TRUE]
NoRow == [status |-> "none", filled |-> NoText]
Blank == [marks |-> {}, code |-> "empty"]

Idle == [pc |-> "idle", text |-> Blank, attached |-> FALSE, ids |-> {}, seen |-> {},
         passed |-> {}, diagnostics |-> FALSE, failed |-> FALSE, reply |-> "none"]

Init ==
    /\ doc = Blank /\ tracked = {} /\ problems = FALSE
    /\ run = [r \in Runs |-> Idle]
    /\ inbox = <<>>
    /\ rows = [s \in Sessions |-> NoRow] /\ torn = {}
    /\ events = 0 /\ fails = 0

Created == {s \in Sessions : rows[s] # NoRow}

Event == events < MaxEvents /\ events' = events + 1
Failure == fails < MaxFails /\ fails' = fails + 1

-----------------------------------------------------------------------------
(* The file and the provider.                                              *)

\* kg.maskCode: a session for a method of the submitted code.
CreateMaskSession(s) ==
    /\ Event
    /\ rows[s] = NoRow
    /\ rows' = [rows EXCEPT ![s] = [status |-> "pending", filled |-> NoText]]
    /\ UNCHANGED <<editorVars, run, inbox, torn, fails>>

\* Copilot writes masked code, the user fills it in, takes it back.
Edit(t) ==
    /\ Event
    /\ t # doc /\ t.marks \subseteq Created
    /\ doc' = t
    /\ UNCHANGED <<tracked, problems, run, daemonVars, fails>>

\* provideCodeLenses, called some time after a change.
ProvideCodeLenses ==
    /\ ~(doc.marks \subseteq tracked)
    /\ tracked' = tracked \cup doc.marks
    /\ UNCHANGED <<doc, problems, run, daemonVars, events, fails>>

-----------------------------------------------------------------------------
(* validateMasksInDocument.                                                *)

\* The sessions the loop goes over: the provider's own set, which may grow
\* under it, until the provider drops that set.
\* Mutant: those there were at the start.
IdsAtStart(r) == run[r].ids
Ids(r) == IF run[r].attached THEN tracked ELSE run[r].ids

\* Mutant: the loop starts over at every answer.
UnseenFromStart(r) == Ids(r)
Unseen(r) == Ids(r) \ run[r].seen

\* Up to the question about markers that are still there.
Validate(r) ==
    /\ Event
    /\ run[r].pc = "idle"
    /\ tracked # {}
    /\ run' = [run EXCEPT ![r] =
                 [Idle EXCEPT !.pc = IF doc.marks # {} THEN "asking" ELSE "loop",
                              !.text = doc, !.attached = TRUE, !.ids = tracked]]
    /\ UNCHANGED <<editorVars, daemonVars, fails>>

Proceed(r) ==
    /\ run[r].pc = "asking"
    /\ run' = [run EXCEPT ![r].pc = "loop"]
    /\ UNCHANGED <<editorVars, daemonVars, events, fails>>

Decline(r) ==
    /\ run[r].pc = "asking"
    /\ run' = [run EXCEPT ![r] = Idle]
    /\ UNCHANGED <<editorVars, daemonVars, events, fails>>

\* validateCode of the next session; it throws for an empty text, and when the
\* daemon is not running and cannot be started.
ValidateNext(r) ==
    /\ run[r].pc = "loop"
    /\ \E s \in Unseen(r) :
          \/ /\ run[r].text.code # "empty"
             /\ run' = [run EXCEPT ![r].pc = "waiting", ![r].seen = @ \cup {s},
                                   ![r].reply = "none"]
             /\ inbox' = Append(inbox, [run |-> r, session |-> s, text |-> run[r].text,
                                        step |-> "new", awaited |-> TRUE])
             /\ UNCHANGED fails
          \/ /\ run' = [run EXCEPT ![r].seen = @ \cup {s}, ![r].failed = TRUE]
             /\ IF run[r].text.code = "empty" THEN UNCHANGED fails ELSE Failure
             /\ UNCHANGED inbox
    /\ UNCHANGED <<editorVars, rows, torn, events>>

\* The answer, or an error, which is only shown.
Answered(r) ==
    /\ run[r].pc = "waiting" /\ run[r].reply # "none"
    /\ run' = [run EXCEPT ![r].pc = "loop",
                          ![r].failed = @ \/ run[r].reply = "error",
                          ![r].diagnostics = @ \/ run[r].reply = "failed"]
    /\ UNCHANGED <<editorVars, daemonVars, events, fails>>

\* sendApiRequest gives up; the daemon may still carry the request out.
Timeout(r) ==
    /\ run[r].pc = "waiting" /\ run[r].reply = "none"
    /\ run' = [run EXCEPT ![r].pc = "loop", ![r].failed = TRUE]
    /\ inbox' = [i \in DOMAIN inbox |->
                    [inbox[i] EXCEPT !.awaited = @ /\ inbox[i].run # r]]
    /\ UNCHANGED <<editorVars, rows, torn, events, fails>>

\* After the last session: the diagnostics, and the sessions are forgotten
\* when there are none.
Finish(r) ==
    /\ run[r].pc = "loop" /\ Unseen(r) = {}
    /\ problems' = run[r].diagnostics
    /\ IF run[r].diagnostics
       THEN UNCHANGED tracked /\ run' = [run EXCEPT ![r] = Idle]
       ELSE /\ tracked' = {}
            /\ run' = [q \in Runs |->
                         IF q = r THEN Idle
                         ELSE [run[q] EXCEPT !.ids = Ids(q), !.attached = FALSE]]
    /\ UNCHANGED <<doc, daemonVars, events, fails>>

-----------------------------------------------------------------------------
(* The daemon: one request at a time.                                      *)

\* UpdateFilledCode.  Mutant: the status of the code before stays.
UpdateFilledCodeOnly(s, t) == [rows EXCEPT ![s].filled = t]
UpdateFilledCode(s, t) == [rows EXCEPT ![s] = [status |-> "filled", filled |-> t]]

StatusOf(t) == IF Parses(t) THEN "validated" ELSE "filled"

\* A request the handler refuses, or a validator that fails.
RefuseRun ==
    /\ inbox # <<>> /\ Head(inbox).step = "new"
    /\ Failure
    /\ inbox' = Tail(inbox)
    /\ run' = IF Head(inbox).awaited
              THEN [run EXCEPT ![Head(inbox).run].reply = "error"] ELSE run
    /\ UNCHANGED <<editorVars, rows, torn, events>>

\* A statement that fails is only logged.
StoreFilledCode ==
    /\ inbox # <<>> /\ Head(inbox).step = "new"
    /\ inbox' = [inbox EXCEPT ![1].step = "stored"]
    /\ LET q == Head(inbox)
       IN  \/ /\ rows' = UpdateFilledCode(q.session, q.text)
              /\ torn' = torn \ {q.session}
              /\ UNCHANGED fails
           \/ Failure /\ UNCHANGED <<rows, torn>>
    /\ UNCHANGED <<editorVars, run, events>>

StoreStatus ==
    /\ inbox # <<>> /\ Head(inbox).step = "stored"
    /\ LET q == Head(inbox)
       IN  /\ \/ /\ rows' = [rows EXCEPT ![q.session].status = StatusOf(q.text)]
                 /\ torn' = IF rows[q.session].filled = q.text THEN torn
                            ELSE torn \cup {q.session}
                 /\ UNCHANGED fails
              \/ Failure /\ UNCHANGED <<rows, torn>>
           /\ inbox' = Tail(inbox)
           /\ run' = IF ~q.awaited THEN run
                     ELSE IF Parses(q.text)
                     THEN [run EXCEPT ![q.run].reply = "passed",
                                      ![q.run].passed = @ \cup {q.session}]
                     ELSE [run EXCEPT ![q.run].reply = "failed"]
    /\ UNCHANGED <<editorVars, events>>

\* kg.validateFilledCode, with the code Copilot has read some time before.
ValidateFilledCode(s, t) ==
    /\ Event
    /\ s \in Created
    /\ rows' = [rows EXCEPT ![s] = [status |-> StatusOf(t), filled |-> t]]
    /\ torn' = torn \ {s}
    /\ UNCHANGED <<editorVars, run, inbox, fails>>

-----------------------------------------------------------------------------
Filled == {t \in Text : t.marks = {} /\ t.code # "empty"}

Next ==
    \/ \E s \in Sessions : CreateMaskSession(s)
    \/ \E t \in Text : Edit(t)
    \/ ProvideCodeLenses
    \/ \E r \in Runs :
          \/ Validate(r) \/ Proceed(r) \/ Decline(r) \/ ValidateNext(r)
          \/ Answered(r) \/ Timeout(r) \/ Finish(r)
    \/ RefuseRun \/ StoreFilledCode \/ StoreStatus
    \/ \E s \in Sessions : \E t \in Filled : ValidateFilledCode(s, t)

\* The timer of a request always fires and the loop is the extension's own
\* code; the daemon, VS Code and the user promise nothing.
Fairness ==
    \A r \in Runs : /\ WF_vars(ValidateNext(r)) /\ WF_vars(Answered(r))
                    /\ WF_vars(Timeout(r)) /\ WF_vars(Finish(r))

Spec == Init /\ [][Next]_vars
FairSpec == Spec /\ Fairness

-----------------------------------------------------------------------------
Run == [pc : {"idle", "asking", "loop", "waiting"}, text : Text, attached : BOOLEAN,
        ids : SUBSET Sessions, seen : SUBSET Sessions, passed : SUBSET Sessions,
        diagnostics : BOOLEAN, failed : BOOLEAN,
        reply : {"none", "passed", "failed", "error"}]
Request == [run : Runs, session : Sessions, text : Text, step : {"new", "stored"},
            awaited : BOOLEAN]
Row == [status : {"pending", "filled", "validated"}, filled : Text \cup {NoText}]

TypeOK ==
    /\ doc \in Text /\ tracked \subseteq Sessions /\ problems \in BOOLEAN
    /\ run \in [Runs -> Run]
    /\ inbox \in Seq(Request)
    /\ rows \in [Sessions -> Row \cup {NoRow}] /\ torn \subseteq Sessions
    /\ events \in 0 .. MaxEvents /\ fails \in 0 .. MaxFails

\* A session is `validated' only while the code stored for it parses, between
\* the two statements of the daemon as well ("User filled code and validation
\* passed", mask_sessions.go:13), unless its status was written over code of
\* the other process or after the code could not be stored.
ValidatedParses ==
    \A s \in Sessions \ torn : rows[s].status = "validated" => Parses(rows[s].filled)

\* A validation that says the exercise is complete forgets only sessions the
\* daemon has told it passed, those whose markers appeared while it went on
\* included ("call after successful validation", maskCodeLensProvider.ts:54),
\* unless one of its requests failed or an earlier validation had forgotten
\* the sessions it began with.
ForgetsOnlyValidated ==
    [][\A r \in Runs :
          Finish(r) /\ tracked' # tracked /\ ~run[r].failed /\ run[r].attached =>
              tracked \subseteq run[r].passed]_vars

\* A validation that goes on ends, whatever the daemon does and however many
\* sessions are found meanwhile.
ValidationEnds ==
    \A r \in Runs : run[r].pc \in {"loop", "waiting"} ~> run[r].pc = "idle"
=============================================================================
