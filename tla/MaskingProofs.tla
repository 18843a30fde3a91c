----------------------------- MODULE MaskingProofs -----------------------------
(***************************************************************************)
(* Proofs about Masking, for every set of sessions and of validations and  *)
(* every number of events and failures.  IInv is inductive: beside the     *)
(* types and the property of the rows it says what a validation that goes  *)
(* on knows of the sessions it has asked about.                            *)
(***************************************************************************)
EXTENDS Masking, SequenceTheorems, TLAPS

\* Nothing is known against r: no request of it failed, no code was refused.
Clean(r) == ~run[r].failed /\ ~run[r].diagnostics

AwaitedOf(r) == {i \in 1 .. Len(inbox) : inbox[i].run = r /\ inbox[i].awaited}

\* Only a validation that waits has a request it waits for, at most one, and
\* its answer is not there yet.
OneAwaited ==
    \A r \in Runs :
        /\ AwaitedOf(r) # {} => run[r].pc = "waiting" /\ run[r].reply = "none"
        /\ \A i, j \in AwaitedOf(r) : i = j

\* What was asked about has passed, but for the session being asked about.
SeenPassed ==
    \A r \in Runs : Clean(r) =>
        \A s \in run[r].seen \ run[r].passed :
            /\ run[r].pc = "waiting"
            /\ run[r].reply # "passed"
            /\ run[r].reply = "none" => \A i \in AwaitedOf(r) : inbox[i].session = s

IInv == TypeOK /\ ValidatedParses /\ OneAwaited /\ SeenPassed

-----------------------------------------------------------------------------
(* The requests in the inbox.                                              *)

LEMMA InboxFacts ==
  ASSUME TypeOK
  PROVE  /\ Len(inbox) \in Nat /\ DOMAIN inbox = 1 .. Len(inbox)
         /\ \A i \in 1 .. Len(inbox) : inbox[i] \in Request
         /\ inbox # <<>> => /\ 1 \in 1 .. Len(inbox) /\ Head(inbox) = inbox[1]
                            /\ Head(inbox) \in Request
  BY LenProperties, EmptySeq, HeadTailProperties, ElementOfSeq DEF TypeOK

\* Every request moves up one place.
LEMMA InboxTail ==
  ASSUME TypeOK, inbox # <<>>, inbox' = Tail(inbox)
  PROVE  /\ inbox' \in Seq(Request)
         /\ \A r \in Runs : \A i \in AwaitedOf(r)' :
               i + 1 \in AwaitedOf(r) /\ i + 1 # 1 /\ inbox'[i] = inbox[i + 1] /\ i \in Nat
  <1>1. /\ inbox \in Seq(Request) /\ Len(inbox) \in Nat /\ Len(inbox) >= 1
        /\ Len(inbox') = Len(inbox) - 1 /\ inbox' \in Seq(Request)
        /\ \A i \in 1 .. Len(inbox') : inbox'[i] = inbox[i + 1]
    BY HeadTailProperties, LenProperties, EmptySeq DEF TypeOK
  <1>2. \A i \in 1 .. Len(inbox') : i + 1 \in 1 .. Len(inbox) /\ i + 1 # 1 /\ i \in Nat
    BY <1>1
  <1> QED  BY <1>1, <1>2 DEF AwaitedOf

\* The requests stay where they are, and are awaited by nobody else.
LEMMA InboxKept ==
  ASSUME Len(inbox') = Len(inbox),
         \A i \in 1 .. Len(inbox) : /\ inbox'[i].run = inbox[i].run
                                    /\ inbox'[i].session = inbox[i].session
                                    /\ inbox'[i].awaited => inbox[i].awaited
  PROVE  \A r \in Runs : \A i \in AwaitedOf(r)' :
            i \in AwaitedOf(r) /\ inbox'[i].session = inbox[i].session
  BY DEF AwaitedOf

-----------------------------------------------------------------------------
LEMMA InitIInv == Init => IInv
  <1> SUFFICES ASSUME Init PROVE IInv  OBVIOUS
  <1> USE DEF Init
  <1>1. Idle \in Run /\ Blank \in Text
    BY DEF Idle, Run, Blank, Text
  <1>2. TypeOK
    <2>1. inbox \in Seq(Request)  BY EmptySeq
    <2>2. run \in [Runs -> Run]  BY <1>1
    <2>3. rows \in [Sessions -> Row \cup {NoRow}]  OBVIOUS
    <2>4. events \in 0 .. MaxEvents /\ fails \in 0 .. MaxFails  BY BoundsAssumption
    <2> QED  BY <1>1, <2>1, <2>2, <2>3, <2>4 DEF TypeOK
  <1>3. AwaitedOf(0) = {} /\ \A r \in Runs : AwaitedOf(r) = {}
    BY DEF AwaitedOf
  <1>4. OneAwaited  BY <1>3 DEF OneAwaited
  <1>5. SeenPassed  BY DEF SeenPassed, Idle
  <1>6. ValidatedParses  BY DEF ValidatedParses, NoRow
  <1> QED  BY <1>2, <1>4, <1>5, <1>6 DEF IInv

\* What only concerns the file, the rows and the bounds.
LEMMA QuietIInv ==
  ASSUME IInv,
         \/ \E s \in Sessions : CreateMaskSession(s)
         \/ \E t \in Text : Edit(t)
         \/ ProvideCodeLenses
         \/ \E s \in Sessions : \E t \in Filled : ValidateFilledCode(s, t)
         \/ UNCHANGED vars
  PROVE  IInv'
  <1> USE DEF IInv
  <1>1. run' = run /\ inbox' = inbox
    BY DEF CreateMaskSession, Edit, ProvideCodeLenses, ValidateFilledCode, vars, daemonVars
  <1>2. OneAwaited' /\ SeenPassed'
    BY <1>1 DEF OneAwaited, SeenPassed, Clean, AwaitedOf
  <1>3. TypeOK' /\ ValidatedParses'
    <2>1. CASE \E s \in Sessions : CreateMaskSession(s)
      <3> PICK s \in Sessions : CreateMaskSession(s)  BY <2>1
      <3> USE DEF CreateMaskSession
      <3>1. rows' \in [Sessions -> Row \cup {NoRow}]  BY DEF TypeOK, Row
      <3>2. TypeOK'  BY <3>1, BoundsAssumption DEF TypeOK, editorVars, Event
      <3>3. ValidatedParses'  BY DEF ValidatedParses, TypeOK
      <3> QED  BY <3>2, <3>3
    <2>2. CASE \E t \in Text : Edit(t)
      BY <2>2, BoundsAssumption DEF Edit, TypeOK, ValidatedParses, daemonVars, Event
    <2>3. CASE ProvideCodeLenses
      <3>1. doc.marks \subseteq Sessions  BY DEF TypeOK, Text
      <3> QED  BY <3>1, <2>3 DEF ProvideCodeLenses, TypeOK, ValidatedParses, daemonVars
    <2>4. CASE \E s \in Sessions : \E t \in Filled : ValidateFilledCode(s, t)
      <3> PICK s \in Sessions, t \in Filled : ValidateFilledCode(s, t)  BY <2>4
      <3> USE DEF ValidateFilledCode
      <3>1. t \in Text  BY DEF Filled
      <3>2. [status |-> StatusOf(t), filled |-> t] \in Row  BY <3>1 DEF Row, StatusOf
      <3>3. rows' \in [Sessions -> Row \cup {NoRow}]  BY <3>2 DEF TypeOK
      <3>4. TypeOK'  BY <3>3, BoundsAssumption DEF TypeOK, editorVars, Event
      <3>5. ValidatedParses'  BY DEF ValidatedParses, TypeOK, StatusOf
      <3> QED  BY <3>4, <3>5
    <2>5. CASE UNCHANGED vars
      BY <2>5 DEF vars, editorVars, daemonVars, TypeOK, ValidatedParses
    <2> QED  BY <2>1, <2>2, <2>3, <2>4, <2>5
  <1> QED  BY <1>2, <1>3

-----------------------------------------------------------------------------
(* The steps of a validation.                                              *)

LEMMA BeginIInv ==
  ASSUME IInv, NEW r \in Runs, Validate(r) \/ Proceed(r) \/ Decline(r)
  PROVE  IInv'
  <1> USE DEF IInv
  <1>1. /\ inbox' = inbox /\ rows' = rows /\ torn' = torn
        /\ UNCHANGED <<doc, tracked, problems>>
        /\ events' \in 0 .. MaxEvents /\ fails' = fails
    BY BoundsAssumption DEF Validate, Proceed, Decline, editorVars, daemonVars, Event, TypeOK
  <1>2. /\ run[r] \in Run /\ run[r].pc \in {"idle", "asking"}
        /\ run \in [Runs -> Run]
    BY DEF TypeOK, Validate, Proceed, Decline
  <1>3. /\ run'[r] \in Run /\ run'[r].pc # "waiting"
        /\ run'[r].seen = run[r].seen \/ run'[r].seen = {}
        /\ run'[r].seen # {} => /\ run'[r].passed = run[r].passed
                                /\ run'[r].failed = run[r].failed
                                /\ run'[r].diagnostics = run[r].diagnostics
        /\ run' = [run EXCEPT ![r] = run'[r]]
    <2>1. Idle \in Run /\ Idle.pc = "idle" /\ Idle.seen = {}
      BY DEF Idle, Run, Blank, Text
    <2>2. CASE Validate(r)
      <3>1. doc \in Text /\ tracked \subseteq Sessions  BY DEF TypeOK
      <3>2. run'[r] = [Idle EXCEPT !.pc = IF doc.marks # {} THEN "asking" ELSE "loop",
                                   !.text = doc, !.attached = TRUE, !.ids = tracked]
        BY <2>2, <1>2 DEF Validate
      <3>3. run'[r] = [Idle EXCEPT !.pc = run'[r].pc, !.text = doc, !.attached = TRUE,
                                   !.ids = tracked]
            /\ run'[r].pc \in {"asking", "loop"}
        BY <3>2, <2>1 DEF Run
      <3>4. run'[r] \in Run /\ run'[r].pc # "waiting" /\ run'[r].seen = {}
        BY <3>1, <3>3, <2>1 DEF Run
      <3> QED  BY <2>2, <3>2, <3>4, <1>2 DEF Validate
    <2>3. CASE Proceed(r)
      <3>1. run'[r] = [run[r] EXCEPT !.pc = "loop"]  BY <2>3, <1>2 DEF Proceed
      <3> QED  BY <3>1, <2>3, <1>2 DEF Proceed, Run
    <2>4. CASE Decline(r)
      BY <2>1, <2>4, <1>2 DEF Decline
    <2> QED  BY <2>2, <2>3, <2>4
  <1> HIDE DEF IInv
  <1>4. \A q \in Runs : q # r => run'[q] = run[q]  BY <1>2, <1>3
  <1>5. TypeOK'
    <2>1. run' \in [Runs -> Run]  BY <1>2, <1>3
    <2> QED  BY <1>1, <2>1 DEF TypeOK, IInv
  <1>6. ValidatedParses'  BY <1>1 DEF ValidatedParses, IInv
  <1>7. \A q \in Runs : AwaitedOf(q)' = AwaitedOf(q)  BY <1>1 DEF AwaitedOf
  <1>8. OneAwaited'
    BY <1>2, <1>4, <1>7 DEF OneAwaited, IInv
  <1>9. SeenPassed'
    BY <1>1, <1>2, <1>3, <1>4, <1>7 DEF SeenPassed, Clean, IInv
  <1> QED  BY <1>5, <1>6, <1>8, <1>9 DEF IInv

LEMMA ValidateNextIInv ==
  ASSUME IInv, NEW r \in Runs, ValidateNext(r)
  PROVE  IInv'
  <1>1. PICK s \in Unseen(r) :
          \/ /\ run[r].text.code # "empty"
             /\ run' = [run EXCEPT ![r].pc = "waiting", ![r].seen = @ \cup {s},
                                   ![r].reply = "none"]
             /\ inbox' = Append(inbox, [run |-> r, session |-> s, text |-> run[r].text,
                                        step |-> "new", awaited |-> TRUE])
             /\ UNCHANGED fails
          \/ /\ run' = [run EXCEPT ![r].seen = @ \cup {s}, ![r].failed = TRUE]
             /\ IF run[r].text.code = "empty" THEN UNCHANGED fails ELSE Failure
             /\ UNCHANGED inbox
    BY DEF ValidateNext
  <1>2. /\ run[r] \in Run /\ run[r].pc = "loop" /\ run \in [Runs -> Run]
        /\ s \in Sessions /\ UNCHANGED <<editorVars, rows, torn, events>>
    BY DEF IInv, TypeOK, ValidateNext, Unseen, Ids, Run
  <1>3. AwaitedOf(r) = {}  BY <1>2 DEF IInv, OneAwaited
  <1>4. ValidatedParses'  BY <1>2 DEF IInv, ValidatedParses
  <1>5. CASE UNCHANGED inbox /\ run' = [run EXCEPT ![r].seen = @ \cup {s}, ![r].failed = TRUE]
    <2>1. /\ run'[r] = [run[r] EXCEPT !.seen = @ \cup {s}, !.failed = TRUE]
          /\ \A q \in Runs : q # r => run'[q] = run[q]
      BY <1>5, <1>2
    <2>0. run[r].seen \cup {s} \in SUBSET Sessions  BY <1>2 DEF Run
    <2>2. run'[r] \in Run /\ run'[r].failed  BY <2>0, <2>1, <1>2 DEF Run
    <2>3. TypeOK'
      <3>1. run' \in [Runs -> Run]  BY <1>5, <1>2, <2>2
      <3>2. fails' \in 0 .. MaxFails
        BY <1>1, BoundsAssumption DEF IInv, TypeOK, Failure
      <3> QED  BY <3>1, <3>2, <1>2, <1>5 DEF IInv, TypeOK, editorVars
    <2>4. \A q \in Runs : AwaitedOf(q)' = AwaitedOf(q)  BY <1>5 DEF AwaitedOf
    <2>5. OneAwaited'  BY <2>1, <2>4, <1>3 DEF OneAwaited, IInv
    <2>6. SeenPassed'
      <3>1. ASSUME NEW q \in Runs, Clean(q)'
            PROVE  q # r /\ run'[q] = run[q] /\ Clean(q)
        BY <3>1, <2>1, <2>2 DEF Clean
      <3>2. inbox' = inbox  BY <1>5
      <3>3. ASSUME NEW q \in Runs, Clean(q)', NEW t \in run'[q].seen \ run'[q].passed
            PROVE  /\ run'[q].pc = "waiting" /\ run'[q].reply # "passed"
                   /\ run'[q].reply = "none" =>
                         \A i \in AwaitedOf(q)' : inbox'[i].session = t
        <4>1. run'[q] = run[q] /\ Clean(q)  BY <3>1, <3>3
        <4> QED  BY <4>1, <3>2, <3>3, <2>4 DEF SeenPassed, IInv
      <3> QED  BY <3>3 DEF SeenPassed
    <2> QED  BY <2>3, <2>5, <2>6, <1>4 DEF IInv
  <1>6. CASE /\ run' = [run EXCEPT ![r].pc = "waiting", ![r].seen = @ \cup {s},
                                   ![r].reply = "none"]
             /\ inbox' = Append(inbox, [run |-> r, session |-> s, text |-> run[r].text,
                                        step |-> "new", awaited |-> TRUE])
             /\ UNCHANGED fails
    <2> DEFINE q0 == [run |-> r, session |-> s, text |-> run[r].text,
                      step |-> "new", awaited |-> TRUE]
    <2>1. /\ run'[r] = [run[r] EXCEPT !.pc = "waiting", !.seen = @ \cup {s}, !.reply = "none"]
          /\ \A q \in Runs : q # r => run'[q] = run[q]
      BY <1>6, <1>2
    <2>2. /\ run'[r] \in Run /\ run'[r].pc = "waiting" /\ run'[r].reply = "none"
          /\ run'[r].seen = run[r].seen \cup {s} /\ run'[r].passed = run[r].passed
          /\ run'[r].failed = run[r].failed /\ run'[r].diagnostics = run[r].diagnostics
      <3>1. run[r].seen \cup {s} \in SUBSET Sessions  BY <1>2 DEF Run
      <3> QED  BY <3>1, <2>1, <1>2 DEF Run
    <2>3. q0 \in Request /\ q0.session = s /\ q0.run = r /\ q0.awaited
      BY <1>2 DEF Request, Run
    <2> HIDE DEF q0
    <2>4. /\ inbox' \in Seq(Request) /\ Len(inbox) \in Nat /\ Len(inbox') = Len(inbox) + 1
          /\ \A i \in 1 .. Len(inbox) : inbox'[i] = inbox[i]
          /\ inbox'[Len(inbox) + 1] = q0
      <3>1. inbox \in Seq(Request) /\ inbox' = Append(inbox, q0)
        BY <1>6 DEF IInv, TypeOK, q0
      <3> QED  BY <3>1, <2>3, AppendProperties, LenProperties
    <2>5. /\ \A q \in Runs : q # r => AwaitedOf(q)' \subseteq AwaitedOf(q)
          /\ \A i \in AwaitedOf(r)' : i = Len(inbox) + 1
          /\ \A q \in Runs : \A i \in AwaitedOf(q) : inbox'[i] = inbox[i]
      <3>1. \A i \in 1 .. Len(inbox) + 1 : i \in 1 .. Len(inbox) \/ i = Len(inbox) + 1
        BY <2>4
      <3> QED  BY <3>1, <2>3, <2>4, <1>3 DEF AwaitedOf
    <2>6. TypeOK'
      <3>1. run' \in [Runs -> Run]  BY <1>6, <1>2, <2>2
      <3> QED  BY <3>1, <2>4, <1>2, <1>6 DEF IInv, TypeOK, editorVars
    <2>7. OneAwaited'
      <3> SUFFICES ASSUME NEW q \in Runs
                   PROVE  /\ AwaitedOf(q)' # {} => run'[q].pc = "waiting"
                                                   /\ run'[q].reply = "none"
                          /\ \A i, j \in AwaitedOf(q)' : i = j
        BY DEF OneAwaited
      <3>1. CASE q = r  BY <3>1, <2>2, <2>5
      <3>2. CASE q # r  BY <3>2, <2>1, <2>5 DEF OneAwaited, IInv
      <3> QED  BY <3>1, <3>2
    <2>8. SeenPassed'
      <3> SUFFICES ASSUME NEW q \in Runs, Clean(q)',
                          NEW t \in run'[q].seen \ run'[q].passed
                   PROVE  /\ run'[q].pc = "waiting" /\ run'[q].reply # "passed"
                          /\ run'[q].reply = "none" =>
                                \A i \in AwaitedOf(q)' : inbox'[i].session = t
        BY DEF SeenPassed
      <3>1. CASE q = r
        <4>1. run[r].seen \ run[r].passed = {}
          BY <3>1, <2>2, <1>2 DEF IInv, SeenPassed, Clean
        <4>2. t = s  BY <3>1, <4>1, <2>2
        <4> QED  BY <3>1, <4>2, <2>2, <2>3, <2>4, <2>5
      <3>2. CASE q # r
        BY <3>2, <2>1, <2>5 DEF IInv, SeenPassed, Clean
      <3> QED  BY <3>1, <3>2
    <2> QED  BY <2>6, <2>7, <2>8, <1>4 DEF IInv
  <1> QED  BY <1>1, <1>5, <1>6

LEMMA AnsweredIInv ==
  ASSUME IInv, NEW r \in Runs, Answered(r) \/ Timeout(r)
  PROVE  IInv'
  <1>1. /\ run[r] \in Run /\ run[r].pc = "waiting" /\ run \in [Runs -> Run]
        /\ UNCHANGED <<editorVars, rows, torn, events, fails>>
    BY DEF IInv, TypeOK, Answered, Timeout, daemonVars
  <1>2. ValidatedParses'  BY <1>1 DEF IInv, ValidatedParses
  <1>3. /\ run' = [run EXCEPT ![r] = run'[r]] /\ run'[r] \in Run
        /\ run'[r].pc = "loop" /\ run'[r].seen = run[r].seen
        /\ run'[r].passed = run[r].passed
        /\ Clean(r)' => Clean(r) /\ run[r].reply = "passed"
    <2>1. CASE Answered(r)
      <3>1. run'[r] = [run[r] EXCEPT !.pc = "loop",
                          !.failed = @ \/ run[r].reply = "error",
                          !.diagnostics = @ \/ run[r].reply = "failed"]
        BY <2>1, <1>1 DEF Answered
      <3>2. run[r].reply # "none"  BY <2>1 DEF Answered
      <3>3. run' = [run EXCEPT ![r] = run'[r]]  BY <2>1, <1>1, <3>1 DEF Answered
      <3> QED  BY <3>1, <3>2, <3>3, <1>1 DEF Run, Clean
    <2>2. CASE Timeout(r)
      <3>1. run'[r] = [run[r] EXCEPT !.pc = "loop", !.failed = TRUE]
        BY <2>2, <1>1 DEF Timeout
      <3>3. run' = [run EXCEPT ![r] = run'[r]]  BY <2>2, <1>1, <3>1 DEF Timeout
      <3> QED  BY <3>1, <3>3, <1>1 DEF Run, Clean
    <2> QED  BY <2>1, <2>2
  <1>4. \A q \in Runs : q # r => run'[q] = run[q]  BY <1>3, <1>1
  <1>5. /\ inbox' \in Seq(Request)
        /\ \A q \in Runs : \A i \in AwaitedOf(q)' :
              i \in AwaitedOf(q) /\ inbox'[i].session = inbox[i].session
        /\ AwaitedOf(r)' = {}
    <2>0. /\ Len(inbox) \in Nat /\ DOMAIN inbox = 1 .. Len(inbox) /\ inbox \in Seq(Request)
          /\ \A i \in 1 .. Len(inbox) : inbox[i] \in Request
      BY InboxFacts DEF IInv, TypeOK
    <2>1. CASE Answered(r)
      <3>1. inbox' = inbox /\ run[r].reply # "none"  BY <2>1 DEF Answered, daemonVars
      <3>2. AwaitedOf(r) = {}  BY <3>1 DEF IInv, OneAwaited
      <3> QED  BY <3>1, <3>2, <2>0 DEF AwaitedOf
    <2>2. CASE Timeout(r)
      <3>1. inbox' = [i \in 1 .. Len(inbox) |->
                        [inbox[i] EXCEPT !.awaited = @ /\ inbox[i].run # r]]
        BY <2>0, <2>2 DEF Timeout
      <3>2. ASSUME NEW i \in 1 .. Len(inbox)
            PROVE  /\ inbox'[i] = [inbox[i] EXCEPT !.awaited = @ /\ inbox[i].run # r]
                   /\ inbox'[i] \in Request
                   /\ inbox'[i].run = inbox[i].run /\ inbox'[i].session = inbox[i].session
                   /\ inbox'[i].awaited => inbox[i].awaited /\ inbox[i].run # r
        <4>1. inbox'[i] = [inbox[i] EXCEPT !.awaited = @ /\ inbox[i].run # r]  BY <3>1
        <4>2. inbox[i] \in Request  BY <2>0
        <4>3. (inbox[i].awaited /\ inbox[i].run # r) \in BOOLEAN  BY <4>2 DEF Request
        <4> QED  BY <4>1, <4>2, <4>3 DEF Request
      <3>3. inbox' \in Seq(Request) /\ Len(inbox') = Len(inbox)
        <4>1. inbox' \in [1 .. Len(inbox) -> Request]  BY <3>1, <3>2
        <4> QED  BY <4>1, <2>0, SeqDef, LenProperties
      <3> QED  BY <3>2, <3>3 DEF AwaitedOf
    <2> QED  BY <2>1, <2>2
  <1>6. TypeOK'
    <2>1. run' \in [Runs -> Run]  BY <1>1, <1>3
    <2> QED  BY <2>1, <1>5, <1>1 DEF IInv, TypeOK, editorVars
  <1>7. OneAwaited'  BY <1>4, <1>5 DEF IInv, OneAwaited
  <1>8. SeenPassed'
    <2> SUFFICES ASSUME NEW q \in Runs, Clean(q)',
                        NEW t \in run'[q].seen \ run'[q].passed
                 PROVE  /\ run'[q].pc = "waiting" /\ run'[q].reply # "passed"
                        /\ run'[q].reply = "none" =>
                              \A i \in AwaitedOf(q)' : inbox'[i].session = t
      BY DEF SeenPassed
    <2>1. CASE q = r  BY <2>1, <1>3 DEF IInv, SeenPassed
    <2>2. CASE q # r  BY <2>2, <1>4, <1>5 DEF IInv, SeenPassed, Clean
    <2> QED  BY <2>1, <2>2
  <1> QED  BY <1>2, <1>6, <1>7, <1>8 DEF IInv

LEMMA FinishIInv ==
  ASSUME IInv, NEW r \in Runs, Finish(r)
  PROVE  IInv'
  <1>1. /\ run[r] \in Run /\ run \in [Runs -> Run] /\ run[r].pc = "loop"
        /\ UNCHANGED <<doc, daemonVars, events, fails>>
        /\ problems' = run[r].diagnostics
    BY DEF IInv, TypeOK, Finish
  <1>2. Idle \in Run /\ Idle.pc = "idle" /\ Idle.seen = {}
    BY DEF Idle, Run, Blank, Text
  <1>3. /\ run' \in [Runs -> Run] /\ run'[r] = Idle /\ tracked' \subseteq Sessions
        /\ \A q \in Runs : q # r =>
              /\ run'[q].pc = run[q].pc /\ run'[q].reply = run[q].reply
              /\ run'[q].seen = run[q].seen /\ run'[q].passed = run[q].passed
              /\ run'[q].failed = run[q].failed
              /\ run'[q].diagnostics = run[q].diagnostics
    <2>1. CASE run[r].diagnostics
      <3>1. tracked' = tracked /\ run' = [run EXCEPT ![r] = Idle]  BY <2>1 DEF Finish
      <3> QED  BY <3>1, <1>1, <1>2 DEF IInv, TypeOK
    <2>2. CASE ~run[r].diagnostics
      <3>1. /\ tracked' = {}
            /\ run' = [q \in Runs |->
                         IF q = r THEN Idle
                         ELSE [run[q] EXCEPT !.ids = Ids(q), !.attached = FALSE]]
        BY <2>2 DEF Finish
      <3>2. \A q \in Runs : run[q] \in Run /\ Ids(q) \subseteq Sessions
        BY <1>1 DEF IInv, TypeOK, Ids, Run
      <3>3. ASSUME NEW q \in Runs, q # r
            PROVE  /\ run'[q] \in Run
                   /\ run'[q].pc = run[q].pc /\ run'[q].reply = run[q].reply
                   /\ run'[q].seen = run[q].seen /\ run'[q].passed = run[q].passed
                   /\ run'[q].failed = run[q].failed
                   /\ run'[q].diagnostics = run[q].diagnostics
        <4>1. run'[q] = [run[q] EXCEPT !.ids = Ids(q), !.attached = FALSE]  BY <3>1, <3>3
        <4> QED  BY <4>1, <3>2 DEF Run
      <3>4. run' \in [Runs -> Run]  BY <3>1, <3>3, <1>2
      <3> QED  BY <3>1, <3>3, <3>4
    <2> QED  BY <2>1, <2>2
  <1>4. TypeOK'
    <2>1. run[r].diagnostics \in BOOLEAN  BY <1>1 DEF Run
    <2> QED  BY <2>1, <1>1, <1>3 DEF IInv, TypeOK, daemonVars
  <1>5. ValidatedParses'  BY <1>1 DEF IInv, ValidatedParses, daemonVars
  <1>6. /\ inbox' = inbox
        /\ \A q \in Runs : AwaitedOf(q)' = AwaitedOf(q)
        /\ AwaitedOf(r) = {}
    BY <1>1 DEF AwaitedOf, daemonVars, IInv, OneAwaited
  <1>7. OneAwaited'  BY <1>3, <1>6 DEF IInv, OneAwaited
  <1>8. SeenPassed'  BY <1>2, <1>3, <1>6 DEF IInv, SeenPassed, Clean
  <1> QED  BY <1>4, <1>5, <1>7, <1>8 DEF IInv

-----------------------------------------------------------------------------
(* The daemon.                                                             *)

LEMMA StoreFilledCodeIInv == ASSUME IInv, StoreFilledCode PROVE IInv'
  <1> DEFINE q == Head(inbox)
  <1>1. /\ inbox # <<>> /\ inbox \in Seq(Request) /\ run' = run
        /\ inbox' = [inbox EXCEPT ![1].step = "stored"]
        /\ UNCHANGED <<editorVars, events>>
    BY DEF IInv, TypeOK, StoreFilledCode
  <1>2. /\ Len(inbox) \in Nat /\ DOMAIN inbox = 1 .. Len(inbox)
        /\ \A i \in 1 .. Len(inbox) : inbox[i] \in Request
        /\ 1 \in 1 .. Len(inbox) /\ q \in Request
    BY <1>1, InboxFacts DEF IInv
  <1>3. ASSUME NEW i \in 1 .. Len(inbox)
        PROVE  /\ inbox'[i] \in Request
               /\ inbox'[i].run = inbox[i].run /\ inbox'[i].session = inbox[i].session
               /\ inbox'[i].awaited => inbox[i].awaited
    <2>1. inbox'[i] = IF i = 1 THEN [inbox[1] EXCEPT !.step = "stored"] ELSE inbox[i]
      BY <1>1, <1>2
    <2> QED  BY <2>1, <1>2 DEF Request
  <1>4. inbox' \in Seq(Request) /\ Len(inbox') = Len(inbox)
    <2>1. DOMAIN inbox' = 1 .. Len(inbox)  BY <1>1, <1>2
    <2>2. inbox' = [i \in 1 .. Len(inbox) |-> inbox'[i]]  BY <1>1, <1>2
    <2>3. inbox' \in [1 .. Len(inbox) -> Request]  BY <2>2, <1>3
    <2> QED  BY <2>3, <1>2, SeqDef, LenProperties
  <1>5. q.session \in Sessions /\ q.text \in Text  BY <1>2 DEF Request
  <1>6. \/ /\ rows' = [rows EXCEPT ![q.session] = [status |-> "filled", filled |-> q.text]]
           /\ torn' = torn \ {q.session} /\ fails' = fails
        \/ rows' = rows /\ torn' = torn /\ Failure
    BY DEF StoreFilledCode, UpdateFilledCode
  <1> HIDE DEF q
  <1>7. TypeOK'
    <2>1. rows' \in [Sessions -> Row \cup {NoRow}] /\ torn' \subseteq Sessions
      BY <1>5, <1>6 DEF IInv, TypeOK, Row
    <2>2. fails' \in 0 .. MaxFails
      BY <1>6, BoundsAssumption DEF IInv, TypeOK, Failure
    <2> QED  BY <2>1, <2>2, <1>1, <1>4 DEF IInv, TypeOK, editorVars
  <1>8. ValidatedParses'
    BY <1>5, <1>6 DEF IInv, TypeOK, ValidatedParses
  <1>9. \A r \in Runs : \A i \in AwaitedOf(r)' :
           i \in AwaitedOf(r) /\ inbox'[i].session = inbox[i].session
    BY <1>3, <1>4, InboxKept
  <1>10. OneAwaited'  BY <1>1, <1>9 DEF IInv, OneAwaited
  <1>11. SeenPassed'  BY <1>1, <1>9 DEF IInv, SeenPassed, Clean
  <1> QED  BY <1>7, <1>8, <1>10, <1>11 DEF IInv

\* The daemon has done with a request: whoever waits for it has a reply, and
\* all it asked about has passed when that is the reply.
LEMMA ReplyIInv ==
  ASSUME IInv, inbox # <<>>, inbox' = Tail(inbox),
         NEW reply \in {"passed", "failed", "error"},
         IF ~Head(inbox).awaited THEN run' = run
         ELSE \/ reply # "passed" /\ run' = [run EXCEPT ![Head(inbox).run].reply = reply]
              \/ /\ reply = "passed"
                 /\ run' = [run EXCEPT ![Head(inbox).run].reply = reply,
                                       ![Head(inbox).run].passed = @ \cup {Head(inbox).session}]
  PROVE  inbox' \in Seq(Request) /\ run' \in [Runs -> Run] /\ OneAwaited' /\ SeenPassed'
  <1>0. PICK q \in Request : q = Head(inbox)  BY InboxFacts DEF IInv
  <1>r. PICK r \in Runs : r = q.run  BY DEF Request
  <1>1. /\ q = inbox[1] /\ 1 \in 1 .. Len(inbox)
        /\ q.session \in Sessions /\ q.awaited \in BOOLEAN
        /\ IF ~q.awaited THEN run' = run
           ELSE \/ reply # "passed" /\ run' = [run EXCEPT ![r].reply = reply]
                \/ /\ reply = "passed"
                   /\ run' = [run EXCEPT ![r].reply = reply,
                                         ![r].passed = @ \cup {q.session}]
    BY <1>0, <1>r, InboxFacts DEF IInv, Request
  <1>2. /\ inbox' \in Seq(Request)
        /\ \A p \in Runs : \A i \in AwaitedOf(p)' :
              i + 1 \in AwaitedOf(p) /\ i + 1 # 1 /\ inbox'[i] = inbox[i + 1] /\ i \in Nat
    BY InboxTail DEF IInv
  <1>3. run \in [Runs -> Run] /\ run[r] \in Run  BY <1>1 DEF IInv, TypeOK
  <1>4. q.awaited => /\ 1 \in AwaitedOf(r) /\ AwaitedOf(r)' = {}
                     /\ run[r].pc = "waiting" /\ run[r].reply = "none"
    <2>1. q.awaited => 1 \in AwaitedOf(r)  BY <1>1, <1>r DEF AwaitedOf
    <2>2. q.awaited => run[r].pc = "waiting" /\ run[r].reply = "none"
      BY <2>1, <1>1 DEF IInv, OneAwaited
    <2>3. q.awaited => \A i \in AwaitedOf(r) : i = 1  BY <2>1, <1>1 DEF IInv, OneAwaited
    <2>4. q.awaited => \A i \in AwaitedOf(r)' : FALSE  BY <2>3, <1>2
    <2> QED  BY <2>1, <2>2, <2>4
  <1>5. /\ \A p \in Runs : ~(q.awaited /\ p = r) => run'[p] = run[p]
        /\ q.awaited => /\ run'[r] \in Run /\ run'[r].reply = reply
                        /\ run'[r].pc = run[r].pc /\ run'[r].seen = run[r].seen
                        /\ run'[r].failed = run[r].failed
                        /\ run'[r].diagnostics = run[r].diagnostics
                        /\ run[r].passed \subseteq run'[r].passed
                        /\ reply = "passed" => q.session \in run'[r].passed
        /\ run' \in [Runs -> Run]
    <2>1. CASE ~q.awaited  BY <2>1, <1>1, <1>3
    <2>2. CASE q.awaited /\ reply # "passed"
      <3>1. run' = [run EXCEPT ![r].reply = reply]  BY <2>2, <1>1
      <3>2. run'[r] = [run[r] EXCEPT !.reply = reply]  BY <3>1, <1>3, <1>1
      <3>3. /\ run'[r] \in Run /\ run'[r].reply = reply
            /\ run'[r].pc = run[r].pc /\ run'[r].seen = run[r].seen
            /\ run'[r].failed = run[r].failed
            /\ run'[r].diagnostics = run[r].diagnostics
            /\ run[r].passed = run'[r].passed
        BY <3>2, <1>3 DEF Run
      <3>4. \A p \in Runs : p # r => run'[p] = run[p]  BY <3>1, <1>3
      <3>5. run' \in [Runs -> Run]  BY <3>1, <3>2, <3>3, <1>3
      <3> QED  BY <3>3, <3>4, <3>5, <2>2
    <2>3. CASE q.awaited /\ reply = "passed"
      <3>1. run' = [run EXCEPT ![r].reply = reply, ![r].passed = @ \cup {q.session}]
        BY <2>3, <1>1
      <3>2. run'[r] = [run[r] EXCEPT !.reply = reply, !.passed = @ \cup {q.session}]
        BY <3>1, <1>3, <1>1
      <3>3. /\ run'[r] \in Run /\ run'[r].reply = reply
            /\ run'[r].pc = run[r].pc /\ run'[r].seen = run[r].seen
            /\ run'[r].failed = run[r].failed
            /\ run'[r].diagnostics = run[r].diagnostics
            /\ run'[r].passed = run[r].passed \cup {q.session}
        <4>1. run[r].passed \cup {q.session} \in SUBSET Sessions  BY <1>3, <1>1 DEF Run
        <4> QED  BY <4>1, <3>2, <1>3 DEF Run
      <3>4. \A p \in Runs : p # r => run'[p] = run[p]  BY <3>1, <1>3
      <3>5. run' \in [Runs -> Run]  BY <3>1, <3>2, <3>3, <1>3
      <3> QED  BY <3>3, <3>4, <3>5, <2>3
    <2> QED  BY <2>1, <2>2, <2>3, <1>1
  <1>6. OneAwaited'
    <2> SUFFICES ASSUME NEW p \in Runs
                 PROVE  /\ AwaitedOf(p)' # {} => run'[p].pc = "waiting" /\ run'[p].reply = "none"
                        /\ \A i, j \in AwaitedOf(p)' : i = j
      BY DEF OneAwaited
    <2>1. \A i, j \in AwaitedOf(p)' : i + 1 = j + 1 /\ i \in Nat /\ j \in Nat
      BY <1>2 DEF IInv, OneAwaited
    <2>2. \A i, j \in AwaitedOf(p)' : i = j  BY <2>1
    <2>3. CASE q.awaited /\ p = r  BY <2>2, <2>3, <1>4
    <2>4. CASE ~(q.awaited /\ p = r)
      BY <2>2, <2>4, <1>2, <1>5 DEF IInv, OneAwaited
    <2> QED  BY <2>3, <2>4
  <1>7. SeenPassed'
    <2> SUFFICES ASSUME NEW p \in Runs, Clean(p)',
                        NEW t \in run'[p].seen \ run'[p].passed
                 PROVE  /\ run'[p].pc = "waiting" /\ run'[p].reply # "passed"
                        /\ run'[p].reply = "none" =>
                              \A i \in AwaitedOf(p)' : inbox'[i].session = t
      BY DEF SeenPassed
    <2>1. CASE q.awaited /\ p = r
      <3>1. Clean(r) /\ t \in run[r].seen \ run[r].passed
        BY <2>1, <1>5 DEF Clean
      <3>2. inbox[1].session = t
        BY <3>1, <2>1, <1>1, <1>4 DEF IInv, SeenPassed
      <3> QED  BY <3>2, <2>1, <1>1, <1>4, <1>5
    <2>2. CASE ~(q.awaited /\ p = r)
      <3>1. run'[p] = run[p]  BY <2>2, <1>5
      <3>2. Clean(p) /\ t \in run[p].seen \ run[p].passed  BY <3>1 DEF Clean
      <3>3. /\ run[p].pc = "waiting" /\ run[p].reply # "passed"
            /\ run[p].reply = "none" => \A i \in AwaitedOf(p) : inbox[i].session = t
        BY <3>2 DEF IInv, SeenPassed
      <3>4. ASSUME run'[p].reply = "none", NEW i \in AwaitedOf(p)'
            PROVE  inbox'[i].session = t
        <4>1. i + 1 \in AwaitedOf(p) /\ inbox'[i] = inbox[i + 1]  BY <1>2, <3>4
        <4>2. inbox[i + 1].session = t  BY <4>1, <3>1, <3>3, <3>4
        <4> QED  BY <4>1, <4>2
      <3> QED  BY <3>1, <3>3, <3>4
    <2> QED  BY <2>1, <2>2
  <1> QED  BY <1>2, <1>5, <1>6, <1>7

LEMMA RefuseRunIInv == ASSUME IInv, RefuseRun PROVE IInv'
  <1>1. /\ inbox # <<>> /\ inbox' = Tail(inbox) /\ UNCHANGED <<editorVars, rows, torn, events>>
        /\ Failure
        /\ IF ~Head(inbox).awaited THEN run' = run
           ELSE run' = [run EXCEPT ![Head(inbox).run].reply = "error"]
    BY DEF RefuseRun
  <1>2. inbox' \in Seq(Request) /\ run' \in [Runs -> Run] /\ OneAwaited' /\ SeenPassed'
    BY <1>1, ReplyIInv
  <1>3. TypeOK'
    BY <1>1, <1>2, BoundsAssumption DEF IInv, TypeOK, editorVars, Failure
  <1>4. ValidatedParses'  BY <1>1 DEF IInv, ValidatedParses
  <1> QED  BY <1>2, <1>3, <1>4 DEF IInv

LEMMA StoreStatusIInv == ASSUME IInv, StoreStatus PROVE IInv'
  <1> DEFINE q == Head(inbox)
  <1>1. /\ inbox # <<>> /\ inbox' = Tail(inbox) /\ UNCHANGED <<editorVars, events>>
        /\ \/ /\ rows' = [rows EXCEPT ![q.session].status = StatusOf(q.text)]
              /\ torn' = IF rows[q.session].filled = q.text THEN torn
                         ELSE torn \cup {q.session}
              /\ UNCHANGED fails
           \/ Failure /\ UNCHANGED <<rows, torn>>
        /\ run' = IF ~q.awaited THEN run
                  ELSE IF Parses(q.text)
                  THEN [run EXCEPT ![q.run].reply = "passed",
                                   ![q.run].passed = @ \cup {q.session}]
                  ELSE [run EXCEPT ![q.run].reply = "failed"]
    BY DEF StoreStatus
  <1>2. q \in Request /\ q.session \in Sessions /\ q.text \in Text
    BY <1>1, InboxFacts DEF IInv, Request
  <1>3. inbox' \in Seq(Request) /\ run' \in [Runs -> Run] /\ OneAwaited' /\ SeenPassed'
    <2>1. CASE Parses(q.text)  BY <1>1, <2>1, ReplyIInv
    <2>2. CASE ~Parses(q.text)  BY <1>1, <2>2, ReplyIInv
    <2> QED  BY <2>1, <2>2
  <1> HIDE DEF q
  <1>4. \A s \in Sessions : rows[s] \in Row \cup {NoRow}  BY DEF IInv, TypeOK
  <1>5. CASE /\ rows' = [rows EXCEPT ![q.session].status = StatusOf(q.text)]
             /\ torn' = IF rows[q.session].filled = q.text THEN torn
                        ELSE torn \cup {q.session}
             /\ UNCHANGED fails
    <2>1. /\ rows'[q.session] = [rows[q.session] EXCEPT !.status = StatusOf(q.text)]
          /\ \A s \in Sessions : s # q.session => rows'[s] = rows[s]
      BY <1>2, <1>5 DEF IInv, TypeOK
    <2>2. /\ rows'[q.session] \in Row
          /\ rows'[q.session].status = StatusOf(q.text)
          /\ rows'[q.session].filled = rows[q.session].filled
      BY <2>1, <1>2, <1>4 DEF Row, NoRow, StatusOf
    <2>3. rows' \in [Sessions -> Row \cup {NoRow}]
      BY <1>5, <2>1, <2>2 DEF IInv, TypeOK
    <2>4. TypeOK'
      BY <2>3, <1>1, <1>2, <1>3, <1>5 DEF IInv, TypeOK, editorVars
    <2>5. ValidatedParses'
      BY <1>2, <1>5, <2>1, <2>2 DEF IInv, ValidatedParses, StatusOf
    <2> QED  BY <1>3, <2>4, <2>5 DEF IInv
  <1>6. CASE Failure /\ UNCHANGED <<rows, torn>>
    <2>1. TypeOK'
      BY <1>1, <1>3, <1>6, BoundsAssumption DEF IInv, TypeOK, editorVars, Failure
    <2>2. ValidatedParses'  BY <1>6 DEF IInv, ValidatedParses
    <2> QED  BY <1>3, <2>1, <2>2 DEF IInv
  <1> QED  BY <1>1, <1>5, <1>6

-----------------------------------------------------------------------------
LEMMA NextIInv == IInv /\ [Next]_vars => IInv'
  BY QuietIInv, BeginIInv, ValidateNextIInv, AnsweredIInv, FinishIInv,
     RefuseRunIInv, StoreFilledCodeIInv, StoreStatusIInv DEF Next

LEMMA Inductive == Spec => []IInv
  BY InitIInv, NextIInv, PTL DEF Spec

\* The provider, the validations, the inbox and the rows keep their types.
THEOREM TypeCorrect == Spec => []TypeOK
  <1>1. IInv => TypeOK  BY DEF IInv
  <1> QED  BY Inductive, <1>1, PTL

\* Whatever the daemon and the MCP server write between each other's
\* statements, a row that says `validated' has code that parses, unless its
\* status was written over other code (handleValidationRun's two updates).
THEOREM ValidatedCodeParses == Spec => []ValidatedParses
  <1>1. IInv => ValidatedParses  BY DEF IInv
  <1> QED  BY Inductive, <1>1, PTL

\* A validation whose requests were all answered forgets only sessions that
\* passed, however many were found under it (clearTrackedSessions).
THEOREM OnlyValidatedAreForgotten == Spec => ForgetsOnlyValidated
  <1>1. IInv /\ [Next]_vars =>
           [\A r \in Runs :
              Finish(r) /\ tracked' # tracked /\ ~run[r].failed /\ run[r].attached =>
                  tracked \subseteq run[r].passed]_vars
    <2> SUFFICES ASSUME IInv, NEW r \in Runs, Finish(r), tracked' # tracked,
                        ~run[r].failed, run[r].attached
                 PROVE  tracked \subseteq run[r].passed
      OBVIOUS
    <2>1. /\ run[r].pc = "loop" /\ ~run[r].diagnostics
          /\ tracked \subseteq run[r].seen
      BY DEF Finish, Unseen, Ids
    <2> QED  BY <2>1 DEF IInv, SeenPassed, Clean
  <1> QED  BY <1>1, Inductive, PTL DEF Spec, ForgetsOnlyValidated
=============================================================================
