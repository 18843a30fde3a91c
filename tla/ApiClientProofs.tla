--------------------------- MODULE ApiClientProofs ---------------------------
(***************************************************************************)
(* Proofs about ApiClient, for every set of calls and every number of      *)
(* daemon processes.  IInv is inductive: beside the properties it says     *)
(* which calls have an id, that ids of one process differ, and that what   *)
(* is on a process's pipes is labelled with the ids of its own calls.      *)
(***************************************************************************)
EXTENDS ApiClient, SequenceTheorems, TLAPS

\* What the closures of a call hold is about a call that was sent.
SentInv ==
    \A c \in Calls :
        /\ outcome[c] = "unsent" => ~Sent(c)
        /\ c \in timers \cup writing => Sent(c)

\* The process at hand is the last one spawned, and it has seen no higher id.
FreshIds ==
    /\ current \in {NoProc, spawned}
    /\ \A c \in Calls : Sent(c) /\ procOf[c] = current => idOf[c] <= requestId

\* Within one process an id names one call.
UniqueIds ==
    \A c, d \in Calls :
        Sent(c) /\ procOf[c] = procOf[d] /\ idOf[c] = idOf[d] => c = d

Labelled(p, s) ==
    \A i \in 1 .. Len(s) : procOf[s[i].call] = p /\ idOf[s[i].call] = s[i].id

\* Every line on the pipes of p carries the id of a call written to p.
WireInv == \A p \in Procs : Labelled(p, stdin[p]) /\ Labelled(p, stdout[p])

IInv ==
    /\ TypeOK /\ SentInv /\ FreshIds /\ UniqueIds /\ WireInv
    /\ PendingOfCurrent /\ AnswersOfOneProcess /\ NoLostCall

-----------------------------------------------------------------------------
LEMMA InitIInv == Init => IInv
  <1> SUFFICES ASSUME Init PROVE IInv  OBVIOUS
  <1> USE SpawnsAssumption DEF Init, Procs, NoProc, Sent, Waiting
  <1>1. TypeOK  BY DEF TypeOK, Outcome, Entry
  <1>2. SentInv /\ FreshIds /\ UniqueIds  BY DEF SentInv, FreshIds, UniqueIds
  <1>3. WireInv  BY DEF WireInv, Labelled
  <1>4. PendingOfCurrent /\ AnswersOfOneProcess /\ NoLostCall
    BY DEF PendingOfCurrent, AnswersOfOneProcess, NoLostCall
  <1> QED  BY <1>1, <1>2, <1>3, <1>4 DEF IInv

\* What Head, Tail and Append make of a labelled line sequence.
LEMMA LabelledTail ==
  ASSUME NEW p \in Procs, NEW s \in Seq(Entry), s # <<>>, Labelled(p, s)
  PROVE  /\ Labelled(p, Tail(s)) /\ Tail(s) \in Seq(Entry)
         /\ Head(s) \in Entry
         /\ procOf[Head(s).call] = p /\ idOf[Head(s).call] = Head(s).id
  <1>1. /\ Head(s) \in Entry /\ Tail(s) \in Seq(Entry)
        /\ Len(s) \in Nat /\ Len(s) >= 1
        /\ Len(Tail(s)) = Len(s) - 1
        /\ \A i \in 1 .. Len(Tail(s)) : Tail(s)[i] = s[i + 1]
        /\ Head(s) = s[1]
    BY HeadTailProperties, LenProperties, EmptySeq
  <1>2. \A i \in 1 .. Len(Tail(s)) : i + 1 \in 1 .. Len(s)  BY <1>1
  <1> QED  BY <1>1, <1>2 DEF Labelled

LEMMA LabelledAppend ==
  ASSUME NEW p \in Procs, NEW s \in Seq(Entry), NEW e \in Entry, Labelled(p, s),
         procOf[e.call] = p, idOf[e.call] = e.id
  PROVE  Labelled(p, Append(s, e)) /\ Append(s, e) \in Seq(Entry)
  <1>1. /\ Append(s, e) \in Seq(Entry) /\ Len(s) \in Nat
        /\ Len(Append(s, e)) = Len(s) + 1
        /\ \A i \in 1 .. Len(s) : Append(s, e)[i] = s[i]
        /\ Append(s, e)[Len(s) + 1] = e
    BY AppendProperties, LenProperties
  <1>2. \A i \in 1 .. Len(s) + 1 : i \in 1 .. Len(s) \/ i = Len(s) + 1  BY <1>1
  <1> QED  BY <1>1, <1>2 DEF Labelled

-----------------------------------------------------------------------------
(* One lemma per action.                                                   *)

LEMMA StartIInv == IInv /\ (Start \/ StartFails) => IInv'
  <1> SUFFICES ASSUME IInv, Start \/ StartFails PROVE IInv'  OBVIOUS
  <1> USE SpawnsAssumption DEF IInv, callVars, procVars, ResetState, NoProc, Procs
  <1>0. /\ current = NoProc /\ requestId' = 0 /\ pending' = {} /\ buffer' = NoProc
        /\ spawned' \in {spawned, spawned + 1} /\ spawned' \in 0 .. MaxSpawns
        /\ current' \in {NoProc, spawned'}
        /\ current' # NoProc => spawned' = spawned + 1
        /\ alive' \subseteq alive \cup {spawned'} /\ (spawned' = 0 => alive' = alive)
        /\ UNCHANGED <<timers, writing, outcome, idOf, procOf, answer,
                       tornDown, stdin, stdout, cut>>
    BY DEF Start, StartFails, TypeOK
  <1>1. TypeOK'  BY <1>0, SMTT(30) DEF TypeOK
  <1>2. SentInv' /\ UniqueIds'  BY <1>0 DEF SentInv, UniqueIds, Sent
  <1>3. FreshIds'  BY <1>0 DEF FreshIds, Sent, TypeOK
  <1>4. WireInv'  BY <1>0 DEF WireInv, Labelled
  <1>5. pending = {}  BY <1>0 DEF PendingOfCurrent
  <1>6. PendingOfCurrent' /\ NoLostCall'
    BY <1>0, <1>5 DEF PendingOfCurrent, NoLostCall, Collide, Sent, Waiting
  <1>7. AnswersOfOneProcess'  BY <1>0 DEF AnswersOfOneProcess, Collide, Sent
  <1> QED  BY <1>1, <1>2, <1>3, <1>4, <1>6, <1>7

LEMMA RejectAllIInv == IInv /\ (Stop \/ \E p \in Procs : ExitEvent(p)) => IInv'
  <1> SUFFICES ASSUME IInv, Stop \/ \E p \in Procs : ExitEvent(p) PROVE IInv'
    OBVIOUS
  <1> USE SpawnsAssumption DEF IInv, NoProc, Procs
  <1>0. /\ pending' = {} /\ buffer' = NoProc /\ current' = NoProc
        /\ timers' = timers \ PendingCalls
        /\ outcome' = [c \in Calls |->
                          IF c \in PendingCalls THEN "failed" ELSE outcome[c]]
        /\ tornDown' \subseteq 1 .. spawned
        /\ UNCHANGED <<requestId, writing, idOf, procOf, answer,
                       spawned, alive, stdin, stdout, cut>>
    BY DEF Stop, ExitEvent, RejectAll, TypeOK, procVars
  <1>1. TypeOK'  BY <1>0, SMTT(30) DEF TypeOK, Outcome
  <1>2. \A c \in PendingCalls : c \in Calls /\ Waiting(c)
    BY DEF PendingCalls, PendingOfCurrent, TypeOK, Entry
  <1>3. SentInv'  BY <1>0, <1>2 DEF SentInv, Sent, Waiting
  <1>4. UniqueIds' /\ FreshIds'  BY <1>0 DEF UniqueIds, FreshIds, Sent, TypeOK
  <1>5. WireInv'  BY <1>0 DEF WireInv, Labelled
  <1>6. PendingOfCurrent'  BY <1>0 DEF PendingOfCurrent
  <1>7. AnswersOfOneProcess'  BY <1>0 DEF AnswersOfOneProcess, Collide, Sent
  <1>8. NoLostCall'
    <2> SUFFICES ASSUME NEW c \in Calls, Waiting(c)'
                 PROVE  \E d \in Calls : Collide(c, d)'
      BY DEF NoLostCall
    <2>1. Waiting(c) /\ c \notin PendingCalls  BY <1>0 DEF Waiting
    <2>2. [id |-> idOf[c], call |-> c] \notin pending  BY <2>1 DEF PendingCalls
    <2>3. PICK d \in Calls : Collide(c, d)  BY <2>1, <2>2 DEF NoLostCall
    <2> QED  BY <2>3, <1>0 DEF Collide, Sent
  <1> QED  BY <1>1, <1>3, <1>4, <1>5, <1>6, <1>7, <1>8

LEMMA SendRefusedIInv == ASSUME IInv, NEW c \in Calls, SendRefused(c) PROVE IInv'
  <1> USE SpawnsAssumption DEF IInv, NoProc, Procs, SendRefused, extVars, procVars
  <1>1. TypeOK'  BY SMTT(30) DEF TypeOK, Outcome
  <1>2. SentInv' /\ UniqueIds' /\ FreshIds'
    BY DEF SentInv, UniqueIds, FreshIds, Sent, TypeOK
  <1>3. WireInv'  BY DEF WireInv, Labelled
  <1>4. pending = {}  BY DEF PendingOfCurrent
  <1>5. PendingOfCurrent'  BY <1>4 DEF PendingOfCurrent
  <1>6. AnswersOfOneProcess'
    BY DEF AnswersOfOneProcess, Collide, Sent, TypeOK
  <1>7. NoLostCall'  BY <1>4 DEF NoLostCall, Waiting, Collide, Sent, TypeOK
  <1> QED  BY <1>1, <1>2, <1>3, <1>5, <1>6, <1>7

LEMMA SendIInv == ASSUME IInv, NEW c \in Calls, Send(c) PROVE IInv'
  <1> USE SpawnsAssumption DEF IInv, NoProc, Procs
  <1> DEFINE e == [id |-> requestId + 1, call |-> c]
  <1>0. /\ outcome[c] = "unsent" /\ ~Sent(c)
        /\ current # NoProc /\ current = spawned /\ current \in Procs
        /\ requestId' = requestId + 1 /\ requestId \in Nat
        /\ e \in Entry
        /\ pending' = pending \cup {e}
        /\ timers' = timers \cup {c} /\ writing' = writing \cup {c}
        /\ outcome' = [outcome EXCEPT ![c] = "waiting"]
        /\ idOf' = [idOf EXCEPT ![c] = requestId + 1]
        /\ procOf' = [procOf EXCEPT ![c] = current]
        /\ stdin' = [stdin EXCEPT ![current] = Append(@, e)]
        /\ UNCHANGED <<current, buffer, answer, spawned, alive, tornDown, stdout, cut>>
    BY DEF Send, NextId, SentInv, FreshIds, TypeOK, Entry
  <1> HIDE DEF e
  <1>t. /\ stdin[current] \in Seq(Entry)
        /\ idOf \in [Calls -> Nat] /\ procOf \in [Calls -> 0 .. spawned]
        /\ outcome \in [Calls -> Outcome] /\ pending \subseteq Entry
    BY <1>0 DEF TypeOK
  <1>v. /\ e.id = requestId + 1 /\ e.call = c
        /\ \A d \in Calls : d # c => idOf'[d] = idOf[d] /\ procOf'[d] = procOf[d]
                                     /\ outcome'[d] = outcome[d]
        /\ idOf'[c] = requestId + 1 /\ procOf'[c] = current /\ outcome'[c] = "waiting"
    BY <1>0, <1>t DEF e
  <1>1. TypeOK'
    <2>1. stdin' \in [Procs -> Seq(Entry)]  BY <1>0, <1>t DEF TypeOK
    <2>2. /\ outcome' \in [Calls -> Outcome]
          /\ idOf' \in [Calls -> Nat] /\ procOf' \in [Calls -> 0 .. spawned]
      BY <1>0, <1>t DEF Outcome
    <2> QED  BY <2>1, <2>2, <1>0 DEF TypeOK
  <1>2. SentInv'  BY <1>0, <1>v DEF SentInv, Sent
  <1>3. FreshIds'  BY <1>0, <1>t, <1>v DEF FreshIds, Sent
  <1>4. UniqueIds'
    BY <1>0, <1>t, <1>v DEF UniqueIds, FreshIds, Sent
  <1>5. \* The lines already on the pipes belong to calls sent before.
        ASSUME NEW p \in Procs, NEW s \in Seq(Entry), Labelled(p, s)
        PROVE  Labelled(p, s)'
    <2> SUFFICES ASSUME NEW i \in 1 .. Len(s)
                 PROVE  procOf'[s[i].call] = p /\ idOf'[s[i].call] = s[i].id
      BY DEF Labelled
    <2>1. s[i] \in Entry  BY ElementOfSeq
    <2>2. procOf[s[i].call] = p /\ idOf[s[i].call] = s[i].id
      BY <1>5 DEF Labelled
    <2>3. s[i].call # c  BY <1>0, <2>2 DEF Sent
    <2> QED  BY <2>1, <2>2, <2>3, <1>v DEF Entry
  <1>6. WireInv'
    <2> SUFFICES ASSUME NEW p \in Procs
                 PROVE  Labelled(p, stdin[p])' /\ Labelled(p, stdout[p])'
      BY DEF WireInv
    <2>t. stdin[p] \in Seq(Entry) /\ stdout[p] \in Seq(Entry)  BY DEF TypeOK
    <2>1. Labelled(p, stdin[p]) /\ Labelled(p, stdout[p])  BY DEF WireInv
    <2>2. Labelled(p, stdout[p])'
      <3>1. \A i \in 1 .. Len(stdout[p]) :
               procOf'[stdout[p][i].call] = p /\ idOf'[stdout[p][i].call] = stdout[p][i].id
        BY <1>5, <2>t, <2>1 DEF Labelled
      <3> QED  BY <3>1, <1>0 DEF Labelled
    <2>3. \A i \in 1 .. Len(stdin[p]) :
             procOf'[stdin[p][i].call] = p /\ idOf'[stdin[p][i].call] = stdin[p][i].id
      BY <1>5, <2>t, <2>1 DEF Labelled
    <2>4. CASE p # current
      BY <2>4, <2>2, <2>3, <1>0 DEF Labelled, TypeOK
    <2>5. CASE p = current
      <3>1. stdin'[p] = Append(stdin[p], e)  BY <2>5, <1>0 DEF TypeOK
      <3>2. /\ Len(stdin[p]) \in Nat /\ Len(stdin'[p]) = Len(stdin[p]) + 1
            /\ \A i \in 1 .. Len(stdin[p]) : stdin'[p][i] = stdin[p][i]
            /\ stdin'[p][Len(stdin[p]) + 1] = e
        BY <3>1, <2>t, <1>0, AppendProperties, LenProperties
      <3>3. \A i \in 1 .. Len(stdin'[p]) : i \in 1 .. Len(stdin[p]) \/ i = Len(stdin[p]) + 1
        BY <3>2
      <3>4. \A i \in 1 .. Len(stdin'[p]) :
               procOf'[stdin'[p][i].call] = p /\ idOf'[stdin'[p][i].call] = stdin'[p][i].id
        <4> SUFFICES ASSUME NEW i \in 1 .. Len(stdin'[p])
                     PROVE  /\ procOf'[stdin'[p][i].call] = p
                            /\ idOf'[stdin'[p][i].call] = stdin'[p][i].id
          OBVIOUS
        <4>1. CASE i \in 1 .. Len(stdin[p])  BY <4>1, <3>2, <2>3
        <4>2. CASE i = Len(stdin[p]) + 1  BY <4>2, <3>2, <2>5, <1>v
        <4> QED  BY <4>1, <4>2, <3>3
      <3> QED  BY <3>4, <2>2 DEF Labelled
    <2> QED  BY <2>2, <2>4, <2>5
  <1>7. PendingOfCurrent'
    <2> SUFFICES ASSUME NEW f \in pending'
                 PROVE  /\ procOf'[f.call] = current /\ idOf'[f.call] = f.id
                        /\ outcome'[f.call] = "waiting"
      BY <1>0 DEF PendingOfCurrent, Waiting
    <2>1. CASE f = e  BY <2>1, <1>v
    <2>2. CASE f \in pending
      BY <2>2, <1>0, <1>t, <1>v DEF PendingOfCurrent, Waiting, Entry
    <2> QED  BY <2>1, <2>2, <1>0
  <1>8. \* Collisions are between calls that were sent: none goes away.
        \A a, b \in Calls : Collide(a, b) => Collide(a, b)' /\ a # c /\ b # c
    BY <1>0, <1>v DEF Collide, Sent
  <1>9. AnswersOfOneProcess'
    <2> SUFFICES ASSUME NEW a \in Calls, outcome'[a] = "answered"
                 PROVE  \/ answer[a] = a
                        \/ /\ answer[a] \in Calls
                           /\ Collide(a, answer[a])'
                           /\ procOf'[answer[a]] < procOf'[a]
      BY <1>0 DEF AnswersOfOneProcess
    <2>1. a # c /\ outcome[a] = "answered"  BY <1>v
    <2>2. CASE answer[a] = a  BY <2>2
    <2>3. CASE /\ answer[a] \in Calls
               /\ Collide(a, answer[a])
               /\ procOf[answer[a]] < procOf[a]
      <3>1. Collide(a, answer[a])' /\ answer[a] # c  BY <2>3, <1>8, <1>0
      <3> QED  BY <3>1, <2>1, <2>3, <1>v
    <2> QED  BY <2>1, <2>2, <2>3 DEF AnswersOfOneProcess
  <1>10. NoLostCall'
    <2> SUFFICES ASSUME NEW a \in Calls, outcome'[a] = "waiting"
                 PROVE  \/ [id |-> idOf'[a], call |-> a] \in pending' /\ a \in timers'
                        \/ \E d \in Calls : Collide(a, d)'
      BY DEF NoLostCall, Waiting
    <2>1. CASE a = c  BY <2>1, <1>0, <1>v DEF e
    <2>2. CASE a # c  BY <2>2, <1>0, <1>v, <1>8 DEF NoLostCall, Waiting
    <2> QED  BY <2>1, <2>2
  <1> QED  BY <1>1, <1>2, <1>3, <1>4, <1>6, <1>7, <1>9, <1>10

\* Deleting an entry by its id hits the call's own entry, or that of a call
\* that was given the same id by a later process.
LEMMA DeletedEntry ==
  ASSUME IInv, NEW c \in Calls, Sent(c), NEW e \in pending, e.id = idOf[c]
  PROVE  e.call \in Calls /\ (e.call = c \/ Collide(e.call, c))
  <1>1. /\ e.call \in Calls
        /\ current # NoProc /\ procOf[e.call] = current /\ idOf[e.call] = idOf[c]
    BY DEF IInv, TypeOK, Entry, PendingOfCurrent
  <1>2. CASE procOf[c] = current  BY <1>1, <1>2 DEF IInv, UniqueIds
  <1>3. CASE procOf[c] # current  BY <1>1, <1>3 DEF Collide, Sent
  <1> QED  BY <1>1, <1>2, <1>3

LEMMA TimeoutIInv ==
  ASSUME IInv, NEW c \in Calls, TimeoutFires(c) \/ WriteFails(c)
  PROVE  IInv'
  <1> USE SpawnsAssumption DEF IInv, NoProc, Procs
  <1>0. /\ Sent(c)
        /\ pending' = {e \in pending : e.id # idOf[c]}
        /\ timers' = timers \ {c}
        /\ writing' \subseteq writing
        /\ UNCHANGED <<current, requestId, buffer, idOf, procOf, answer,
                       spawned, alive, tornDown, stdin, stdout, cut>>
        /\ outcome' \in {outcome, [outcome EXCEPT ![c] = "failed"]}
        /\ outcome \in [Calls -> Outcome]
    BY DEF TimeoutFires, WriteFails, DeletePending, SentInv, TypeOK, procVars
  <1>1. TypeOK'
    <2>1. outcome' \in [Calls -> Outcome]  BY <1>0 DEF Outcome
    <2> QED  BY <2>1, <1>0, SMTT(30) DEF TypeOK
  <1>2. SentInv'
    BY <1>0 DEF SentInv, Sent
  <1>3. UniqueIds' /\ FreshIds'  BY <1>0 DEF UniqueIds, FreshIds, Sent, TypeOK
  <1>4. WireInv'  BY <1>0 DEF WireInv, Labelled
  <1>5. \A d \in Calls : outcome'[d] = outcome[d] \/ (d = c /\ outcome'[d] = "failed")
    BY <1>0
  <1>6. PendingOfCurrent'
    <2> SUFFICES ASSUME NEW e \in pending'
                 PROVE  /\ current # NoProc /\ procOf[e.call] = current
                        /\ idOf[e.call] = e.id /\ outcome'[e.call] = "waiting"
      BY <1>0 DEF PendingOfCurrent, Waiting
    <2>1. /\ e \in pending /\ e.id # idOf[c] /\ e.call \in Calls
          /\ current # NoProc /\ procOf[e.call] = current
          /\ idOf[e.call] = e.id /\ outcome[e.call] = "waiting"
      BY <1>0 DEF PendingOfCurrent, Waiting, TypeOK, Entry
    <2> QED  BY <2>1, <1>5
  <1>7. AnswersOfOneProcess'
    BY <1>0, <1>5 DEF AnswersOfOneProcess, Collide, Sent
  <1>8. NoLostCall'
    <2> SUFFICES ASSUME NEW d \in Calls, outcome'[d] = "waiting"
                 PROVE  \/ [id |-> idOf[d], call |-> d] \in pending' /\ d \in timers'
                        \/ \E a \in Calls : Collide(d, a)
      BY <1>0 DEF NoLostCall, Waiting, Collide, Sent
    <2>1. outcome[d] = "waiting"  BY <1>5
    <2>2. CASE \E a \in Calls : Collide(d, a)  BY <2>2
    <2>3. CASE [id |-> idOf[d], call |-> d] \in pending /\ d \in timers
      <3>1. CASE d = c
        \* The call's own entry is there, so it is deleted and c is rejected.
        <4>1. pending' # pending  BY <2>3, <3>1, <1>0
        <4>2. outcome'[c] = "failed"
          BY <4>1, <2>1, <3>1, <1>0 DEF TimeoutFires, WriteFails, Waiting
        <4> QED  BY <4>2, <3>1
      <3>2. CASE d # c /\ idOf[d] = idOf[c]
        <4> DEFINE e == [id |-> idOf[d], call |-> d]
        <4>1. e \in pending /\ e.id = idOf[c] /\ e.call = d  BY <2>3, <3>2
        <4>2. d = c \/ Collide(d, c)  BY <4>1, <1>0, DeletedEntry
        <4> QED  BY <4>2, <3>2
      <3>3. CASE d # c /\ idOf[d] # idOf[c]  BY <3>3, <2>3, <1>0
      <3> QED  BY <3>1, <3>2, <3>3
    <2> QED  BY <2>1, <2>2, <2>3 DEF NoLostCall, Waiting
  <1> QED  BY <1>1, <1>2, <1>3, <1>4, <1>6, <1>7, <1>8

LEMMA ServeIInv == ASSUME IInv, NEW p \in Procs, Serve(p) PROVE IInv'
  <1> USE SpawnsAssumption DEF IInv, NoProc
  <1> DEFINE e == Head(stdin[p])
  <1>0. /\ stdin[p] # <<>> /\ stdin[p] \in Seq(Entry) /\ stdout[p] \in Seq(Entry)
        /\ stdin' = [stdin EXCEPT ![p] = Tail(@)]
        /\ stdout' = [stdout EXCEPT ![p] = Append(@, e)]
        /\ writing' \subseteq writing
        /\ UNCHANGED <<extVars, timers, outcome, idOf, procOf, answer,
                       spawned, alive, tornDown, cut>>
        /\ Labelled(p, stdin[p]) /\ Labelled(p, stdout[p])
    BY DEF Serve, TypeOK, WireInv
  <1>1. /\ Labelled(p, Tail(stdin[p])) /\ Tail(stdin[p]) \in Seq(Entry)
        /\ e \in Entry /\ procOf[e.call] = p /\ idOf[e.call] = e.id
    BY <1>0, LabelledTail
  <1> HIDE DEF e
  <1>2. Labelled(p, Append(stdout[p], e)) /\ Append(stdout[p], e) \in Seq(Entry)
    BY <1>0, <1>1, LabelledAppend
  <1>3. TypeOK'
    <2>1. stdin' \in [Procs -> Seq(Entry)] /\ stdout' \in [Procs -> Seq(Entry)]
      BY <1>0, <1>1, <1>2 DEF TypeOK
    <2> QED  BY <2>1, <1>0, SMTT(30) DEF TypeOK, extVars
  <1>4. \A q \in Procs : /\ stdin'[q] = IF q = p THEN Tail(stdin[p]) ELSE stdin[q]
                         /\ stdout'[q] = IF q = p THEN Append(stdout[p], e) ELSE stdout[q]
    BY <1>0 DEF TypeOK
  <1>5. \A q \in Procs : Labelled(q, stdin'[q]) /\ Labelled(q, stdout'[q])
    BY <1>1, <1>2, <1>4 DEF WireInv
  <1>6. WireInv'
    <2> SUFFICES ASSUME NEW q \in Procs
                 PROVE  Labelled(q, stdin[q])' /\ Labelled(q, stdout[q])'
      BY DEF WireInv
    <2>1. procOf' = procOf /\ idOf' = idOf  BY <1>0
    <2>2. Labelled(q, stdin'[q]) /\ Labelled(q, stdout'[q])  BY <1>5
    <2> QED  BY <2>1, <2>2 DEF Labelled
  <1>7. SentInv' /\ FreshIds' /\ UniqueIds'
    BY <1>0 DEF SentInv, FreshIds, UniqueIds, Sent, extVars
  <1>8. PendingOfCurrent' /\ AnswersOfOneProcess' /\ NoLostCall'
    BY <1>0 DEF PendingOfCurrent, AnswersOfOneProcess, NoLostCall, Collide, Sent,
                Waiting, extVars
  <1> QED  BY <1>3, <1>6, <1>7, <1>8

\* A process that dies, and a part of a line that arrives, settle nobody.
LEMMA QuietIInv ==
  ASSUME IInv, (\E p \in Procs : Crash(p) \/ DataPart(p)) \/ UNCHANGED vars
  PROVE  IInv'
  <1> USE SpawnsAssumption DEF IInv, NoProc
  <1>0. /\ alive' \subseteq alive /\ cut' \subseteq Procs
        /\ buffer' \in Procs \cup {NoProc, Garbage}
        /\ UNCHANGED <<current, requestId, pending, callVars,
                       spawned, tornDown, stdin, stdout>>
    BY DEF Crash, DataPart, TypeOK, vars, extVars, callVars, procVars
  <1>1. TypeOK'  BY <1>0, SMTT(30) DEF TypeOK, callVars
  <1>2. SentInv' /\ FreshIds' /\ UniqueIds' /\ WireInv'
    BY <1>0 DEF SentInv, FreshIds, UniqueIds, WireInv, Labelled, Sent, callVars
  <1>3. PendingOfCurrent' /\ AnswersOfOneProcess' /\ NoLostCall'
    BY <1>0 DEF PendingOfCurrent, AnswersOfOneProcess, NoLostCall, Collide, Sent,
                Waiting, callVars
  <1> QED  BY <1>1, <1>2, <1>3

LEMMA DataLineIInv == ASSUME IInv, NEW p \in Procs, DataLine(p) PROVE IInv'
  <1> USE SpawnsAssumption DEF IInv, NoProc
  <1> DEFINE r == Head(stdout[p])
             found == {e \in pending : e.id = r.id}
             called == {e.call : e \in found}
  <1>0. /\ stdout[p] # <<>> /\ stdout[p] \in Seq(Entry)
        /\ stdout' = [stdout EXCEPT ![p] = Tail(@)]
        /\ cut' \subseteq cut /\ buffer' = NoProc
        /\ UNCHANGED <<current, requestId, writing, idOf, procOf,
                       spawned, alive, tornDown, stdin>>
        /\ Labelled(p, stdout[p])
    BY DEF DataLine, TypeOK, WireInv
  <1>1. /\ Labelled(p, Tail(stdout[p])) /\ Tail(stdout[p]) \in Seq(Entry)
        /\ r \in Entry /\ procOf[r.call] = p /\ idOf[r.call] = r.id
    BY <1>0, LabelledTail
  <1>2. \/ /\ pending' = pending \ found /\ timers' = timers \ called
           /\ outcome' = [c \in Calls |-> IF c \in called THEN "answered" ELSE outcome[c]]
           /\ answer' = [c \in Calls |-> IF c \in called THEN r.call ELSE answer[c]]
        \/ UNCHANGED <<pending, timers, outcome, answer>>
    BY DEF DataLine, HandleResponse
  <1> HIDE DEF r
  <1>3. \A c \in called : /\ c \in Calls /\ Waiting(c) /\ procOf[c] = current
                          /\ current # NoProc /\ idOf[c] = r.id
    BY DEF PendingOfCurrent, TypeOK, Entry
  <1>c. /\ r.call \in Calls
        /\ \A e \in pending : e \in found => e.call \in called
        /\ \A e \in pending' : e \in pending
    BY <1>1, <1>2 DEF Entry
  <1> HIDE DEF found, called
  <1>4. TypeOK'
    <2>1. stdout' \in [Procs -> Seq(Entry)]  BY <1>0, <1>1 DEF TypeOK
    <2>2. /\ outcome' \in [Calls -> Outcome] /\ answer' \in [Calls -> Calls \cup {NoCall}]
          /\ pending' \subseteq Entry /\ timers' \subseteq Calls
      BY <1>2, <1>c DEF TypeOK, Outcome
    <2> QED  BY <2>1, <2>2, <1>0, SMTT(30) DEF TypeOK
  <1>5. WireInv'
    <2>1. \A q \in Procs : stdout'[q] = IF q = p THEN Tail(stdout[p]) ELSE stdout[q]
      BY <1>0 DEF TypeOK
    <2>2. \A q \in Procs : Labelled(q, stdin[q]) /\ Labelled(q, stdout'[q])
      BY <2>1, <1>1 DEF WireInv
    <2> QED  BY <2>2, <1>0 DEF WireInv, Labelled
  <1>6. SentInv'  BY <1>0, <1>2, <1>3 DEF SentInv, Sent, Waiting
  <1>7. FreshIds' /\ UniqueIds'  BY <1>0 DEF FreshIds, UniqueIds, Sent
  <1>8. PendingOfCurrent'
    <2> SUFFICES ASSUME NEW e \in pending'
                 PROVE  /\ current # NoProc /\ procOf[e.call] = current
                        /\ idOf[e.call] = e.id /\ outcome'[e.call] = "waiting"
      BY <1>0 DEF PendingOfCurrent, Waiting
    <2>1. /\ e \in pending /\ e \in Entry /\ e.call \in Calls
          /\ current # NoProc /\ procOf[e.call] = current
          /\ idOf[e.call] = e.id /\ outcome[e.call] = "waiting"
      BY <1>c DEF PendingOfCurrent, Waiting, TypeOK, Entry
    <2>2. pending' = pending \ found => e.call \notin called
      BY <2>1, <1>3 DEF found
    <2> QED  BY <2>1, <2>2, <1>2
  <1>9. AnswersOfOneProcess'
    <2> SUFFICES ASSUME NEW c \in Calls, outcome'[c] = "answered"
                 PROVE  \/ answer'[c] = c
                        \/ /\ answer'[c] \in Calls
                           /\ Collide(c, answer'[c])
                           /\ procOf[answer'[c]] < procOf[c]
      BY <1>0 DEF AnswersOfOneProcess, Collide, Sent
    <2>1. CASE outcome[c] = "answered" /\ answer'[c] = answer[c]
      BY <2>1 DEF AnswersOfOneProcess
    <2>2. CASE c \in called /\ answer'[c] = r.call
      <3>1. /\ procOf[c] = current /\ current = spawned /\ idOf[c] = r.id
            /\ procOf[r.call] = p /\ idOf[r.call] = r.id /\ p \in Nat \ {0}
            /\ procOf[r.call] \in 0 .. spawned
            /\ spawned \in Nat /\ current # NoProc
        BY <2>2, <1>1, <1>3, <1>c DEF FreshIds, TypeOK, Procs
      <3>2. CASE p = current  BY <3>1, <3>2, <2>2, <1>c DEF UniqueIds, Sent
      <3>3. CASE p # current  BY <3>1, <3>3, <2>2, <1>c DEF Collide, Sent
      <3> QED  BY <3>2, <3>3
    <2> QED  BY <2>1, <2>2, <1>2, <1>3 DEF Waiting
  <1>10. NoLostCall'
    <2> SUFFICES ASSUME NEW c \in Calls, outcome'[c] = "waiting"
                 PROVE  \/ [id |-> idOf[c], call |-> c] \in pending' /\ c \in timers'
                        \/ \E d \in Calls : Collide(c, d)
      BY <1>0 DEF NoLostCall, Waiting, Collide, Sent
    <2>1. /\ outcome[c] = "waiting"
          /\ \/ pending' = pending /\ timers' = timers
             \/ /\ pending' = pending \ found
                /\ timers' = timers \ called
                /\ c \notin called
      BY <1>2
    <2>2. [id |-> idOf[c], call |-> c] \in found => c \in called  BY <1>c DEF found
    <2> QED  BY <2>1, <2>2 DEF NoLostCall, Waiting
  <1> QED  BY <1>4, <1>5, <1>6, <1>7, <1>8, <1>9, <1>10

-----------------------------------------------------------------------------
LEMMA NextIInv == IInv /\ [Next]_vars => IInv'
  BY StartIInv, RejectAllIInv, SendRefusedIInv, SendIInv, TimeoutIInv, ServeIInv,
     QuietIInv, DataLineIInv DEF Next

LEMMA Inductive == Spec => []IInv
  BY InitIInv, NextIInv, PTL DEF Spec

\* Type correctness of the client, for any number of calls and processes.
THEOREM TypeCorrect == Spec => []TypeOK
  <1>1. IInv => TypeOK  BY DEF IInv
  <1> QED  BY Inductive, <1>1, PTL

\* The map of pending requests holds calls of the current process only, so a
\* restart never drops a call that waits (startApiStdioServer's new Map()).
THEOREM NothingDroppedByRestart == Spec => []PendingOfCurrent
  <1>1. IInv => PendingOfCurrent  BY DEF IInv
  <1> QED  BY Inductive, <1>1, PTL

\* Responses of one process are never mixed up (handleResponse): a wrong
\* answer comes from an earlier process that used the same id.
THEOREM NoMixUpInOneProcess == Spec => []AnswersOfOneProcess
  <1>1. IInv => AnswersOfOneProcess  BY DEF IInv
  <1> QED  BY Inductive, <1>1, PTL

\* A waiting call whose id was used once has its map entry and its timeout,
\* the safety half of "every call is settled" (sendApiRequest).
THEOREM WaitingCallsAreAccountedFor == Spec => []NoLostCall
  <1>1. IInv => NoLostCall  BY DEF IInv
  <1> QED  BY Inductive, <1>1, PTL

-----------------------------------------------------------------------------
(* ApiClient implements Rpc.  Beside IInv the mapping needs to know where  *)
(* the line of a call is: once on the stdin of its process, and on the     *)
(* stdout only when it was read.                                           *)

\* A timeout is armed only for a call that waits, so it settles none twice.
TimersWait == \A c \in timers : Waiting(c)

\* A request is written once, so it is carried out at most once.
WrittenOnce ==
    \A p \in Procs : \A i, j \in 1 .. Len(stdin[p]) :
        stdin[p][i].call = stdin[p][j].call => i = j

\* What the daemon has answered it has read.
AnsweredIsRead ==
    \A p \in Procs : \A i \in 1 .. Len(stdout[p]) : CarriedOut(stdout[p][i].call)

RInv == IInv /\ TimersWait /\ WrittenOnce /\ AnsweredIsRead

-----------------------------------------------------------------------------
LEMMA PipeFacts ==
  ASSUME TypeOK, NEW p \in Procs
  PROVE  /\ stdin[p] \in Seq(Entry) /\ stdout[p] \in Seq(Entry)
         /\ Len(stdin[p]) \in Nat /\ Len(stdout[p]) \in Nat
         /\ DOMAIN stdin[p] = 1 .. Len(stdin[p])
         /\ \A i \in 1 .. Len(stdin[p]) : stdin[p][i] \in Entry
         /\ \A i \in 1 .. Len(stdout[p]) : stdout[p][i] \in Entry
  <1>1. stdin[p] \in Seq(Entry) /\ stdout[p] \in Seq(Entry)  BY DEF TypeOK
  <1> QED  BY <1>1, LenProperties, ElementOfSeq

\* A call was carried out when it was sent and no line of it is left to read.
LEMMA CarriedOutAt ==
  ASSUME TypeOK, NEW c \in Calls
  PROVE  CarriedOut(c) <=>
            /\ Sent(c) /\ procOf[c] \in Procs
            /\ \A i \in 1 .. Len(stdin[procOf[c]]) : stdin[procOf[c]][i].call # c
  <1>1. Sent(c) => procOf[c] \in Procs  BY SpawnsAssumption DEF TypeOK, Sent, NoProc, Procs
  <1> QED  BY <1>1, PipeFacts DEF CarriedOut

LEMMA CarriedOutPrime ==
  ASSUME TypeOK', NEW c \in Calls
  PROVE  CarriedOut(c)' <=>
            /\ procOf'[c] # NoProc /\ procOf'[c] \in Procs
            /\ \A i \in 1 .. Len(stdin'[procOf'[c]]) : stdin'[procOf'[c]][i].call # c
  <1>1. Sent(c)' => procOf'[c] \in Procs
    <2>1. procOf'[c] \in 0 .. spawned' /\ spawned' \in 0 .. MaxSpawns  BY DEF TypeOK
    <2> QED  BY <2>1, SpawnsAssumption DEF Sent, NoProc, Procs
  <1>2. ASSUME NEW p \in Procs PROVE DOMAIN stdin'[p] = 1 .. Len(stdin'[p])
    <2>1. stdin'[p] \in Seq(Entry)  BY DEF TypeOK
    <2> QED  BY <2>1, LenProperties
  <1> QED  BY <1>1, <1>2 DEF CarriedOut, Sent

LEMMA InitRInv == Init => RInv
  BY InitIInv DEF RInv, Init, TimersWait, WrittenOnce, AnsweredIsRead

-----------------------------------------------------------------------------
(* What a step does to the mapped state.                                   *)

\* While no line is read and no call sent, only outcomes change.
LEMMA SamePipes ==
  ASSUME UNCHANGED <<stdin, procOf, idOf>>
  PROVE  /\ Done' = Done /\ Confused' = Confused
         /\ \A c \in Calls : CarriedOut(c)' <=> CarriedOut(c)
         /\ WrittenOnce => WrittenOnce'
  BY DEF Done, Confused, CarriedOut, Collide, Sent, WrittenOnce

\* Calls are settled with an error: those in cs, all of which waited.
LEMMA FailStep ==
  ASSUME UNCHANGED <<stdin, procOf, idOf>>, NEW cs \in SUBSET Calls,
         \A c \in cs : Waiting(c) /\ Sent(c),
         \A c \in Calls : outcome'[c] = IF c \in cs THEN "failed" ELSE outcome[c]
  PROVE  [R!Next]_(R!vars)
  <1>1. Done' = Done /\ Confused' = Confused  BY SamePipes
  <1>2. CallStatus' = [c \in Calls |-> IF c \in cs THEN "failed" ELSE CallStatus[c]]
    BY DEF CallStatus, Sent
  <1>3. \A c \in cs : CallStatus[c] = "waiting"  BY DEF CallStatus, Waiting
  <1>4. CASE cs = {}
    <2>1. CallStatus' = CallStatus  BY <1>2, <1>4 DEF CallStatus
    <2> QED  BY <2>1, <1>1 DEF R!vars
  <1>5. CASE cs # {}
    <2>1. R!Fail(cs)  BY <1>1, <1>2, <1>3, <1>5 DEF R!Fail
    <2> QED  BY <2>1 DEF R!Next
  <1> QED  BY <1>4, <1>5

LEMMA StutterStep ==
  ASSUME UNCHANGED <<stdin, procOf, idOf, outcome>>
  PROVE  UNCHANGED R!vars
  <1>1. Done' = Done /\ Confused' = Confused  BY SamePipes
  <1>2. CallStatus' = CallStatus  BY DEF CallStatus, Sent
  <1> QED  BY <1>1, <1>2 DEF R!vars

-----------------------------------------------------------------------------
(* One lemma per kind of action: it keeps RInv and is a step of Rpc.       *)

\* Processes start and die, parts of lines arrive.
LEMMA QuietStep ==
  ASSUME RInv, Start \/ StartFails \/ (\E p \in Procs : Crash(p) \/ DataPart(p))
               \/ UNCHANGED vars
  PROVE  RInv' /\ [R!Next]_(R!vars)
  <1>1. IInv'  BY StartIInv, QuietIInv DEF RInv
  <1>2. UNCHANGED <<timers, outcome, idOf, procOf, stdin, stdout>>
    BY DEF Start, StartFails, Crash, DataPart, vars, extVars, callVars, procVars
  <1>3. /\ TimersWait'
        /\ WrittenOnce' /\ AnsweredIsRead'
    <2>1. TimersWait'  BY <1>2 DEF RInv, TimersWait, Waiting
    <2>2. WrittenOnce' /\ AnsweredIsRead'
      BY <1>2 DEF RInv, WrittenOnce, AnsweredIsRead, CarriedOut, Sent
    <2> QED  BY <2>1, <2>2
  <1>4. UNCHANGED R!vars  BY <1>2, StutterStep
  <1> QED  BY <1>1, <1>3, <1>4 DEF RInv

LEMMA RejectAllStep ==
  ASSUME RInv, Stop \/ \E p \in Procs : ExitEvent(p)
  PROVE  RInv' /\ [R!Next]_(R!vars)
  <1>1. IInv'  BY RejectAllIInv DEF RInv
  <1>2. /\ UNCHANGED <<idOf, procOf, stdin, stdout>>
        /\ timers' = timers \ PendingCalls
        /\ outcome' = [c \in Calls |-> IF c \in PendingCalls THEN "failed" ELSE outcome[c]]
    BY DEF Stop, ExitEvent, RejectAll, procVars
  <1>3. PendingCalls \in SUBSET Calls /\ \A c \in PendingCalls : Waiting(c) /\ Sent(c)
    BY DEF RInv, IInv, TypeOK, PendingCalls, PendingOfCurrent, Entry, Sent
  <1>4. TimersWait'
    BY <1>2 DEF RInv, IInv, TypeOK, TimersWait, Waiting
  <1>5. WrittenOnce' /\ AnsweredIsRead'
    BY <1>2 DEF RInv, WrittenOnce, AnsweredIsRead, CarriedOut, Sent
  <1>6. [R!Next]_(R!vars)  BY <1>2, <1>3, FailStep
  <1> QED  BY <1>1, <1>4, <1>5, <1>6 DEF RInv

LEMMA SettleStep ==
  ASSUME RInv, NEW c \in Calls, TimeoutFires(c) \/ WriteFails(c)
  PROVE  RInv' /\ [R!Next]_(R!vars)
  <1>1. IInv'  BY TimeoutIInv DEF RInv
  <1>2. /\ UNCHANGED <<idOf, procOf, stdin, stdout>>
        /\ timers' = timers \ {c} /\ Sent(c) /\ outcome \in [Calls -> Outcome]
        /\ \/ outcome' = [outcome EXCEPT ![c] = "failed"] /\ Waiting(c)
           \/ outcome' = outcome
    BY DEF TimeoutFires, WriteFails, procVars, RInv, IInv, TypeOK, SentInv, TimersWait
  <1>3. TimersWait'  BY <1>2 DEF RInv, IInv, TypeOK, TimersWait, Waiting
  <1>4. WrittenOnce' /\ AnsweredIsRead'
    BY <1>2 DEF RInv, WrittenOnce, AnsweredIsRead, CarriedOut, Sent
  <1>5. CASE outcome' = outcome
    <2>1. UNCHANGED R!vars  BY <1>2, <1>5, StutterStep
    <2> QED  BY <2>1, <1>1, <1>3, <1>4 DEF RInv
  <1>6. CASE outcome' = [outcome EXCEPT ![c] = "failed"] /\ Waiting(c)
    <2>1. \A d \in Calls : outcome'[d] = IF d \in {c} THEN "failed" ELSE outcome[d]
      BY <1>2, <1>6
    <2>2. [R!Next]_(R!vars)  BY <2>1, <1>2, <1>6, FailStep
    <2> QED  BY <2>2, <1>1, <1>3, <1>4 DEF RInv
  <1> QED  BY <1>2, <1>5, <1>6

LEMMA SendRefusedStep ==
  ASSUME RInv, NEW c \in Calls, SendRefused(c)
  PROVE  RInv' /\ [R!Next]_(R!vars)
  <1>1. IInv'  BY SendRefusedIInv DEF RInv
  <1>2. /\ UNCHANGED <<timers, idOf, procOf, stdin, stdout>>
        /\ outcome[c] = "unsent" /\ ~Sent(c) /\ outcome \in [Calls -> Outcome]
        /\ outcome' = [outcome EXCEPT ![c] = "failed"]
    BY DEF SendRefused, procVars, RInv, IInv, TypeOK, SentInv
  <1>3. TimersWait'  BY <1>2 DEF RInv, IInv, TypeOK, TimersWait, Waiting
  <1>4. WrittenOnce' /\ AnsweredIsRead'
    BY <1>2 DEF RInv, WrittenOnce, AnsweredIsRead, CarriedOut, Sent
  <1>5. Done' = Done /\ Confused' = Confused  BY <1>2, SamePipes
  <1>6. CallStatus[c] = "unsent" /\ CallStatus' = [CallStatus EXCEPT ![c] = "refused"]
    BY <1>2 DEF CallStatus, Sent
  <1>7. R!Refuse(c)  BY <1>5, <1>6 DEF R!Refuse, R!Settle
  <1> QED  BY <1>1, <1>3, <1>4, <1>7 DEF RInv, R!Next

LEMMA SendStep ==
  ASSUME RInv, NEW c \in Calls, Send(c)
  PROVE  RInv' /\ [R!Next]_(R!vars)
  <1> DEFINE e == [id |-> requestId + 1, call |-> c]
  <1>1. IInv'  BY SendIInv DEF RInv
  <1>2. /\ outcome[c] = "unsent" /\ ~Sent(c)
        /\ current # NoProc /\ current \in Procs
        /\ e \in Entry /\ e.call = c
        /\ timers' = timers \cup {c}
        /\ outcome' = [outcome EXCEPT ![c] = "waiting"] /\ outcome \in [Calls -> Outcome]
        /\ idOf' = [idOf EXCEPT ![c] = requestId + 1] /\ idOf \in [Calls -> Nat]
        /\ procOf' = [procOf EXCEPT ![c] = current] /\ procOf \in [Calls -> 0 .. spawned]
        /\ stdin' = [stdin EXCEPT ![current] = Append(@, e)]
        /\ stdin \in [Procs -> Seq(Entry)] /\ stdout' = stdout
    BY SpawnsAssumption
    DEF Send, NextId, RInv, IInv, SentInv, FreshIds, TypeOK, Entry, NoProc, Procs
  <1> HIDE DEF e
  <1>3. /\ \A d \in Calls : d # c => idOf'[d] = idOf[d] /\ procOf'[d] = procOf[d]
                                     /\ outcome'[d] = outcome[d]
        /\ procOf'[c] = current /\ outcome'[c] = "waiting"
        /\ \A p \in Procs : p # current => stdin'[p] = stdin[p]
        /\ stdin'[current] = Append(stdin[current], e)
    BY <1>2
  <1>4. /\ Len(stdin[current]) \in Nat /\ Len(stdin'[current]) = Len(stdin[current]) + 1
        /\ \A i \in 1 .. Len(stdin[current]) : stdin'[current][i] = stdin[current][i]
        /\ stdin'[current][Len(stdin[current]) + 1] = e
        /\ \A i \in 1 .. Len(stdin'[current]) :
              i \in 1 .. Len(stdin[current]) \/ i = Len(stdin[current]) + 1
        /\ \A i \in 1 .. Len(stdin[current]) : i \in 1 .. Len(stdin'[current])
        /\ Len(stdin[current]) + 1 \in 1 .. Len(stdin'[current])
    BY <1>2, <1>3, AppendProperties, LenProperties
  <1>5. \* No line of c is anywhere before.
        \A p \in Procs :
           /\ \A i \in 1 .. Len(stdin[p]) : stdin[p][i].call # c
           /\ \A i \in 1 .. Len(stdout[p]) : stdout[p][i].call # c
    <2>1. procOf[c] = NoProc /\ NoProc \notin Procs
      BY <1>2, SpawnsAssumption DEF Sent, Procs, NoProc
    <2>2. \A p \in Procs : Labelled(p, stdin[p]) /\ Labelled(p, stdout[p])
      BY DEF RInv, IInv, WireInv
    <2> QED  BY <2>1, <2>2 DEF Labelled
  <1>6. TimersWait'
    BY <1>2, <1>3 DEF RInv, IInv, TypeOK, TimersWait, Waiting
  <1>7. WrittenOnce'
    <2> SUFFICES ASSUME NEW p \in Procs, NEW i \in 1 .. Len(stdin'[p]),
                        NEW j \in 1 .. Len(stdin'[p]), stdin'[p][i].call = stdin'[p][j].call
                 PROVE  i = j
      BY DEF WrittenOnce
    <2>1. CASE p # current  BY <2>1, <1>3 DEF RInv, WrittenOnce
    <2>2. CASE p = current /\ i \in 1 .. Len(stdin[p]) /\ j \in 1 .. Len(stdin[p])
      <3>1. stdin[p][i].call = stdin[p][j].call  BY <2>2, <1>4
      <3> QED  BY <3>1, <2>2 DEF RInv, WrittenOnce
    <2>3. CASE p = current /\ ~(i \in 1 .. Len(stdin[p]) /\ j \in 1 .. Len(stdin[p]))
      BY <2>3, <1>2, <1>4, <1>5
    <2> QED  BY <2>1, <2>2, <2>3
  <1>8. \A d \in Calls : CarriedOut(d)' <=> CarriedOut(d)
    <2> SUFFICES ASSUME NEW d \in Calls PROVE CarriedOut(d)' <=> CarriedOut(d)
      OBVIOUS
    <2>0. TypeOK /\ TypeOK'  BY <1>1 DEF RInv, IInv
    <2>1. CarriedOut(d)' <=>
            /\ procOf'[d] # NoProc /\ procOf'[d] \in Procs
            /\ \A i \in 1 .. Len(stdin'[procOf'[d]]) : stdin'[procOf'[d]][i].call # d
      BY <2>0, CarriedOutPrime
    <2>2. CarriedOut(d) <=>
            /\ Sent(d) /\ procOf[d] \in Procs
            /\ \A i \in 1 .. Len(stdin[procOf[d]]) : stdin[procOf[d]][i].call # d
      BY <2>0, CarriedOutAt
    <2>3. CASE d = c
      <3>1. ~CarriedOut(d)  BY <2>2, <2>3, <1>2
      <3>2. ~CarriedOut(d)'  BY <2>1, <2>3, <1>2, <1>3, <1>4
      <3> QED  BY <3>1, <3>2
    <2>4. CASE d # c /\ procOf[d] = current
      <3>1. (\A i \in 1 .. Len(stdin[current]) : stdin[current][i].call # d)
            <=> (\A i \in 1 .. Len(stdin'[current]) : stdin'[current][i].call # d)
        BY <2>4, <1>2, <1>4
      <3> QED  BY <3>1, <2>1, <2>2, <2>4, <1>2, <1>3 DEF Sent
    <2>5. CASE d # c /\ procOf[d] # current
      BY <2>1, <2>2, <2>5, <1>3 DEF Sent
    <2> QED  BY <2>3, <2>4, <2>5
  <1>9. AnsweredIsRead'
    <2>1. \A p \in Procs : \A i \in 1 .. Len(stdout[p]) : stdout[p][i].call \in Calls
      BY PipeFacts DEF RInv, IInv, Entry
    <2>2. ASSUME NEW p \in Procs, NEW i \in 1 .. Len(stdout[p])
          PROVE  CarriedOut(stdout[p][i].call)'
      <3>1. PICK d \in Calls : d = stdout[p][i].call  BY <2>1
      <3>2. CarriedOut(d)  BY <3>1 DEF RInv, AnsweredIsRead
      <3>3. CarriedOut(d)'  BY <3>2, <1>8
      <3>4. stdout'[p][i].call = d  BY <3>1, <1>2
      <3> QED  BY <3>1, <3>3, <1>2 DEF CarriedOut, Sent
    <2> QED  BY <2>2, <1>2 DEF AnsweredIsRead
  <1>10. Done' = Done  BY <1>8 DEF Done
  <1>11. \E reused \in SUBSET Calls : Confused' = Confused \cup reused
    <2>1. \A a, b \in Calls : Collide(a, b) => Collide(a, b)'
      BY <1>2, <1>3 DEF Collide, Sent
    <2>2. Confused \subseteq Confused' /\ Confused' \in SUBSET Calls
      BY <2>1 DEF Confused
    <2>3. Confused' = Confused \cup Confused'  BY <2>2
    <2> QED  BY <2>2, <2>3
  <1>12. CallStatus[c] = "unsent" /\ CallStatus' = [CallStatus EXCEPT ![c] = "waiting"]
    <2>1. \A d \in Calls : d # c => (Sent(d)' <=> Sent(d))  BY <1>3 DEF Sent
    <2> QED  BY <2>1, <1>2, <1>3 DEF CallStatus
  <1>13. R!Send(c)  BY <1>10, <1>11, <1>12 DEF R!Send, R!Settle, R!Reuse
  <1> QED  BY <1>1, <1>6, <1>7, <1>9, <1>13 DEF RInv, R!Next

\* The daemon reads a line: the call is carried out, for the first time.
LEMMA ServeStep ==
  ASSUME RInv, NEW p \in Procs, Serve(p)
  PROVE  RInv' /\ [R!Next]_(R!vars)
  <1>1. IInv'  BY ServeIInv DEF RInv
  <1>2. PICK c \in Calls : c = Head(stdin[p]).call
    <2>1. stdin[p] \in Seq(Entry) /\ stdin[p] # <<>>  BY DEF RInv, IInv, TypeOK, Serve
    <2>2. Head(stdin[p]) \in Entry  BY <2>1, HeadTailProperties
    <2>3. Head(stdin[p]).call \in Calls  BY <2>2 DEF Entry
    <2> QED  BY <2>3
  <1>3. /\ stdin[p] \in Seq(Entry) /\ stdin[p] # <<>> /\ stdout[p] \in Seq(Entry)
        /\ stdin' = [stdin EXCEPT ![p] = Tail(@)] /\ stdin \in [Procs -> Seq(Entry)]
        /\ stdout' = [stdout EXCEPT ![p] = Append(@, Head(stdin[p]))]
        /\ stdout \in [Procs -> Seq(Entry)] /\ Head(stdin[p]) \in Entry
        /\ UNCHANGED <<timers, outcome, idOf, procOf>>
    <2>1. stdin[p] \in Seq(Entry) /\ stdin[p] # <<>>  BY DEF RInv, IInv, TypeOK, Serve
    <2>2. Head(stdin[p]) \in Entry  BY <2>1, HeadTailProperties
    <2> QED  BY <2>1, <2>2 DEF RInv, IInv, TypeOK, Serve
  <1>4. /\ \A q \in Procs : q # p => stdin'[q] = stdin[q] /\ stdout'[q] = stdout[q]
        /\ stdin'[p] = Tail(stdin[p]) /\ stdout'[p] = Append(stdout[p], Head(stdin[p]))
    BY <1>3
  <1>5. /\ Len(stdin[p]) \in Nat /\ Len(stdin[p]) >= 1
        /\ Len(stdin'[p]) = Len(stdin[p]) - 1
        /\ \A i \in 1 .. Len(stdin'[p]) : stdin'[p][i] = stdin[p][i + 1]
        /\ Head(stdin[p]) = stdin[p][1]
    BY <1>3, <1>4, HeadTailProperties, LenProperties, EmptySeq
  <1>6. /\ \A i \in 1 .. Len(stdin'[p]) : i + 1 \in 1 .. Len(stdin[p]) /\ i + 1 # 1
        /\ \A i \in 1 .. Len(stdin[p]) : i = 1 \/ (i - 1 \in 1 .. Len(stdin'[p])
                                                  /\ stdin'[p][i - 1] = stdin[p][i])
        /\ 1 \in 1 .. Len(stdin[p]) /\ stdin[p][1].call = c
    BY <1>2, <1>5
  <1>7. /\ Len(stdout[p]) \in Nat /\ Len(stdout'[p]) = Len(stdout[p]) + 1
        /\ \A i \in 1 .. Len(stdout[p]) : stdout'[p][i] = stdout[p][i]
        /\ stdout'[p][Len(stdout[p]) + 1].call = c
        /\ \A i \in 1 .. Len(stdout'[p]) : i \in 1 .. Len(stdout[p]) \/ i = Len(stdout[p]) + 1
    BY <1>2, <1>3, <1>4, AppendProperties, LenProperties
  <1>8. procOf[c] = p /\ Sent(c)
    <2>1. Labelled(p, stdin[p])  BY DEF RInv, IInv, WireInv
    <2>2. procOf[c] = p  BY <2>1, <1>6 DEF Labelled
    <2> QED  BY <2>2, SpawnsAssumption DEF Sent, Procs, NoProc
  <1>9. TimersWait'  BY <1>3 DEF RInv, TimersWait, Waiting
  <1>10. WrittenOnce'
    <2> SUFFICES ASSUME NEW q \in Procs, NEW i \in 1 .. Len(stdin'[q]),
                        NEW j \in 1 .. Len(stdin'[q]), stdin'[q][i].call = stdin'[q][j].call
                 PROVE  i = j
      BY DEF WrittenOnce
    <2>1. CASE q # p  BY <2>1, <1>4 DEF RInv, WrittenOnce
    <2>2. CASE q = p
      <3>1. stdin[p][i + 1].call = stdin[p][j + 1].call  BY <2>2, <1>5
      <3>2. i + 1 \in 1 .. Len(stdin[p]) /\ j + 1 \in 1 .. Len(stdin[p])
        BY <2>2, <1>6
      <3>3. i + 1 = j + 1  BY <3>1, <3>2 DEF RInv, WrittenOnce
      <3> QED  BY <3>3
    <2> QED  BY <2>1, <2>2
  <1>11. \A d \in Calls : CarriedOut(d)' <=> CarriedOut(d) \/ d = c
    <2> SUFFICES ASSUME NEW d \in Calls PROVE CarriedOut(d)' <=> CarriedOut(d) \/ d = c
      OBVIOUS
    <2>0. TypeOK /\ TypeOK'  BY <1>1 DEF RInv, IInv
    <2>1. CarriedOut(d)' <=>
            /\ procOf'[d] # NoProc /\ procOf'[d] \in Procs
            /\ \A i \in 1 .. Len(stdin'[procOf'[d]]) : stdin'[procOf'[d]][i].call # d
      BY <2>0, CarriedOutPrime
    <2>2. CarriedOut(d) <=>
            /\ Sent(d) /\ procOf[d] \in Procs
            /\ \A i \in 1 .. Len(stdin[procOf[d]]) : stdin[procOf[d]][i].call # d
      BY <2>0, CarriedOutAt
    <2>3. CASE d = c
      <3>1. \A i \in 1 .. Len(stdin'[p]) : stdin'[p][i].call # c
        <4> SUFFICES ASSUME NEW i \in 1 .. Len(stdin'[p]), stdin'[p][i].call = c PROVE FALSE
          OBVIOUS
        <4>1. stdin[p][i + 1].call = stdin[p][1].call  BY <1>5, <1>6
        <4> QED  BY <4>1, <1>6 DEF RInv, WrittenOnce
      <3> QED  BY <3>1, <2>1, <2>3, <1>3, <1>8 DEF Sent
    <2>4. CASE d # c /\ procOf[d] = p
      <3>1. (\A i \in 1 .. Len(stdin[p]) : stdin[p][i].call # d)
            <=> (\A i \in 1 .. Len(stdin'[p]) : stdin'[p][i].call # d)
        <4>1. ASSUME NEW i \in 1 .. Len(stdin[p]), stdin[p][i].call = d
              PROVE  i - 1 \in 1 .. Len(stdin'[p]) /\ stdin'[p][i - 1].call = d
          BY <4>1, <2>4, <1>6
        <4>2. ASSUME NEW i \in 1 .. Len(stdin'[p]), stdin'[p][i].call = d
              PROVE  i + 1 \in 1 .. Len(stdin[p]) /\ stdin[p][i + 1].call = d
          BY <4>2, <1>5, <1>6
        <4> QED  BY <4>1, <4>2
      <3> QED  BY <3>1, <2>1, <2>2, <2>4, <1>3 DEF Sent
    <2>5. CASE d # c /\ procOf[d] # p
      BY <2>1, <2>2, <2>5, <1>3, <1>4 DEF Sent
    <2> QED  BY <2>3, <2>4, <2>5
  <1>12. ~CarriedOut(c)
    BY <1>6, <1>8, CarriedOutAt DEF RInv, IInv
  <1>13. AnsweredIsRead'
    <2>1. \A q \in Procs : \A i \in 1 .. Len(stdout[q]) :
             stdout[q][i].call \in Calls /\ CarriedOut(stdout[q][i].call)
      BY PipeFacts DEF RInv, IInv, Entry, AnsweredIsRead
    <2>2. ASSUME NEW q \in Procs, NEW i \in 1 .. Len(stdout'[q])
          PROVE  \E d \in Calls : d = stdout'[q][i].call /\ (CarriedOut(d) \/ d = c)
      <3>1. CASE q # p  BY <3>1, <2>1, <1>4
      <3>2. CASE q = p /\ i \in 1 .. Len(stdout[p])  BY <3>2, <2>1, <1>7
      <3>3. CASE q = p /\ i = Len(stdout[p]) + 1  BY <3>3, <1>7
      <3> QED  BY <3>1, <3>2, <3>3, <1>7
    <2>3. ASSUME NEW q \in Procs, NEW i \in 1 .. Len(stdout'[q])
          PROVE  CarriedOut(stdout[q][i].call)'
      <3>1. PICK d \in Calls : d = stdout'[q][i].call /\ CarriedOut(d)'
        BY <2>2, <1>11
      <3> QED  BY <3>1, <1>3 DEF CarriedOut, Sent
    <2> QED  BY <2>3 DEF AnsweredIsRead
  <1>14. Done' = Done \cup {c} /\ c \notin Done  BY <1>11, <1>12 DEF Done
  <1>15. Confused' = Confused  BY <1>3 DEF Confused, Collide, Sent
  <1>16. /\ CallStatus' = CallStatus
         /\ CallStatus[c] \notin {"unsent", "refused"}
    <2>1. outcome[c] # "unsent" /\ outcome[c] \in Outcome
      BY <1>8 DEF RInv, IInv, SentInv, TypeOK
    <2> QED  BY <2>1, <1>3, <1>8 DEF CallStatus, Sent, Outcome
  <1>17. R!CarryOut(c)  BY <1>14, <1>15, <1>16 DEF R!CarryOut
  <1> QED  BY <1>1, <1>9, <1>10, <1>13, <1>17 DEF RInv, R!Next

\* A response settles at most one call: its own, which was carried out, or one
\* that shares its id.
LEMMA DataLineStep ==
  ASSUME RInv, NEW p \in Procs, DataLine(p)
  PROVE  RInv' /\ [R!Next]_(R!vars)
  <1>1. IInv'  BY DataLineIInv DEF RInv
  <1>2. /\ stdout[p] \in Seq(Entry) /\ stdout[p] # <<>>
        /\ stdout \in [Procs -> Seq(Entry)] /\ outcome \in [Calls -> Outcome]
        /\ stdout' = [stdout EXCEPT ![p] = Tail(@)]
        /\ UNCHANGED <<idOf, procOf, stdin>>
    BY DEF RInv, IInv, TypeOK, DataLine
  <1>3. PICK r \in Entry : r = Head(stdout[p])  BY <1>2, HeadTailProperties
  <1>4. /\ Len(stdout[p]) \in Nat /\ Len(stdout[p]) >= 1
        /\ stdout'[p] = Tail(stdout[p]) /\ Len(stdout'[p]) = Len(stdout[p]) - 1
        /\ \A i \in 1 .. Len(stdout'[p]) : stdout'[p][i] = stdout[p][i + 1]
        /\ \A i \in 1 .. Len(stdout'[p]) : i + 1 \in 1 .. Len(stdout[p])
        /\ 1 \in 1 .. Len(stdout[p]) /\ stdout[p][1] = r
        /\ \A q \in Procs : q # p => stdout'[q] = stdout[q]
    <2>1. stdout'[p] = Tail(stdout[p]) /\ \A q \in Procs : q # p => stdout'[q] = stdout[q]
      BY <1>2
    <2> QED  BY <2>1, <1>2, <1>3, HeadTailProperties, LenProperties, EmptySeq
  <1>5. r.call \in Calls /\ CarriedOut(r.call) /\ procOf[r.call] = p /\ idOf[r.call] = r.id
    <2>1. Labelled(p, stdout[p])  BY DEF RInv, IInv, WireInv
    <2> QED  BY <2>1, <1>3, <1>4 DEF RInv, AnsweredIsRead, Labelled, Entry
  <1>6. WrittenOnce'  BY <1>2 DEF RInv, WrittenOnce
  <1>7. AnsweredIsRead'
    <2>1. ASSUME NEW q \in Procs, NEW i \in 1 .. Len(stdout'[q])
          PROVE  CarriedOut(stdout'[q][i].call)
      <3>1. CASE q # p  BY <3>1, <1>4 DEF RInv, AnsweredIsRead
      <3>2. CASE q = p  BY <3>2, <1>4 DEF RInv, AnsweredIsRead
      <3> QED  BY <3>1, <3>2
    <2>2. ASSUME NEW q \in Procs, NEW i \in 1 .. Len(stdout'[q])
          PROVE  CarriedOut(stdout[q][i].call)'
      <3>1. PICK d : d = stdout'[q][i].call  OBVIOUS
      <3>2. CarriedOut(d)  BY <3>1, <2>1
      <3> QED  BY <3>1, <3>2, <1>2 DEF CarriedOut, Sent
    <2> QED  BY <2>2 DEF AnsweredIsRead
  <1>8. Done' = Done /\ Confused' = Confused  BY <1>2, SamePipes
  <1>9. CASE UNCHANGED <<pending, timers, outcome, answer>>
    <2>1. TimersWait'  BY <1>9 DEF RInv, TimersWait, Waiting
    <2>2. UNCHANGED R!vars  BY <1>2, <1>9, StutterStep
    <2> QED  BY <1>1, <1>6, <1>7, <2>1, <2>2 DEF RInv
  <1>10. CASE HandleResponse(r)
    <2> DEFINE called == {e.call : e \in {f \in pending : f.id = r.id}}
    <2>1. /\ timers' = timers \ called
          /\ outcome' = [c \in Calls |-> IF c \in called THEN "answered" ELSE outcome[c]]
      BY <1>10 DEF HandleResponse
    <2>2. \A c \in called : /\ c \in Calls /\ Waiting(c) /\ Sent(c)
                            /\ procOf[c] = current /\ idOf[c] = r.id
      BY DEF RInv, IInv, PendingOfCurrent, TypeOK, Entry, Sent
    <2>3. \A c, d \in called : c = d
      BY <2>2 DEF RInv, IInv, UniqueIds
    <2> HIDE DEF called
    <2>4. TimersWait'  BY <2>1 DEF RInv, IInv, TypeOK, TimersWait, Waiting
    <2>5. [R!Next]_(R!vars)
      <3>1. CASE called = {}
        <4>1. \A c \in Calls : outcome'[c] = outcome[c]  BY <3>1, <2>1
        <4>2. outcome' = outcome  BY <4>1, <2>1, <1>2
        <4>3. UNCHANGED R!vars  BY <4>2, <1>2, StutterStep
        <4> QED  BY <4>3
      <3>2. CASE called # {}
        <4>1. PICK c \in called : TRUE  BY <3>2
        <4>2. c \in Calls /\ Waiting(c) /\ Sent(c) /\ idOf[c] = r.id  BY <4>1, <2>2
        <4>3. \A d \in Calls : d \in called <=> d = c  BY <4>1, <2>3
        <4>4. c \in Done \cup Confused
          <5>1. CASE c = r.call  BY <5>1, <4>2, <1>5 DEF Done
          <5>2. CASE c # r.call
            <6>1. Sent(r.call)  BY <1>5 DEF CarriedOut
            <6>2. procOf[c] # procOf[r.call]
              BY <5>2, <4>2, <1>5 DEF RInv, IInv, UniqueIds
            <6>3. Collide(c, r.call)  BY <6>1, <6>2, <4>2, <1>5 DEF Collide
            <6> QED  BY <6>3, <4>2, <1>5 DEF Confused
          <5> QED  BY <5>1, <5>2
        <4>5. /\ CallStatus[c] = "waiting"
              /\ CallStatus' = [CallStatus EXCEPT ![c] = "answered"]
          BY <2>1, <4>2, <4>3, <1>2 DEF CallStatus, Waiting, Sent
        <4>6. R!Answer(c)  BY <4>4, <4>5, <1>8 DEF R!Answer, R!Settle
        <4> QED  BY <4>2, <4>6 DEF R!Next
      <3> QED  BY <3>1, <3>2
    <2> QED  BY <1>1, <1>6, <1>7, <2>4, <2>5 DEF RInv
  <1> QED  BY <1>3, <1>9, <1>10 DEF DataLine

-----------------------------------------------------------------------------
LEMMA NextStep == RInv /\ [Next]_vars => RInv' /\ [R!Next]_(R!vars)
  BY QuietStep, RejectAllStep, SettleStep, SendRefusedStep, SendStep, ServeStep,
     DataLineStep DEF Next

LEMMA InitMaps == Init => R!Init
  <1> SUFFICES ASSUME Init PROVE R!Init  OBVIOUS
  <1>1. \A c \in Calls : ~Sent(c) /\ outcome[c] = "unsent"  BY DEF Init, Sent
  <1>2. Done = {} /\ Confused = {}
    BY <1>1 DEF Done, Confused, CarriedOut, Collide
  <1>3. CallStatus = [c \in Calls |-> "unsent"]  BY <1>1 DEF CallStatus
  <1> QED  BY <1>2, <1>3 DEF R!Init

\* The extension's client keeps what Rpc promises its callers: whatever
\* crashes, restarts, times out or comes late (apiStdioServer.ts), a call is
\* settled at most once and answered only when it was carried out, unless its
\* id was used by two processes.
THEOREM ClientImplementsRpc == Spec => ImplementsRpc
  <1>1. Init => RInv /\ R!Init  BY InitRInv, InitMaps
  <1>2. RInv /\ [Next]_vars => RInv' /\ [R!Next]_(R!vars)  BY NextStep
  <1> QED  BY <1>1, <1>2, PTL DEF Spec, ImplementsRpc, R!Spec
=============================================================================
