------------------------- MODULE WebviewTransportProofs -------------------------
(***************************************************************************)
(* Proofs about WebviewTransport, for every set of requests and every      *)
(* number of panels: what the API client promises the extension (Rpc) is   *)
(* promised to the graph view as well.                                     *)
(***************************************************************************)
EXTENDS WebviewTransport, SequenceTheorems, TLAPS

Elems(s) == {s[i] : i \in 1 .. Len(s)}

\* What a webview waits for, it was asked by itself, under an id of its own.
ViewInv ==
    /\ \A r \in timers : Waiting(r)
    /\ \A r \in Requests : outcome[r] # "refused"
    /\ \A p \in Panels :
          /\ \A e \in pending[p] : Waiting(e.request) /\ e.id <= requestId[p]
                                   /\ panelOf[e.request] = p
          /\ \A e, f \in pending[p] : e.id = f.id <=> e.request = f.request
          /\ \A e \in Elems(toExtension[p]) : outcome[e.request] # "unsent" /\ p \in alive

\* The extension calls only what a webview requested; and what Rpc promises.
CallInv ==
    /\ \A r \in Requests : status[r] = "answered" => r \in done \cup confused
    /\ \A r \in Requests : status[r] # "unsent" => outcome[r] # "unsent"
    /\ \A r \in handling : callOf[r] \in Entry

\* Wherever an entry is that belongs to panel p, or will be posted to it.
Known(p) ==
    pending[p] \cup Elems(toExtension[p]) \cup Elems(toView[p])
        \cup {callOf[r] : r \in {q \in handling : target[q] = p}}

\* While one panel at most is open at a time, an id means one request to it.
SingleInv ==
    ~doubled =>
        /\ alive \subseteq {currentPanel}
        /\ \A p \in Panels :
              /\ \A e \in Known(p) : e.id <= requestId[p]
              /\ \A e, f \in Known(p) : e.id = f.id => e.request = f.request

IInv == TypeOK /\ ViewInv /\ CallInv /\ SingleInv

-----------------------------------------------------------------------------
LEMMA ElemsTail ==
  ASSUME NEW S, NEW s \in Seq(S), s # <<>>
  PROVE  /\ Head(s) \in Elems(s) /\ Elems(Tail(s)) \subseteq Elems(s)
         /\ Tail(s) \in Seq(S) /\ Elems(s) \subseteq S
  <1>1. /\ Tail(s) \in Seq(S) /\ Len(s) \in Nat /\ Len(s) >= 1 /\ Head(s) = s[1]
        /\ Len(Tail(s)) = Len(s) - 1
        /\ \A i \in 1 .. Len(Tail(s)) : Tail(s)[i] = s[i + 1]
        /\ \A i \in 1 .. Len(s) : s[i] \in S
    BY HeadTailProperties, LenProperties, EmptySeq, ElementOfSeq
  <1>2. \A i \in 1 .. Len(Tail(s)) : i + 1 \in 1 .. Len(s)  BY <1>1
  <1> QED  BY <1>1, <1>2 DEF Elems

LEMMA ElemsAppend ==
  ASSUME NEW S, NEW s \in Seq(S), NEW e \in S
  PROVE  Elems(Append(s, e)) \subseteq Elems(s) \cup {e} /\ Append(s, e) \in Seq(S)
  <1>1. /\ Append(s, e) \in Seq(S) /\ Len(s) \in Nat
        /\ Len(Append(s, e)) = Len(s) + 1
        /\ \A i \in 1 .. Len(s) : Append(s, e)[i] = s[i]
        /\ Append(s, e)[Len(s) + 1] = e
    BY AppendProperties, LenProperties
  <1>2. \A i \in 1 .. Len(s) + 1 : i \in 1 .. Len(s) \/ i = Len(s) + 1  BY <1>1
  <1> QED  BY <1>1, <1>2 DEF Elems

LEMMA ElemsEmpty == Elems(<<>>) = {}
  BY DEF Elems

LEMMA KnownEntries ==
  ASSUME TypeOK, CallInv, NEW p \in Panels
  PROVE  /\ Known(p) \subseteq Entry /\ pending[p] \subseteq Entry
         /\ toExtension[p] \in Seq(Entry) /\ toView[p] \in Seq(Entry)
         /\ Elems(toExtension[p]) \subseteq Entry /\ requestId[p] \in Nat
  <1>1. /\ toExtension[p] \in Seq(Entry) /\ toView[p] \in Seq(Entry)
        /\ pending[p] \in SUBSET Entry /\ requestId[p] \in Nat
    BY DEF TypeOK
  <1>2. Elems(toExtension[p]) \subseteq Entry /\ Elems(toView[p]) \subseteq Entry
    BY <1>1, ElementOfSeq DEF Elems
  <1> QED  BY <1>1, <1>2 DEF Known, CallInv

-----------------------------------------------------------------------------
(* Steps of the mapped state.                                              *)

LEMMA StutterStep ==
  ASSUME UNCHANGED <<outcome, done, confused, doubled>>
  PROVE  [View!Next]_(View!vars)
  BY DEF View!vars, Mixed

LEMMA ConfuseStep ==
  ASSUME UNCHANGED <<outcome, done>>, Mixed \subseteq Mixed', Mixed' \subseteq Requests
  PROVE  [View!Next]_(View!vars)
  <1>1. Mixed' \in SUBSET Requests /\ Mixed' = Mixed \cup Mixed'  OBVIOUS
  <1>2. View!Reuse  BY <1>1 DEF View!Reuse
  <1>3. View!Confuse  BY <1>2 DEF View!Confuse
  <1> QED  BY <1>3 DEF View!Next

LEMMA FailStep ==
  ASSUME NEW rs \in SUBSET Requests, \A r \in rs : Waiting(r),
         outcome \in [Requests -> Client!Status],
         outcome' = [r \in Requests |-> IF r \in rs THEN "failed" ELSE outcome[r]],
         UNCHANGED <<done, confused, doubled>>
  PROVE  [View!Next]_(View!vars)
  <1>1. CASE rs = {}
    <2>1. outcome' = outcome  BY <1>1
    <2> QED  BY <2>1, StutterStep
  <1>2. CASE rs # {}
    <2>1. View!Fail(rs)  BY <1>2 DEF View!Fail, Mixed, Waiting
    <2> QED  BY <2>1 DEF View!Next
  <1> QED  BY <1>1, <1>2

-----------------------------------------------------------------------------
LEMMA InitIInv == Init => IInv /\ View!Init
  <1> SUFFICES ASSUME Init PROVE IInv /\ View!Init  OBVIOUS
  <1> USE DEF Init, Client!Init
  <1>1. TypeOK
    <2>1. \A p \in Panels : toExtension[p] = <<>> /\ toView[p] = <<>>  OBVIOUS
    <2>2. toExtension \in [Panels -> Seq(Entry)] /\ toView \in [Panels -> Seq(Entry)]
      BY EmptySeq
    <2>3. /\ outcome \in [Requests -> Client!Status]
          /\ status \in [Requests -> Client!Status]
      BY DEF Client!Status
    <2>4. /\ panelOf \in [Requests -> 0 .. opened] /\ target \in [Requests -> 0 .. opened]
          /\ currentPanel \in {NoPanel, opened} /\ opened \in 0 .. MaxPanels
          /\ starting \in 0 .. MaxPanels - opened
      BY PanelsAssumption DEF NoPanel
    <2>5. /\ requestId \in [Panels -> Nat] /\ pending \in [Panels -> SUBSET Entry]
          /\ callOf \in [Requests -> Entry \cup {NoEntry}]
      OBVIOUS
    <2>6. /\ alive \subseteq 1 .. opened /\ doubled \in BOOLEAN /\ timers \subseteq Requests
          /\ handling \subseteq Requests /\ done \subseteq Requests /\ confused \subseteq Requests
      OBVIOUS
    <2> QED  BY <2>2, <2>3, <2>4, <2>5, <2>6 DEF TypeOK
  <1>2. \A p \in Panels : Elems(toExtension[p]) = {} /\ Elems(toView[p]) = {}
    BY ElemsEmpty
  <1>3. ViewInv  BY <1>2 DEF ViewInv
  <1>4. CallInv  BY DEF CallInv
  <1>5. \A p \in Panels : Known(p) = {}  BY <1>2 DEF Known
  <1>6. SingleInv  BY <1>5 DEF SingleInv
  <1>7. View!Init  BY DEF View!Init, Mixed
  <1> QED  BY <1>1, <1>3, <1>4, <1>6, <1>7 DEF IInv

\* A panel opens.  The entries stay where they are.
LEMMA PanelStep ==
  ASSUME IInv, Open \/ Started
  PROVE  IInv' /\ [View!Next]_(View!vars)
  <1>1. /\ UNCHANGED <<viewVars, toExtension, toView, extVars, clientVars>>
        /\ \/ CreatePanel /\ opened < MaxPanels
           \/ UNCHANGED <<currentPanel, opened, alive, doubled>>
        /\ starting' \in 0 .. MaxPanels - opened'
    BY PanelsAssumption DEF IInv, TypeOK, Open, Started, OnlyPanels, CreatePanel
  <1>2. /\ currentPanel' \in {NoPanel, opened'} /\ opened' \in 0 .. MaxPanels
        /\ alive' \subseteq 1 .. opened' /\ doubled' \in BOOLEAN
        /\ alive \subseteq alive' /\ (doubled => doubled') /\ opened <= opened'
        /\ ~doubled' => ~doubled /\ alive' \subseteq {currentPanel'}
    <2>1. CASE CreatePanel /\ opened < MaxPanels
      <3>1. opened \in Nat /\ opened' = opened + 1 /\ currentPanel' = opened'
        BY <2>1, PanelsAssumption DEF IInv, TypeOK, CreatePanel
      <3>2. alive' = alive \cup {opened'} /\ doubled' = (doubled \/ alive # {})
        BY <2>1 DEF CreatePanel
      <3>3. ~doubled' => ~doubled /\ alive' \subseteq {currentPanel'}  BY <3>1, <3>2
      <3>4. alive' \subseteq 1 .. opened' /\ opened' \in 0 .. MaxPanels
        BY <2>1, <3>1, <3>2, PanelsAssumption DEF IInv, TypeOK
      <3>5. doubled' \in BOOLEAN /\ (doubled => doubled')  BY <3>2
      <3> QED  BY <3>1, <3>2, <3>3, <3>4, <3>5
    <2>2. CASE UNCHANGED <<currentPanel, opened, alive, doubled>>
      <3>1. ~doubled => alive \subseteq {currentPanel}  BY DEF IInv, SingleInv
      <3>2. opened \in Nat /\ doubled \in BOOLEAN  BY PanelsAssumption DEF IInv, TypeOK
      <3> QED  BY <2>2, <3>1, <3>2 DEF IInv, TypeOK
    <2> QED  BY <1>1, <2>1, <2>2
  <1>3. TypeOK'
    <2>1. \A n \in 0 .. opened : n \in 0 .. opened'
      BY <1>2 DEF IInv, TypeOK
    <2>2. /\ panelOf' \in [Requests -> 0 .. opened'] /\ target' \in [Requests -> 0 .. opened']
      BY <2>1, <1>1 DEF IInv, TypeOK, viewVars, extVars
    <2>3. /\ currentPanel' \in {NoPanel, opened'} /\ opened' \in 0 .. MaxPanels
          /\ alive' \subseteq 1 .. opened' /\ doubled' \in BOOLEAN
          /\ starting' \in 0 .. MaxPanels - opened'
      BY <1>1, <1>2
    <2>4. /\ requestId' \in [Panels -> Nat] /\ pending' \in [Panels -> SUBSET Entry]
          /\ timers' \subseteq Requests /\ outcome' \in [Requests -> Client!Status]
          /\ toExtension' \in [Panels -> Seq(Entry)] /\ toView' \in [Panels -> Seq(Entry)]
      BY <1>1 DEF IInv, TypeOK, viewVars
    <2>5. /\ handling' \subseteq Requests /\ callOf' \in [Requests -> Entry \cup {NoEntry}]
          /\ status' \in [Requests -> Client!Status]
          /\ done' \subseteq Requests /\ confused' \subseteq Requests
      BY <1>1 DEF IInv, TypeOK, extVars, clientVars
    <2> QED  BY <2>2, <2>3, <2>4, <2>5 DEF TypeOK
  <1>4. ViewInv'
    <2>1. /\ UNCHANGED <<requestId, pending, timers, outcome, panelOf, toExtension>>
          /\ \A p \in Panels : Elems(toExtension[p])' = Elems(toExtension[p])
      BY <1>1 DEF viewVars, Elems
    <2>2. \A p \in alive : p \in alive'  BY <1>2
    <2> QED  BY <2>1, <2>2 DEF IInv, ViewInv, Waiting
  <1>5. CallInv'  BY <1>1 DEF IInv, CallInv, viewVars, extVars, clientVars
  <1>6. \A p \in Panels : Known(p)' = Known(p)
    BY <1>1 DEF Known, Elems, viewVars, extVars
  <1>7. SingleInv'  BY <1>1, <1>2, <1>6 DEF IInv, SingleInv, viewVars
  <1>8. confused \subseteq Requests  BY DEF IInv, TypeOK
  <1>9. [View!Next]_(View!vars)
    <2>1. Mixed \subseteq Mixed' /\ Mixed' \subseteq Requests
      BY <1>1, <1>2, <1>8 DEF Mixed, clientVars
    <2> QED  BY <2>1, <1>1, ConfuseStep DEF viewVars, clientVars
  <1> QED  BY <1>3, <1>4, <1>5, <1>7, <1>9 DEF IInv

\* A webview goes, with all that waits in it.
LEMMA DisposeStep ==
  ASSUME IInv, NEW p \in Panels, Dispose(p)
  PROVE  IInv' /\ [View!Next]_(View!vars)
  <1> DEFINE rs == {r \in Requests : panelOf[r] = p /\ Waiting(r)}
  <1>1. /\ alive' = alive \ {p} /\ currentPanel' = NoPanel
        /\ pending' = [pending EXCEPT ![p] = {}]
        /\ timers' = {r \in timers : panelOf[r] # p}
        /\ outcome' = [r \in Requests |-> IF r \in rs THEN "failed" ELSE outcome[r]]
        /\ toExtension' = [toExtension EXCEPT ![p] = <<>>]
        /\ toView' = [toView EXCEPT ![p] = <<>>]
        /\ UNCHANGED <<opened, starting, doubled, requestId, panelOf, extVars, clientVars>>
    BY DEF Dispose
  <1>2. /\ \A q \in Panels : q # p => pending'[q] = pending[q]
                                     /\ toExtension'[q] = toExtension[q]
                                     /\ toView'[q] = toView[q]
        /\ pending'[p] = {} /\ toExtension'[p] = <<>> /\ toView'[p] = <<>>
        /\ toExtension' \in [Panels -> Seq(Entry)] /\ toView' \in [Panels -> Seq(Entry)]
        /\ pending' \in [Panels -> SUBSET Entry]
    BY <1>1, EmptySeq DEF IInv, TypeOK
  <1>3. /\ \A q \in Panels : Elems(toExtension[q])' \subseteq Elems(toExtension[q])
        /\ \A q \in Panels : Known(q)' \subseteq Known(q)
        /\ Elems(toExtension[p])' = {}
    <2>1. Elems(toExtension[p])' = {} /\ Elems(toView[p])' = {}
      BY <1>2, ElemsEmpty DEF Elems
    <2>2. \A q \in Panels : q # p => Elems(toExtension[q])' = Elems(toExtension[q])
                                    /\ Elems(toView[q])' = Elems(toView[q])
      BY <1>2 DEF Elems
    <2>3. \A q \in Panels : pending'[q] \subseteq pending[q]  BY <1>2
    <2> QED  BY <2>1, <2>2, <2>3, <1>1 DEF Known, extVars
  <1>4. outcome \in [Requests -> Client!Status]  BY DEF IInv, TypeOK
  <1>5. TypeOK'
    <2>1. outcome' \in [Requests -> Client!Status]  BY <1>1, <1>4 DEF Client!Status
    <2> QED  BY <2>1, <1>1, <1>2 DEF IInv, TypeOK, extVars, clientVars
  <1>6. \A r \in Requests : outcome'[r] = "unsent" <=> outcome[r] = "unsent"
    BY <1>1, <1>4 DEF Waiting
  <1>7. ViewInv'
    <2>1. \A r \in timers' : Waiting(r)'
      BY <1>1 DEF IInv, TypeOK, ViewInv, Waiting
    <2>2. \A r \in Requests : outcome'[r] # "refused"
      BY <1>1 DEF IInv, ViewInv
    <2>3. ASSUME NEW q \in Panels
          PROVE  /\ \A e \in pending'[q] : Waiting(e.request)' /\ e.id <= requestId'[q]
                                           /\ panelOf'[e.request] = q
                 /\ \A e, f \in pending'[q] : e.id = f.id <=> e.request = f.request
                 /\ \A e \in Elems(toExtension[q])' :
                       outcome'[e.request] # "unsent" /\ q \in alive'
      <3>1. CASE q = p  BY <3>1, <1>2, <1>3
      <3>2. CASE q # p
        <4>1. \A e \in pending[q] : e.request \in Requests
          BY KnownEntries DEF IInv, Entry
        <4>2. \A e \in Elems(toExtension[q]) : e.request \in Requests
          BY KnownEntries DEF IInv, Entry
        <4>3. \A e \in pending'[q] : Waiting(e.request)' /\ e.id <= requestId'[q]
                                     /\ panelOf'[e.request] = q
          BY <3>2, <4>1, <1>1, <1>2 DEF IInv, ViewInv, Waiting
        <4>4. \A e, f \in pending'[q] : e.id = f.id <=> e.request = f.request
          <5>1. pending'[q] = pending[q]  BY <3>2, <1>2
          <5>2. \A e, f \in pending[q] : e.id = f.id <=> e.request = f.request
            BY DEF IInv, ViewInv
          <5> QED  BY <5>1, <5>2
        <4>5. \A e \in Elems(toExtension[q])' :
                 outcome'[e.request] # "unsent" /\ q \in alive'
          BY <3>2, <4>2, <1>1, <1>3, <1>6 DEF IInv, ViewInv
        <4> QED  BY <4>3, <4>4, <4>5
      <3> QED  BY <3>1, <3>2
    <2> QED  BY <2>1, <2>2, <2>3 DEF ViewInv
  <1>8. CallInv'
    BY <1>1, <1>6 DEF IInv, CallInv, extVars, clientVars
  <1>9. SingleInv'
    <2> SUFFICES ASSUME ~doubled
                 PROVE  /\ alive' \subseteq {currentPanel'}
                        /\ \A q \in Panels :
                              /\ \A e \in Known(q)' : e.id <= requestId'[q]
                              /\ \A e, f \in Known(q)' : e.id = f.id => e.request = f.request
      BY <1>1 DEF SingleInv
    <2>1. /\ alive \subseteq {currentPanel}
          /\ \A q \in Panels :
                /\ \A e \in Known(q) : e.id <= requestId[q]
                /\ \A e, f \in Known(q) : e.id = f.id => e.request = f.request
      BY DEF IInv, SingleInv
    <2>2. p \in alive /\ requestId' = requestId  BY DEF Dispose
    <2>3. alive' = {}  BY <1>1, <2>1, <2>2
    <2>4. \A q \in Panels : \A e \in Known(q)' : e.id <= requestId'[q]
      BY <1>3, <2>1, <2>2
    <2>5. \A q \in Panels : \A e, f \in Known(q)' : e.id = f.id => e.request = f.request
      BY <1>3, <2>1
    <2> QED  BY <2>3, <2>4, <2>5
  <1>10. [View!Next]_(View!vars)
    <2>1. rs \in SUBSET Requests /\ \A r \in rs : Waiting(r)  OBVIOUS
    <2>2. /\ outcome' = [r \in Requests |-> IF r \in rs THEN "failed" ELSE outcome[r]]
          /\ UNCHANGED <<done, confused, doubled>>
      BY <1>1 DEF clientVars
    <2> HIDE DEF rs
    <2> QED  BY <2>1, <2>2, <1>4, FailStep
  <1> QED  BY <1>5, <1>7, <1>8, <1>9, <1>10 DEF IInv

-----------------------------------------------------------------------------
(* The transport.                                                          *)

LEMMA RequestStep ==
  ASSUME IInv, NEW p \in Panels, NEW r \in Requests, Request(p, r)
  PROVE  IInv' /\ [View!Next]_(View!vars)
  <1> DEFINE entry == [id |-> requestId[p] + 1, request |-> r]
  <1>1. /\ p \in alive /\ outcome[r] = "unsent" /\ requestId[p] \in Nat
        /\ entry \in Entry /\ entry.request = r /\ entry.id = requestId[p] + 1
        /\ requestId' = [requestId EXCEPT ![p] = @ + 1]
        /\ pending' = [pending EXCEPT ![p] = @ \cup {entry}]
        /\ timers' = timers \cup {r}
        /\ outcome' = [outcome EXCEPT ![r] = "waiting"]
        /\ panelOf' = [panelOf EXCEPT ![r] = p]
        /\ toExtension' = [toExtension EXCEPT ![p] = Append(@, entry)]
        /\ UNCHANGED <<panelVars, toView, extVars, clientVars>>
        /\ outcome \in [Requests -> Client!Status]
    BY DEF Request, NextId, Arm, IInv, TypeOK, Entry
  <1> HIDE DEF entry
  <1>2. /\ \A q \in Panels : q # p => /\ pending'[q] = pending[q]
                                      /\ toExtension'[q] = toExtension[q]
                                      /\ requestId'[q] = requestId[q]
        /\ pending'[p] = pending[p] \cup {entry}
        /\ toExtension'[p] = Append(toExtension[p], entry)
        /\ requestId'[p] = requestId[p] + 1
        /\ \A q \in Requests : q # r => outcome'[q] = outcome[q] /\ panelOf'[q] = panelOf[q]
        /\ outcome'[r] = "waiting" /\ panelOf'[r] = p
    BY <1>1 DEF IInv, TypeOK
  <1>3. /\ toExtension' \in [Panels -> Seq(Entry)]
        /\ Elems(toExtension[p])' \subseteq Elems(toExtension[p]) \cup {entry}
        /\ \A q \in Panels : q # p => Elems(toExtension[q])' = Elems(toExtension[q])
    <2>1. toExtension[p] \in Seq(Entry)  BY DEF IInv, TypeOK
    <2>2. /\ Append(toExtension[p], entry) \in Seq(Entry)
          /\ Elems(Append(toExtension[p], entry)) \subseteq Elems(toExtension[p]) \cup {entry}
      BY <1>1, <2>1, ElemsAppend
    <2>3. Elems(toExtension[p])' = Elems(Append(toExtension[p], entry))
      BY <1>2 DEF Elems
    <2> QED  BY <2>2, <2>3, <1>1, <1>2 DEF IInv, TypeOK, Elems
  <1>4. TypeOK'
    <2>1. /\ outcome' \in [Requests -> Client!Status]
          /\ requestId' \in [Panels -> Nat] /\ pending' \in [Panels -> SUBSET Entry]
      BY <1>1 DEF IInv, TypeOK, Client!Status
    <2>2. panelOf' \in [Requests -> 0 .. opened]
      BY <1>1, PanelsAssumption DEF IInv, TypeOK
    <2> QED  BY <2>1, <2>2, <1>1, <1>3 DEF IInv, TypeOK, panelVars, extVars, clientVars
  <1>5. \A q \in Panels : /\ \A e \in pending[q] : e \in Entry /\ e.request \in Requests
                          /\ \A e \in Elems(toExtension[q]) : e.request \in Requests
                          /\ \A e \in Known(q) : e \in Entry /\ e.id \in Nat
                          /\ requestId[q] \in Nat
    BY KnownEntries DEF IInv, Entry
  <1>6. ViewInv'
    <2>1. \A q \in timers' : Waiting(q)'
      BY <1>1, <1>2 DEF IInv, TypeOK, ViewInv, Waiting
    <2>2. \A q \in Requests : outcome'[q] # "refused"
      BY <1>2 DEF IInv, ViewInv
    <2>3. ASSUME NEW q \in Panels, NEW e \in pending'[q]
          PROVE  Waiting(e.request)' /\ e.id <= requestId'[q] /\ panelOf'[e.request] = q
      <3>1. CASE e \in pending[q]
        <4>1. /\ Waiting(e.request) /\ e.id <= requestId[q] /\ panelOf[e.request] = q
              /\ e.request \in Requests /\ e.id \in Nat /\ requestId[q] \in Nat
          BY <3>1, <1>5 DEF IInv, ViewInv, Entry
        <4>2. e.request # r  BY <4>1, <1>1 DEF Waiting
        <4>3. requestId[q] <= requestId'[q]  BY <4>1, <1>2
        <4>4. e.id <= requestId'[q]
          BY <4>1, <1>2
        <4> QED  BY <4>1, <4>2, <4>4, <1>2 DEF Waiting
      <3>2. CASE q = p /\ e = entry
        BY <3>2, <1>1, <1>2 DEF Waiting
      <3> QED  BY <3>1, <3>2, <1>2
    <2>4. ASSUME NEW q \in Panels, NEW e \in pending'[q], NEW f \in pending'[q]
          PROVE  e.id = f.id <=> e.request = f.request
      <3>1. \A g \in pending[q] : /\ g.id \in Nat /\ g.id <= requestId[q]
                                  /\ requestId[q] \in Nat /\ g.request # r
        BY <1>1, <1>5 DEF IInv, ViewInv, Entry, Waiting
      <3>2. CASE e \in pending[q] /\ f \in pending[q]
        BY <3>2 DEF IInv, ViewInv
      <3>3. CASE q = p /\ e = entry /\ f = entry  BY <3>3
      <3>4. CASE q = p /\ e = entry /\ f \in pending[q]  BY <3>1, <3>4, <1>1
      <3>5. CASE q = p /\ f = entry /\ e \in pending[q]  BY <3>1, <3>5, <1>1
      <3> QED  BY <3>2, <3>3, <3>4, <3>5, <1>2
    <2>5. ASSUME NEW q \in Panels, NEW e \in Elems(toExtension[q])'
          PROVE  outcome'[e.request] # "unsent" /\ q \in alive'
      <3>1. CASE e \in Elems(toExtension[q])
        BY <3>1, <1>1, <1>2, <1>5 DEF IInv, ViewInv, panelVars
      <3>2. CASE q = p /\ e = entry  BY <3>2, <1>1, <1>2 DEF panelVars
      <3> QED  BY <3>1, <3>2, <1>3
    <2> QED  BY <2>1, <2>2, <2>3, <2>4, <2>5 DEF ViewInv
  <1>7. CallInv'
    BY <1>1, <1>2 DEF IInv, CallInv, extVars, clientVars
  <1>8. SingleInv'
    <2>1. /\ Known(p)' \subseteq Known(p) \cup {entry}
          /\ \A q \in Panels : q # p => Known(q)' = Known(q)
      BY <1>1, <1>2, <1>3 DEF Known, extVars, Elems
    <2> SUFFICES ASSUME ~doubled
                 PROVE  /\ alive \subseteq {currentPanel}
                        /\ \A q \in Panels :
                              /\ \A e \in Known(q)' : e.id <= requestId'[q]
                              /\ \A e, f \in Known(q)' : e.id = f.id => e.request = f.request
      BY <1>1 DEF SingleInv, panelVars
    <2>2. /\ alive \subseteq {currentPanel}
          /\ \A q \in Panels :
                /\ \A e \in Known(q) : e.id <= requestId[q]
                /\ \A e, f \in Known(q) : e.id = f.id => e.request = f.request
      BY DEF IInv, SingleInv
    <2>3. \A q \in Panels : \A e \in Known(q)' : e.id <= requestId'[q]
      BY <2>1, <2>2, <1>1, <1>2, <1>5
    <2>4. ASSUME NEW q \in Panels, NEW e \in Known(q)', NEW f \in Known(q)', e.id = f.id
          PROVE  e.request = f.request
      <3>1. CASE e \in Known(q) /\ f \in Known(q)  BY <3>1, <2>2, <2>4
      <3>2. CASE q = p /\ e = entry /\ f = entry  BY <3>2
      <3>3. CASE q = p /\ e = entry /\ f \in Known(q)
        BY <2>2, <2>4, <3>3, <1>1, <1>5
      <3>4. CASE q = p /\ f = entry /\ e \in Known(q)
        BY <2>2, <2>4, <3>4, <1>1, <1>5
      <3> QED  BY <3>1, <3>2, <3>3, <3>4, <2>1
    <2> QED  BY <2>2, <2>3, <2>4
  <1>9. View!Send(r)
    <2>1. Mixed' = Mixed \cup {}  BY <1>1 DEF Mixed, panelVars, clientVars
    <2>2. View!Reuse  BY <2>1 DEF View!Reuse
    <2> QED  BY <2>2, <1>1 DEF View!Send, View!Settle, clientVars
  <1> QED  BY <1>4, <1>6, <1>7, <1>8, <1>9 DEF IInv, View!Next

LEMMA TimeoutStep ==
  ASSUME IInv, NEW r \in Requests, Timeout(r)
  PROVE  IInv' /\ [View!Next]_(View!vars)
  <1>1. /\ r \in timers /\ timers' = timers \ {r}
        /\ pending' = [pending EXCEPT ![panelOf[r]] = {e \in @ : e.request # r}]
        /\ outcome' = [outcome EXCEPT ![r] = "failed"]
        /\ UNCHANGED <<panelVars, requestId, panelOf, toExtension, toView, extVars,
                       clientVars>>
    BY DEF Timeout
  <1>2. /\ outcome \in [Requests -> Client!Status] /\ Waiting(r)
        /\ outcome'[r] = "failed" /\ \A q \in Requests : q # r => outcome'[q] = outcome[q]
    BY <1>1 DEF IInv, TypeOK, ViewInv
  <1>3. \A q \in Panels :
           /\ pending'[q] \subseteq pending[q]
           /\ q = panelOf[r] => \A e \in pending'[q] : e.request # r
    BY <1>1 DEF IInv, TypeOK
  <1>4. TypeOK'
    <2>1. outcome' \in [Requests -> Client!Status]
      BY <1>1, <1>2 DEF Client!Status
    <2>2. pending' \in [Panels -> SUBSET Entry]
      BY <1>1 DEF IInv, TypeOK
    <2> QED  BY <2>1, <2>2, <1>1 DEF IInv, TypeOK, panelVars, extVars, clientVars
  <1>5. \A q \in Panels : /\ \A e \in pending[q] : e.request \in Requests
                          /\ \A e \in Elems(toExtension[q]) : e.request \in Requests
    BY KnownEntries DEF IInv, Entry
  <1>6. ViewInv'
    <2>1. \A q \in timers' : Waiting(q)'
      BY <1>1, <1>2 DEF IInv, TypeOK, ViewInv, Waiting
    <2>2. \A q \in Requests : outcome'[q] # "refused"
      BY <1>2 DEF IInv, ViewInv
    <2>3. ASSUME NEW q \in Panels, NEW e \in pending'[q]
          PROVE  Waiting(e.request)' /\ e.id <= requestId'[q] /\ panelOf'[e.request] = q
      <3>1. /\ e \in pending[q] /\ Waiting(e.request) /\ e.id <= requestId[q]
            /\ panelOf[e.request] = q /\ e.request \in Requests
        BY <1>3, <1>5 DEF IInv, ViewInv
      <3>2. e.request # r  BY <3>1, <1>3
      <3> QED  BY <3>1, <3>2, <1>1, <1>2 DEF Waiting
    <2>4. \A q \in Panels : \A e, f \in pending'[q] : e.id = f.id <=> e.request = f.request
      <3>1. \A q \in Panels : \A e, f \in pending[q] : e.id = f.id <=> e.request = f.request
        BY DEF IInv, ViewInv
      <3> QED  BY <3>1, <1>3
    <2>5. \A q \in Panels : \A e \in Elems(toExtension[q])' :
             outcome'[e.request] # "unsent" /\ q \in alive'
      <3>1. \A q \in Panels : \A e \in Elems(toExtension[q]) :
               outcome[e.request] # "unsent" /\ q \in alive
        BY DEF IInv, ViewInv
      <3>2. toExtension' = toExtension /\ alive' = alive  BY <1>1 DEF panelVars
      <3> QED  BY <3>1, <3>2, <1>2, <1>5 DEF Elems
    <2> QED  BY <2>1, <2>2, <2>3, <2>4, <2>5 DEF ViewInv
  <1>7. CallInv'
    BY <1>1, <1>2 DEF IInv, CallInv, extVars, clientVars
  <1>8. SingleInv'
    <2>1. \A q \in Panels : Known(q)' \subseteq Known(q)
      BY <1>1, <1>3 DEF Known, extVars, Elems
    <2> QED  BY <2>1, <1>1 DEF IInv, SingleInv, panelVars
  <1>9. [View!Next]_(View!vars)
    <2>1. {r} \in SUBSET Requests /\ \A q \in {r} : Waiting(q)  BY <1>2
    <2>2. outcome' = [q \in Requests |-> IF q \in {r} THEN "failed" ELSE outcome[q]]
      BY <1>1, <1>2
    <2>3. UNCHANGED <<done, confused, doubled>>  BY <1>1 DEF clientVars, panelVars
    <2> QED  BY <2>1, <2>2, <2>3, <1>2, FailStep
  <1> QED  BY <1>4, <1>6, <1>7, <1>8, <1>9 DEF IInv

\* The response settles the request that waits under its id, if one does; with
\* one panel open at a time that is the request it answers.
LEMMA HandleResponseStep ==
  ASSUME IInv, NEW p \in Panels, HandleResponse(p)
  PROVE  IInv' /\ [View!Next]_(View!vars)
  <1>1. PICK response, found, called :
          /\ response = Head(toView[p])
          /\ found = {e \in pending[p] : e.id = response.id}
          /\ called = {e.request : e \in found}
    OBVIOUS
  <1>2. /\ toView[p] # <<>> /\ toView' = [toView EXCEPT ![p] = Tail(@)]
        /\ pending' = [pending EXCEPT ![p] = @ \ found]
        /\ timers' = timers \ called
        /\ outcome' = [r \in Requests |->
                          IF r \notin called THEN outcome[r]
                          ELSE IF status[response.request] = "answered"
                               THEN "answered" ELSE "failed"]
        /\ UNCHANGED <<panelVars, requestId, panelOf, toExtension, extVars, clientVars>>
    BY <1>1 DEF HandleResponse
  <1>3. /\ toView[p] \in Seq(Entry) /\ Tail(toView[p]) \in Seq(Entry)
        /\ response \in Elems(toView[p]) /\ response \in Entry
        /\ Elems(Tail(toView[p])) \subseteq Elems(toView[p])
        /\ pending[p] \subseteq Entry /\ response.request \in Requests
    <2>1. toView[p] \in Seq(Entry) /\ pending[p] \subseteq Entry
      BY KnownEntries DEF IInv
    <2>2. /\ Tail(toView[p]) \in Seq(Entry) /\ response \in Elems(toView[p])
          /\ Elems(toView[p]) \subseteq Entry
          /\ Elems(Tail(toView[p])) \subseteq Elems(toView[p])
      BY <2>1, <1>1, <1>2, ElemsTail
    <2> QED  BY <2>1, <2>2 DEF Entry
  <1>4. /\ \A q \in Panels : q # p => pending'[q] = pending[q] /\ toView'[q] = toView[q]
        /\ pending'[p] = pending[p] \ found /\ toView'[p] = Tail(toView[p])
        /\ \A q \in Panels : pending'[q] \subseteq pending[q]
        /\ \A q \in Panels : Elems(toView[q])' \subseteq Elems(toView[q])
    BY <1>2, <1>3 DEF IInv, TypeOK, Elems
  <1>5. \A q \in Panels : Known(q)' \subseteq Known(q)
    BY <1>2, <1>4 DEF Known, extVars, Elems
  <1>6. /\ called \subseteq Requests /\ \A r \in called : Waiting(r)
        /\ \A r, s \in called : r = s
    BY <1>1, <1>3 DEF IInv, ViewInv, Entry
  <1>7. outcome \in [Requests -> Client!Status]  BY DEF IInv, TypeOK
  <1>8. \A r \in Requests : r \notin called => outcome'[r] = outcome[r]
    BY <1>2
  <1>9. \A r \in called : outcome'[r] \in {"answered", "failed"}
    BY <1>2, <1>6
  <1>10. TypeOK'
    <2>1. outcome' \in [Requests -> Client!Status]
      BY <1>2, <1>7 DEF Client!Status
    <2>2. pending' \in [Panels -> SUBSET Entry] /\ toView' \in [Panels -> Seq(Entry)]
      BY <1>2, <1>3 DEF IInv, TypeOK
    <2> QED  BY <2>1, <2>2, <1>2 DEF IInv, TypeOK, panelVars, extVars, clientVars
  <1>11. \A q \in Panels : /\ \A e \in pending[q] : e.request \in Requests
                           /\ \A e \in Elems(toExtension[q]) : e.request \in Requests
    BY KnownEntries DEF IInv, Entry
  <1>12. ViewInv'
    <2>1. \A q \in timers' : Waiting(q)'
      BY <1>2, <1>8 DEF IInv, TypeOK, ViewInv, Waiting
    <2>2. \A q \in Requests : outcome'[q] # "refused"
      <3>1. \A q \in Requests : outcome[q] # "refused"  BY DEF IInv, ViewInv
      <3> QED  BY <3>1, <1>8, <1>9
    <2>3. ASSUME NEW q \in Panels, NEW e \in pending'[q]
          PROVE  Waiting(e.request)' /\ e.id <= requestId'[q] /\ panelOf'[e.request] = q
      <3>1. /\ e \in pending[q] /\ Waiting(e.request) /\ e.id <= requestId[q]
            /\ panelOf[e.request] = q /\ e.request \in Requests
        BY <1>4, <1>11 DEF IInv, ViewInv
      <3>2. e.request \notin called
        <4> SUFFICES ASSUME NEW f \in found, f.request = e.request PROVE FALSE  BY <1>1
        <4>1. f \in pending[p] /\ panelOf[f.request] = p  BY <1>1 DEF IInv, ViewInv
        <4>2. q = p  BY <4>1, <3>1
        <4>3. e \notin found  BY <4>2, <1>4
        <4>4. e.id # response.id /\ f.id = response.id  BY <4>2, <4>3, <3>1, <1>1
        <4> QED  BY <4>1, <4>2, <4>4, <3>1 DEF IInv, ViewInv
      <3> QED  BY <3>1, <3>2, <1>2, <1>8 DEF Waiting
    <2>4. \A q \in Panels : \A e, f \in pending'[q] : e.id = f.id <=> e.request = f.request
      <3>1. \A q \in Panels : \A e, f \in pending[q] : e.id = f.id <=> e.request = f.request
        BY DEF IInv, ViewInv
      <3> QED  BY <3>1, <1>4
    <2>5. \A q \in Panels : \A e \in Elems(toExtension[q])' :
             outcome'[e.request] # "unsent" /\ q \in alive'
      <3>1. \A q \in Panels : \A e \in Elems(toExtension[q]) :
               outcome[e.request] # "unsent" /\ q \in alive
        BY DEF IInv, ViewInv
      <3>2. toExtension' = toExtension /\ alive' = alive  BY <1>2 DEF panelVars
      <3>3. \A r \in Requests : outcome[r] # "unsent" => outcome'[r] # "unsent"
        BY <1>8, <1>9
      <3> QED  BY <3>1, <3>2, <3>3, <1>11 DEF Elems
    <2> QED  BY <2>1, <2>2, <2>3, <2>4, <2>5 DEF ViewInv
  <1>13. CallInv'
    <2>1. \A r \in Requests : outcome[r] # "unsent" => outcome'[r] # "unsent"
      BY <1>8, <1>9
    <2> QED  BY <2>1, <1>2 DEF IInv, CallInv, extVars, clientVars
  <1>14. SingleInv'
    BY <1>5, <1>2 DEF IInv, SingleInv, panelVars
  <1>15. [View!Next]_(View!vars)
    <2>1. UNCHANGED <<done, confused, doubled>>  BY <1>2 DEF clientVars, panelVars
    <2>2. CASE status[response.request] # "answered"
      <3>1. outcome' = [r \in Requests |-> IF r \in called THEN "failed" ELSE outcome[r]]
        BY <1>2, <2>2
      <3> QED  BY <3>1, <2>1, <1>6, <1>7, FailStep
    <2>3. CASE status[response.request] = "answered" /\ called = {}
      <3>1. outcome' = outcome  BY <2>3, <1>2, <1>7
      <3> QED  BY <3>1, <2>1, StutterStep
    <2>4. CASE status[response.request] = "answered" /\ called # {}
      <3>1. PICK e \in found : called = {e.request}
        <4>1. PICK e : e \in found /\ e.request \in called  BY <2>4, <1>1
        <4>2. called = {e.request}  BY <4>1, <1>6
        <4> QED  BY <4>1, <4>2
      <3>2. /\ e \in pending[p] /\ e.id = response.id /\ e.request \in Requests
            /\ Waiting(e.request)
        BY <3>1, <1>1, <1>6
      <3>3. outcome' = [outcome EXCEPT ![e.request] = "answered"]
        BY <2>4, <3>1, <1>2, <1>7
      <3>4. response.request \in done \cup confused
        BY <2>4, <1>3 DEF IInv, CallInv
      <3>5. e.request \in done \cup Mixed
        <4>1. CASE doubled  BY <4>1, <3>2 DEF Mixed
        <4>2. CASE ~doubled
          <5>1. e \in Known(p) /\ response \in Known(p)
            BY <3>2, <1>3 DEF Known
          <5>2. e.request = response.request
            BY <5>1, <3>2, <4>2 DEF IInv, SingleInv
          <5> QED  BY <5>2, <3>4, <4>2 DEF Mixed
        <4> QED  BY <4>1, <4>2
      <3>6. Mixed' = Mixed  BY <2>1 DEF Mixed
      <3>7. View!Answer(e.request)
        BY <3>2, <3>3, <3>5, <3>6, <2>1 DEF View!Answer, View!Settle, Waiting
      <3> QED  BY <3>7, <3>2 DEF View!Next
    <2> QED  BY <2>2, <2>3, <2>4
  <1> QED  BY <1>10, <1>12, <1>13, <1>14, <1>15 DEF IInv

-----------------------------------------------------------------------------
(* The extension and its calls.                                            *)

\* A message arrives from a webview.  While one is open at a time, it is the one
\* the handler will post to.
LEMMA ReceiveStep ==
  ASSUME IInv, NEW p \in Panels, Receive(p)
  PROVE  IInv' /\ [View!Next]_(View!vars)
  <1>1. PICK entry, r : entry = Head(toExtension[p]) /\ r = entry.request  OBVIOUS
  <1>2. /\ toExtension[p] # <<>> /\ toExtension' = [toExtension EXCEPT ![p] = Tail(@)]
        /\ handling' = handling \cup {r}
        /\ callOf' = [callOf EXCEPT ![r] = entry]
        /\ target' = [target EXCEPT ![r] = currentPanel]
        /\ Client!Send(r) \/ Client!Refuse(r)
        /\ UNCHANGED <<panelVars, viewVars, toView>>
    BY <1>1 DEF Receive
  <1>3. /\ toExtension[p] \in Seq(Entry) /\ Tail(toExtension[p]) \in Seq(Entry)
        /\ entry \in Elems(toExtension[p]) /\ entry \in Entry /\ r \in Requests
        /\ Elems(Tail(toExtension[p])) \subseteq Elems(toExtension[p])
    <2>1. toExtension[p] \in Seq(Entry)  BY KnownEntries DEF IInv
    <2>2. /\ Tail(toExtension[p]) \in Seq(Entry) /\ entry \in Elems(toExtension[p])
          /\ Elems(toExtension[p]) \subseteq Entry
          /\ Elems(Tail(toExtension[p])) \subseteq Elems(toExtension[p])
      BY <2>1, <1>1, <1>2, ElemsTail
    <2> QED  BY <2>1, <2>2, <1>1 DEF Entry
  <1>4. \A q \in Panels : Elems(toExtension[q])' \subseteq Elems(toExtension[q])
    BY <1>2, <1>3 DEF IInv, TypeOK, Elems
  <1>5. outcome[r] # "unsent" /\ p \in alive  BY <1>1, <1>3 DEF IInv, ViewInv
  <1>6. /\ \A q \in Requests : q # r => status'[q] = status[q]
        /\ status'[r] \in {"waiting", "refused"} /\ status' \in [Requests -> Client!Status]
        /\ done' = done /\ confused \subseteq confused' /\ confused' \subseteq Requests
    <2>1. CASE Client!Send(r)
      <3>1. PICK reused \in SUBSET Requests : confused' = confused \cup reused
        BY <2>1 DEF Client!Send, Client!Reuse
      <3>2. status' = [status EXCEPT ![r] = "waiting"] /\ done' = done
        BY <2>1 DEF Client!Send, Client!Settle
      <3> QED  BY <3>1, <3>2, <1>3 DEF IInv, TypeOK, Client!Status
    <2>2. CASE Client!Refuse(r)
      <3>1. /\ status' = [status EXCEPT ![r] = "refused"] /\ done' = done
            /\ confused' = confused
        BY <2>2 DEF Client!Refuse, Client!Settle
      <3> QED  BY <3>1, <1>3 DEF IInv, TypeOK, Client!Status
    <2> QED  BY <1>2, <2>1, <2>2
  <1>7. TypeOK'
    <2>1. toExtension' \in [Panels -> Seq(Entry)]
      BY <1>2, <1>3 DEF IInv, TypeOK
    <2>2. /\ callOf' \in [Requests -> Entry \cup {NoEntry}]
          /\ handling' \subseteq Requests
      BY <1>2, <1>3 DEF IInv, TypeOK
    <2>3. currentPanel \in 0 .. opened
      BY PanelsAssumption DEF IInv, TypeOK, NoPanel
    <2>4. target' \in [Requests -> 0 .. opened]
      BY <2>3, <1>2, <1>3 DEF IInv, TypeOK
    <2>5. done' \subseteq Requests  BY <1>6 DEF IInv, TypeOK
    <2> QED  BY <2>1, <2>2, <2>4, <2>5, <1>2, <1>6 DEF IInv, TypeOK, panelVars, viewVars
  <1>8. ViewInv'
    <2>1. UNCHANGED <<timers, outcome, pending, requestId, panelOf, alive>>
      BY <1>2 DEF viewVars, panelVars
    <2> QED  BY <2>1, <1>4 DEF IInv, ViewInv, Waiting
  <1>9. CallInv'
    <2>1. \A q \in Requests : status'[q] = "answered" => q \in done' \cup confused'
      BY <1>6 DEF IInv, CallInv
    <2>2. \A q \in Requests : status'[q] # "unsent" => outcome'[q] # "unsent"
      BY <1>2, <1>5, <1>6 DEF IInv, CallInv, viewVars
    <2>3. \A q \in handling' : callOf'[q] \in Entry
      BY <1>2, <1>3 DEF IInv, CallInv, TypeOK
    <2> QED  BY <2>1, <2>2, <2>3 DEF CallInv
  <1>10. SingleInv'
    <2> SUFFICES ASSUME ~doubled PROVE SingleInv'
      BY <1>2 DEF SingleInv, panelVars
    <2>1. currentPanel = p  BY <1>5 DEF IInv, SingleInv
    <2>2. UNCHANGED <<pending, requestId, toView, alive, currentPanel>>
      BY <1>2 DEF viewVars, panelVars
    <2>3. ASSUME NEW q \in Panels, NEW e \in Known(q)' PROVE e \in Known(q)
      <3>1. CASE e \in pending'[q] \cup Elems(toExtension[q])' \cup Elems(toView[q])'
        BY <3>1, <2>2, <1>4 DEF Known, Elems
      <3>2. CASE e \in {callOf'[x] : x \in {y \in handling' : target'[y] = q}}
        <4>1. PICK x \in handling' : target'[x] = q /\ e = callOf'[x]  BY <3>2
        <4>2. x \in Requests  BY <4>1, <1>2, <1>3 DEF IInv, TypeOK
        <4>3. CASE x = r
          <5>1. q = p /\ e = entry  BY <4>1, <4>3, <2>1, <1>2, <1>3 DEF IInv, TypeOK
          <5> QED  BY <5>1, <1>3 DEF Known
        <4>4. CASE x # r
          <5>1. x \in handling /\ target[x] = q /\ e = callOf[x]
            BY <4>1, <4>2, <4>4, <1>2 DEF IInv, TypeOK
          <5> QED  BY <5>1 DEF Known
        <4> QED  BY <4>3, <4>4
      <3> QED  BY <2>3, <3>1, <3>2 DEF Known
    <2> QED  BY <2>2, <2>3 DEF IInv, SingleInv
  <1>11. [View!Next]_(View!vars)
    <2>1. Mixed \subseteq Mixed' /\ Mixed' \subseteq Requests
      BY <1>2, <1>6 DEF Mixed, panelVars
    <2> QED  BY <2>1, <1>2, <1>6, ConfuseStep DEF viewVars
  <1> QED  BY <1>7, <1>8, <1>9, <1>10, <1>11 DEF IInv

\* Nothing the extension shows of a call is a step of the view's promise, but
\* that the daemon carried it out.
LEMMA CallGoesOnStep ==
  ASSUME IInv, CallGoesOn
  PROVE  IInv' /\ [View!Next]_(View!vars)
  <1>1. UNCHANGED <<panelVars, viewVars, toExtension, toView, extVars>>
    BY DEF CallGoesOn
  <1> DEFINE CallKept ==
        /\ \A q \in Requests : status'[q] = "answered" => q \in done' \cup confused'
        /\ \A q \in Requests : status'[q] # "unsent" => status[q] # "unsent"
        /\ status' \in [Requests -> Client!Status]
        /\ done' \subseteq Requests /\ confused' = confused /\ confused \subseteq Requests
        /\ [View!Next]_(View!vars)
  <1>2. CallKept
    <2>1. ASSUME NEW c \in Requests, Client!CarryOut(c) PROVE CallKept
      <3>1. /\ status[c] \notin {"unsent", "refused"} /\ c \notin done
            /\ done' = done \cup {c} /\ status' = status /\ confused' = confused
        BY <2>1 DEF Client!CarryOut
      <3>2. outcome[c] \notin {"unsent", "refused"}
        BY <3>1 DEF IInv, ViewInv, CallInv
      <3>3. Mixed' = Mixed /\ outcome' = outcome
        BY <3>1, <1>1 DEF Mixed, panelVars, viewVars
      <3>4. View!CarryOut(c)  BY <3>1, <3>2, <3>3 DEF View!CarryOut
      <3> QED  BY <3>1, <3>4 DEF View!Next, IInv, TypeOK, CallInv
    <2>2. ASSUME NEW c \in Requests, Client!Answer(c) PROVE CallKept
      <3>1. /\ status[c] = "waiting" /\ c \in done \cup confused
            /\ status' = [status EXCEPT ![c] = "answered"]
            /\ done' = done /\ confused' = confused
        BY <2>2 DEF Client!Answer, Client!Settle
      <3>2. UNCHANGED <<outcome, done, confused, doubled>>
        BY <3>1, <1>1 DEF panelVars, viewVars
      <3>3. [View!Next]_(View!vars)  BY <3>2, StutterStep
      <3>4. status' \in [Requests -> Client!Status]
        BY <3>1 DEF IInv, TypeOK, Client!Status
      <3> QED  BY <3>1, <3>3, <3>4 DEF IInv, TypeOK, CallInv
    <2>3. ASSUME NEW cs \in SUBSET Requests, Client!Fail(cs) PROVE CallKept
      <3>1. /\ \A c \in cs : status[c] = "waiting"
            /\ status' = [c \in Requests |-> IF c \in cs THEN "failed" ELSE status[c]]
            /\ done' = done /\ confused' = confused
        BY <2>3 DEF Client!Fail
      <3>2. UNCHANGED <<outcome, done, confused, doubled>>
        BY <3>1, <1>1 DEF panelVars, viewVars
      <3>3. [View!Next]_(View!vars)  BY <3>2, StutterStep
      <3>4. status' \in [Requests -> Client!Status]
        BY <3>1 DEF IInv, TypeOK, Client!Status
      <3> QED  BY <3>1, <3>3, <3>4 DEF IInv, TypeOK, CallInv
    <2> QED  BY <2>1, <2>2, <2>3 DEF CallGoesOn
  <1>3. TypeOK'
    BY <1>1, <1>2 DEF IInv, TypeOK, panelVars, viewVars, extVars
  <1>4. ViewInv'
    BY <1>1 DEF IInv, ViewInv, Waiting, Elems, panelVars, viewVars
  <1>5. CallInv'
    BY <1>1, <1>2 DEF IInv, CallInv, viewVars, extVars
  <1>6. SingleInv'
    <2>1. \A p \in Panels : Known(p)' = Known(p)
      BY <1>1 DEF Known, Elems, viewVars, extVars
    <2> QED  BY <2>1, <1>1 DEF IInv, SingleInv, panelVars, viewVars
  <1> QED  BY <1>2, <1>3, <1>4, <1>5, <1>6 DEF IInv

LEMMA PostStep ==
  ASSUME IInv, NEW r \in Requests, Post(r)
  PROVE  IInv' /\ [View!Next]_(View!vars)
  <1>1. /\ r \in handling /\ handling' = handling \ {r}
        /\ toView' = IF target[r] \in alive
                     THEN [toView EXCEPT ![target[r]] = Append(@, callOf[r])]
                     ELSE toView
        /\ UNCHANGED <<panelVars, viewVars, toExtension, callOf, target, clientVars>>
        /\ callOf[r] \in Entry
    BY DEF Post, PostTo, IInv, CallInv
  <1>2. /\ toView' \in [Panels -> Seq(Entry)]
        /\ \A q \in Panels : Elems(toView[q])' \subseteq Known(q)
    <2>1. \A q \in Panels : toView[q] \in Seq(Entry)  BY DEF IInv, TypeOK
    <2>2. \A q \in Panels : Elems(toView[q]) \subseteq Known(q)  BY DEF Known
    <2>3. CASE target[r] \notin alive
      <3>1. toView' = toView  BY <2>3, <1>1
      <3> QED  BY <3>1, <2>2 DEF IInv, TypeOK, Elems
    <2>4. CASE target[r] \in alive
      <3>1. PICK t : t = target[r]  OBVIOUS
      <3>2. t \in Panels /\ toView' = [toView EXCEPT ![t] = Append(@, callOf[r])]
        BY <2>4, <3>1, <1>1, PanelsAssumption DEF IInv, TypeOK, Panels
      <3>3. /\ Append(toView[t], callOf[r]) \in Seq(Entry)
            /\ Elems(Append(toView[t], callOf[r])) \subseteq Elems(toView[t]) \cup {callOf[r]}
        BY <3>2, <2>1, <1>1, ElemsAppend
      <3>4. callOf[r] \in Known(t)  BY <3>1, <1>1 DEF Known
      <3>5. /\ toView'[t] = Append(toView[t], callOf[r])
            /\ \A q \in Panels : q # t => toView'[q] = toView[q]
        BY <3>2 DEF IInv, TypeOK
      <3>6. Elems(toView[t])' \subseteq Known(t)
        <4>1. Elems(toView'[t]) \subseteq Known(t)
          BY <3>2, <3>3, <3>4, <3>5, <2>2
        <4> QED  BY <4>1 DEF Elems
      <3>7. \A q \in Panels : q # t => Elems(toView[q])' \subseteq Known(q)
        BY <3>5, <2>2 DEF Elems
      <3>8. toView' \in [Panels -> Seq(Entry)]
        BY <3>2, <3>3 DEF IInv, TypeOK
      <3>9. ASSUME NEW q \in Panels PROVE Elems(toView[q])' \subseteq Known(q)
        <4>1. CASE q = t  BY <4>1, <3>6
        <4>2. CASE q # t  BY <4>2, <3>7
        <4> QED  BY <4>1, <4>2
      <3> QED  BY <3>8, <3>9
    <2> QED  BY <2>3, <2>4
  <1>3. TypeOK'
    BY <1>1, <1>2 DEF IInv, TypeOK, panelVars, viewVars, clientVars
  <1>4. ViewInv'
    BY <1>1 DEF IInv, ViewInv, Waiting, Elems, panelVars, viewVars
  <1>5. CallInv'
    BY <1>1 DEF IInv, CallInv, viewVars, clientVars
  <1>6. SingleInv'
    <2>1. \A p \in Panels : Known(p)' \subseteq Known(p)
      BY <1>1, <1>2 DEF Known, Elems, viewVars
    <2> QED  BY <2>1, <1>1 DEF IInv, SingleInv, panelVars, viewVars
  <1>7. [View!Next]_(View!vars)
    BY <1>1, StutterStep DEF panelVars, viewVars, clientVars
  <1> QED  BY <1>3, <1>4, <1>5, <1>6, <1>7 DEF IInv

LEMMA NextIInv == IInv /\ [Next]_vars => IInv' /\ [View!Next]_(View!vars)
  <1> SUFFICES ASSUME IInv, [Next]_vars PROVE IInv' /\ [View!Next]_(View!vars)
    OBVIOUS
  <1>1. CASE UNCHANGED vars
    <2>1. UNCHANGED <<panelVars, viewVars, toExtension, toView, extVars, clientVars>>
      BY <1>1 DEF vars
    <2>2. TypeOK'  BY <2>1 DEF IInv, TypeOK, panelVars, viewVars, extVars, clientVars
    <2>3. ViewInv'
      BY <2>1 DEF IInv, ViewInv, Waiting, Elems, panelVars, viewVars
    <2>4. CallInv'  BY <2>1 DEF IInv, CallInv, viewVars, extVars, clientVars
    <2>5. \A p \in Panels : Known(p)' = Known(p)
      BY <2>1 DEF Known, Elems, viewVars, extVars
    <2>6. SingleInv'  BY <2>1, <2>5 DEF IInv, SingleInv, panelVars, viewVars
    <2>7. [View!Next]_(View!vars)
      BY <2>1, StutterStep DEF panelVars, viewVars, clientVars
    <2> QED  BY <2>2, <2>3, <2>4, <2>6, <2>7 DEF IInv
  <1>2. CASE Open \/ Started  BY <1>2, PanelStep
  <1>3. ASSUME NEW p \in Panels, Dispose(p) \/ HandleResponse(p) \/ Receive(p)
        PROVE  IInv' /\ [View!Next]_(View!vars)
    BY <1>3, DisposeStep, HandleResponseStep, ReceiveStep
  <1>4. ASSUME NEW p \in Panels, NEW r \in Requests, Request(p, r)
        PROVE  IInv' /\ [View!Next]_(View!vars)
    BY <1>4, RequestStep
  <1>5. ASSUME NEW r \in Requests, Timeout(r) \/ Post(r)
        PROVE  IInv' /\ [View!Next]_(View!vars)
    BY <1>5, TimeoutStep, PostStep
  <1>6. CASE CallGoesOn  BY <1>6, CallGoesOnStep
  <1> QED  BY <1>1, <1>2, <1>3, <1>4, <1>5, <1>6 DEF Next

\* The state of the panels, the webviews and the extension keeps its types, for
\* every set of requests and every number of panels.
THEOREM TypeCorrect == Spec => []TypeOK
  <1>1. Init => IInv  BY InitIInv
  <1>2. IInv /\ [Next]_vars => IInv'  BY NextIInv
  <1>3. IInv => TypeOK  BY DEF IInv
  <1> QED  BY <1>1, <1>2, <1>3, PTL DEF Spec

\* The graph view is promised what the extension is: a request is settled at most
\* once, and answered only when the daemon carried this one out, although each
\* panel's transport counts from 1 while handlers of the last one's requests run
\* on; unless two panels were open at a time.
THEOREM ViewIsPromisedRpc == Spec => ImplementsRpc
  <1>1. Init => IInv /\ View!Init  BY InitIInv
  <1>2. IInv /\ [Next]_vars => IInv' /\ [View!Next]_(View!vars)  BY NextIInv
  <1> QED  BY <1>1, <1>2, PTL DEF Spec, ImplementsRpc, View!Spec

=============================================================================
