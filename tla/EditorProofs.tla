------------------------------ MODULE EditorProofs ------------------------------
(***************************************************************************)
(* Proofs about Editor, for every set of nodes, edges, snapshots, labels   *)
(* and directories, any number of steps and of failures.                   *)
(*                                                                         *)
(* The argument is about what a document will be when the requests under   *)
(* way are carried out (AskInv): a document that was not spoiled has at    *)
(* most one such request, and it will be what the user asked for.  What is *)
(* shown of it (FormInv, ModalInv) is compared with the same.              *)
(***************************************************************************)
EXTENDS Editor, SequenceTheorems, TLAPS

Writing(op) == op \in PanelOps \cup {"prompt", "reset"}
\* The requests that will change d.
Pending(d) == {i \in DOMAIN calls : calls[i].doc = d /\ Writing(calls[i].op)}

\* What a field of d will be once no such request is pending.
TextBecomes(d, x) ==
    /\ Pending(d) = {} => stored[d].text = x
    /\ \A i \in Pending(d) : calls[i].val.text = x
LabelOf(c, v) ==
    IF c.op = "update" /\ "label" \in c.gives THEN c.val.label ELSE v.label
LabelBecomes(d, x) ==
    /\ Pending(d) = {} => stored[d].label = x
    /\ \A i \in Pending(d) : LabelOf(calls[i], stored[d]) = x
DirOf(c, v) ==
    IF c.op = "update" THEN IF "dir" \in c.gives THEN c.val.dir ELSE <<>> ELSE v.dir
DirBecomes(d, x) ==
    /\ Pending(d) = {} => stored[d].dir = x
    /\ \A i \in Pending(d) : DirOf(calls[i], stored[d]) = x

\* A request is about a document of its kind.
Proper(c) ==
    /\ c.op \in PanelOps => c.doc \in Shown
    /\ c.op = "update" => c.doc \in Virtual
    /\ c.op \in ModalOps => c.doc \in Snapshots
    /\ c.op = "reset" => c.val = Blank(c.doc)
    /\ c.op = "graph" => c.doc = None
CallsInv == \A i \in DOMAIN calls : Proper(calls[i])

\* What is not spoiled becomes what was asked, by one request at most.
Once(d) == \A i, j \in Pending(d) : i = j
Ask(d) ==
    /\ Once(d)
    /\ TextBecomes(d, asked[d].text) /\ LabelBecomes(d, asked[d].label)
    /\ d \notin moved => DirBecomes(d, asked[d].dir)
AskInv == \A d \in Docs \ spoiled : Ask(d)

\* What was not typed in a form becomes what the form shows, but for a label
\* that was cleared.
FormInv ==
    panel.of \notin spoiled \cup {None} /\ ~panel.odd /\ ~broken =>
        /\ "text" \notin panel.typed => TextBecomes(panel.of, panel.input.text)
        /\ "label" \notin panel.typed /\ panel.input.label # NoLabel =>
              LabelBecomes(panel.of, panel.input.label)

\* Where the graph is old, a request that ends in a refresh is under way.
GraphAsked == \E i \in DOMAIN calls : calls[i].op = "graph"
GraphInv ==
    ~broken =>
        \A d \in Shown \ spoiled :
            \/ graph[d] = stored[d]
            \/ Pending(d) # {}
            \/ GraphAsked

-----------------------------------------------------------------------------
(* The prompts.                                                            *)

Gets == {i \in DOMAIN calls : calls[i].op = "get"}
PromptWrites == {i \in DOMAIN calls : calls[i].op \in {"prompt", "reset"}}

\* A snapshot has nothing but its prompt.
SnapshotsInv ==
    \A s \in Snapshots :
        /\ stored[s].label = FirstLabel /\ asked[s].label = FirstLabel
        /\ stored[s].dir = <<>> /\ asked[s].dir = <<>>
        /\ asked[s].text[1] = s
        /\ s \notin spoiled => stored[s].text[1] = s

\* The requests of a modal that is gone are older than those of the modal that
\* is there, which is loading until they are answered; a prompt is not written
\* while another is.
LivesInv ==
    /\ \A i, j \in DOMAIN calls :
          i < j /\ {calls[i].op, calls[j].op} \subseteq ModalOps /\ calls[i].live
          => calls[j].live
    /\ ~modal.loading => \A i \in DOMAIN calls : calls[i].op \in ModalOps => calls[i].live
    /\ ~modal.saving => \A i \in PromptWrites : ~calls[i].live
    /\ \A i, j \in PromptWrites : i = j

\* The last prompt asked for is that of the modal, and so are later writes.  A
\* prompt written before its own was there spoils the snapshot.
OrderInv ==
    /\ modal.open # None =>
          /\ \A i \in Gets : (\A j \in Gets : j <= i) => calls[i].doc = modal.open
          /\ \A i \in PromptWrites : (\A j \in Gets : j < i) => calls[i].doc = modal.open
    /\ \A i \in PromptWrites :
          calls[i].op = "prompt" /\ (\E j \in Gets : j < i) => calls[i].doc \in spoiled

\* What the modal shows once its own prompt is there.
ModalInv ==
    modal.open \notin spoiled \cup {None} /\ Gets = {} /\ ~modal.odd =>
        /\ modal.prompt[1] = modal.open
        /\ PromptWrites = {} =>
              /\ modal.original = stored[modal.open].text
              /\ modal.custom <=> modal.original # <<modal.open, 0>>
              /\ modal.prompt[2] = 0 => modal.prompt = modal.original
        /\ \A i \in PromptWrites :
              calls[i].op = "prompt" =>
                  /\ calls[i].val.text[1] = modal.open
                  /\ calls[i].val.text[2] # 0
                  /\ modal.prompt[2] # 0

IInv ==
    /\ TypeOK /\ CallsInv /\ DisabledOnlyWhileAwaited
    /\ AskInv /\ FormInv /\ GraphInv
    /\ SnapshotsInv /\ LivesInv /\ OrderInv /\ ModalInv

-----------------------------------------------------------------------------
(* Types.                                                                  *)

Request == [op : PanelOps \cup ModalOps \cup {"graph"}, doc : Docs \cup {None},
            val : Value, gives : SUBSET Fields, live : BOOLEAN]
Panel == [of : Shown \cup {None}, editing : BOOLEAN, saving : BOOLEAN,
          typed : SUBSET Fields, odd : BOOLEAN, input : Value]
Modal == [open : Snapshots \cup {None}, prompt : Texts, original : Texts,
          custom : BOOLEAN, loading : BOOLEAN, saving : BOOLEAN, odd : BOOLEAN]

PanelOK ==
    /\ panel \in Panel
    /\ panel.of \notin Virtual => panel.typed \subseteq {"text"}
    /\ panel.typed # {} => panel.editing
    /\ panel.editing => panel.of # None
RestOK ==
    /\ stored \in [Docs -> Value] /\ graph \in [Shown -> Value] /\ asked \in [Docs -> Value]
    /\ broken \in BOOLEAN
    /\ modal \in Modal
    /\ calls \in Seq(Request)
    /\ moved \subseteq Virtual /\ spoiled \subseteq Docs
    /\ steps \in 0..MaxSteps /\ fails \in 0..MaxFails

LEMMA Typing == TypeOK <=> PanelOK /\ RestOK
  <1>1. ASSUME TypeOK PROVE PanelOK /\ RestOK
    BY <1>1 DEF TypeOK, PanelOK, RestOK, Panel, Modal, Request, Fields
  <1>2. ASSUME PanelOK, RestOK PROVE TypeOK
    BY <1>2 DEF TypeOK, PanelOK, RestOK, Panel, Modal, Request, Fields
  <1> QED  BY <1>1, <1>2

LEMMA Kinds ==
  /\ None \notin Docs /\ None \notin Shown /\ Virtual \subseteq Nodes
  /\ Shown \subseteq Docs /\ Snapshots \subseteq Docs /\ Shown \cap Snapshots = {}
  /\ Virtual \subseteq Shown /\ Virtual \cap Edges = {} /\ Edges \subseteq Shown
  BY EditorAssumption DEF Docs, Shown

LEMMA BlankTyped ==
  ASSUME NEW d \in Docs \cup {None}
  PROVE  Blank(d) \in Value
  <1>1. <<>> \in Seq(Names) /\ <<d, 0>> \in Texts  BY DEF Texts
  <1> QED  BY <1>1, EditorAssumption DEF Blank, Value

LEMMA FilePathTyped ==
  ASSUME NEW v \in Value
  PROVE  FilePath(v) \in Seq(Names)
  <1>1. v.dir \in Seq(Names) /\ v.label \in Names /\ "virtual" \in Names
    BY DEF Value, Names
  <1>2. <<"virtual">> \in Seq(Names) /\ <<v.label>> \in Seq(Names)  BY <1>1
  <1>3. (IF v.dir = <<>> THEN <<"virtual">> ELSE v.dir) \in Seq(Names)  BY <1>1, <1>2
  <1> QED  BY <1>2, <1>3, ConcatProperties DEF FilePath

LEMMA FilledTyped ==
  ASSUME NEW d \in Shown, NEW g \in [Shown -> Value], NEW saving \in BOOLEAN
  PROVE  /\ Filled(d, g, saving) \in Panel
         /\ Filled(d, g, saving).of = d /\ Filled(d, g, saving).typed = {}
         /\ Filled(d, g, saving).saving = saving
         /\ Filled(d, g, saving).odd = Outdated(d, g)
         /\ Filled(d, g, saving).input.text = g[d].text
         /\ Filled(d, g, saving).input.label = g[d].label
  <1>1. g[d] \in Value  OBVIOUS
  <1>2. [g[d] EXCEPT !.dir = FilePath(g[d])] \in Value
    BY <1>1, FilePathTyped DEF Value
  <1>3. Outdated(d, g) \in BOOLEAN  BY DEF Outdated
  <1>4. Filled(d, g, saving) \in Panel  BY <1>2, <1>3 DEF Filled, Panel
  <1>5. /\ [g[d] EXCEPT !.dir = FilePath(g[d])].text = g[d].text
        /\ [g[d] EXCEPT !.dir = FilePath(g[d])].label = g[d].label
    BY <1>1 DEF Value
  <1> QED  BY <1>4, <1>5 DEF Filled

LEMMA NoPanelTyped ==
  /\ NoPanel \in Panel /\ NoPanel.of = None /\ NoPanel.typed = {} /\ NoPanel.saving = FALSE
  /\ NoModal \in Modal /\ NoModal.open = None /\ NoModal.saving = FALSE
  /\ NoModal.loading = TRUE
  <1>1. <<>> \in Seq(Names) /\ <<None, 0>> \in Texts  BY DEF Texts
  <1> QED  BY <1>1, EditorAssumption DEF NoPanel, NoModal, Panel, Modal, Value, Fields

LEMMA PanelFilled ==
  ASSUME RestOK, NEW d \in Shown, NEW g \in [Shown -> Value], NEW saving \in BOOLEAN,
         panel' = Filled(d, g, saving)
  PROVE  PanelOK'
  <1>1. Filled(d, g, saving) \in Panel /\ Filled(d, g, saving).typed = {}
    BY FilledTyped
  <1>2. Filled(d, g, saving).of # None  BY FilledTyped, Kinds
  <1> QED  BY <1>1, <1>2 DEF PanelOK, Panel

-----------------------------------------------------------------------------
(* What becomes of the requests under way.                                 *)

Alike(a, b) ==
    /\ a.op = b.op /\ a.doc = b.doc /\ a.val = b.val /\ a.gives = b.gives
    /\ a.live => b.live
\* k requests, none or the oldest, are answered; those left move up.
Left(k) ==
    /\ k \in {0, 1} /\ k <= Len(calls)
    /\ \A i \in 1 .. (Len(calls) - k) : Alike(calls'[i], calls[i + k])
Drops(k) == Left(k) /\ Len(calls') = Len(calls) - k
Adds(k, e) ==
    Left(k) /\ Len(calls') = Len(calls) - k + 1 /\ calls'[Len(calls) - k + 1] = e

\* What of the requests stays exactly as it was: those that are not of ops.
Moved(k, ops) ==
    \A i \in 1 .. (Len(calls) - k) :
        calls[i + k].op \notin ops => calls'[i] = calls[i + k]

LEMMA Lengths ==
  ASSUME calls \in Seq(Request)
  PROVE  /\ Len(calls) \in Nat /\ DOMAIN calls = 1 .. Len(calls)
         /\ \A i \in 1 .. Len(calls) : calls[i] \in Request
  BY LenProperties, ElementOfSeq

LEMMA SameDrops == calls \in Seq(Request) /\ calls' = calls => Drops(0) /\ Moved(0, {})
  BY Lengths DEF Drops, Left, Alike, Moved

LEMMA SendAdds ==
  ASSUME calls \in Seq(Request), NEW e \in Request, calls' = Append(calls, e)
  PROVE  Adds(0, e) /\ Moved(0, {}) /\ calls' \in Seq(Request)
  <1>1. /\ Len(calls') = Len(calls) + 1 /\ calls'[Len(calls) + 1] = e
        /\ \A i \in 1 .. Len(calls) : calls'[i] = calls[i]
        /\ calls' \in Seq(Request)
    BY AppendProperties
  <1> QED  BY <1>1, Lengths DEF Adds, Left, Alike, Moved

LEMMA TailDrops ==
  ASSUME calls \in Seq(Request), calls # <<>>, calls' = Tail(calls)
  PROVE  /\ Drops(1) /\ Moved(1, {}) /\ calls' \in Seq(Request)
         /\ Head(calls) = calls[1] /\ 1 \in DOMAIN calls
  <1>1. /\ Len(calls') = Len(calls) - 1 /\ Head(calls) = calls[1]
        /\ \A i \in 1 .. Len(calls) - 1 : calls'[i] = calls[i + 1]
        /\ calls' \in Seq(Request)
    BY HeadTailProperties, Lengths
  <1>2. Len(calls) \in Nat /\ Len(calls) # 0  BY Lengths, EmptySeq
  <1> QED  BY <1>1, <1>2, Lengths DEF Drops, Left, Alike, Moved

LEMMA TailAdds ==
  ASSUME calls \in Seq(Request), calls # <<>>, NEW e \in Request,
         calls' = Append(Tail(calls), e)
  PROVE  /\ Adds(1, e) /\ Moved(1, {}) /\ calls' \in Seq(Request)
         /\ Head(calls) = calls[1] /\ 1 \in DOMAIN calls
  <1> DEFINE rest == Tail(calls)
  <1>1. /\ Len(rest) = Len(calls) - 1 /\ Head(calls) = calls[1]
        /\ \A i \in 1 .. Len(calls) - 1 : rest[i] = calls[i + 1]
        /\ rest \in Seq(Request)
    BY HeadTailProperties, Lengths
  <1>2. Len(calls) \in Nat /\ Len(calls) # 0  BY Lengths, EmptySeq
  <1> HIDE DEF rest
  <1>3. /\ Len(calls') = Len(rest) + 1 /\ calls'[Len(rest) + 1] = e
        /\ \A i \in 1 .. Len(rest) : calls'[i] = rest[i]
        /\ calls' \in Seq(Request)
    BY <1>1, AppendProperties DEF rest
  <1> QED  BY <1>1, <1>2, <1>3, Lengths DEF Adds, Left, Alike, Moved

LEMMA ForgottenAlike ==
  ASSUME NEW cs \in Seq(Request), NEW ops
  PROVE  /\ Forgotten(cs, ops) \in Seq(Request) /\ Len(Forgotten(cs, ops)) = Len(cs)
         /\ \A i \in 1 .. Len(cs) :
               /\ Alike(Forgotten(cs, ops)[i], cs[i])
               /\ Forgotten(cs, ops)[i].live = (cs[i].live /\ cs[i].op \notin ops)
  <1>1. Len(cs) \in Nat /\ DOMAIN cs = 1 .. Len(cs) /\ \A i \in 1 .. Len(cs) : cs[i] \in Request
    BY LenProperties, ElementOfSeq
  <1> DEFINE to(i) == [cs[i] EXCEPT !.live = @ /\ cs[i].op \notin ops]
  <1>2. \A i \in 1 .. Len(cs) :
           /\ to(i) \in Request /\ Alike(to(i), cs[i])
           /\ to(i).live = (cs[i].live /\ cs[i].op \notin ops)
    BY <1>1 DEF Request, Alike
  <1>3. Forgotten(cs, ops) = [i \in 1 .. Len(cs) |-> to(i)]
    BY <1>1 DEF Forgotten
  <1> HIDE DEF to
  <1>4. Forgotten(cs, ops) \in Seq(Request)
    BY <1>1, <1>2, <1>3, IsASeq
  <1>5. Len(Forgotten(cs, ops)) = Len(cs)  BY <1>1, <1>3, <1>4, LenProperties
  <1> QED  BY <1>2, <1>3, <1>4, <1>5

LEMMA ForgetDrops ==
  ASSUME calls \in Seq(Request), NEW ops, calls' = Forgotten(calls, ops)
  PROVE  Drops(0) /\ Moved(0, ops) /\ calls' \in Seq(Request)
  <1>1. /\ calls' \in Seq(Request) /\ Len(calls') = Len(calls)
        /\ \A i \in 1 .. Len(calls) : Alike(calls'[i], calls[i])
    BY ForgottenAlike
  <1>2. \A i \in 1 .. Len(calls) : calls[i].op \notin ops => calls'[i] = calls[i]
    <2> SUFFICES ASSUME NEW i \in 1 .. Len(calls), calls[i].op \notin ops
                 PROVE  calls'[i] = calls[i]
      OBVIOUS
    <2>1. calls[i] \in Request /\ i \in DOMAIN calls  BY Lengths
    <2>2. calls'[i] = [calls[i] EXCEPT !.live = calls[i].live]
      BY <2>1 DEF Forgotten, Request
    <2> QED  BY <2>1, <2>2 DEF Request
  <1> QED  BY <1>1, <1>2, Lengths DEF Drops, Left, Moved

LEMMA ForgetTail ==
  ASSUME calls \in Seq(Request), calls # <<>>, NEW ops,
         calls' = Forgotten(Tail(calls), ops)
  PROVE  /\ Drops(1) /\ calls' \in Seq(Request)
         /\ \A i \in 1 .. Len(calls') : calls'[i].op \in ops => ~calls'[i].live
         /\ Head(calls) = calls[1] /\ 1 \in DOMAIN calls
  <1> DEFINE rest == Tail(calls)
  <1>1. /\ Len(rest) = Len(calls) - 1 /\ Head(calls) = calls[1]
        /\ \A i \in 1 .. Len(calls) - 1 : rest[i] = calls[i + 1]
        /\ rest \in Seq(Request)
    BY HeadTailProperties, Lengths
  <1>2. Len(calls) \in Nat /\ Len(calls) # 0  BY Lengths, EmptySeq
  <1>3. calls' = Forgotten(rest, ops)  OBVIOUS
  <1> HIDE DEF rest
  <1>4. /\ calls' \in Seq(Request) /\ Len(calls') = Len(rest)
        /\ \A i \in 1 .. Len(rest) :
              /\ Alike(calls'[i], rest[i])
              /\ calls'[i].live = (rest[i].live /\ rest[i].op \notin ops)
    BY <1>1, <1>3, ForgottenAlike
  <1>5. ASSUME NEW i \in 1 .. Len(calls'), calls'[i].op \in ops
        PROVE  ~calls'[i].live
    <2>1. rest[i].op = calls'[i].op  BY <1>4 DEF Alike
    <2> QED  BY <1>4, <1>5, <2>1
  <1>6. \A i \in 1 .. Len(calls) - 1 : Alike(calls'[i], calls[i + 1])
    BY <1>1, <1>4 DEF Alike
  <1>7. Drops(1)  BY <1>1, <1>2, <1>4, <1>6 DEF Drops, Left
  <1> QED  BY <1>1, <1>2, <1>4, <1>5, <1>7, Lengths

Writes(c, d) == c.doc = d /\ Writing(c.op)
\* What d becomes stays the same.
Kept(d) ==
    /\ Once(d) => Once(d)'
    /\ \A x : TextBecomes(d, x) => TextBecomes(d, x)'
    /\ \A x : LabelBecomes(d, x) => LabelBecomes(d, x)'
    /\ \A x : DirBecomes(d, x) => DirBecomes(d, x)'

\* What becomes of d is not changed by what happens to other documents.
LEMMA Untouched ==
  ASSUME calls \in Seq(Request), calls' \in Seq(Request), NEW d, NEW k,
         Drops(k) \/ \E e : Adds(k, e) /\ ~Writes(e, d),
         k = 1 => ~Writes(calls[1], d),
         stored'[d] = stored[d]
  PROVE  Kept(d) /\ (Pending(d) = {} <=> Pending(d)' = {})
  <1>1. /\ Len(calls) \in Nat /\ DOMAIN calls = 1 .. Len(calls)
        /\ Len(calls') \in Nat /\ DOMAIN calls' = 1 .. Len(calls')
    BY Lengths, LenProperties
  <1>2. /\ k \in {0, 1} /\ k <= Len(calls)
        /\ \A i \in 1 .. (Len(calls) - k) : Alike(calls'[i], calls[i + k])
    BY DEF Drops, Adds, Left
  <1>3. ASSUME NEW i \in Pending(d)'
        PROVE  /\ i \in 1 .. (Len(calls) - k) /\ i + k \in Pending(d)
               /\ Alike(calls'[i], calls[i + k])
    <2>1. i \in 1 .. Len(calls') /\ Writes(calls'[i], d)
      BY <1>1 DEF Pending, Writes
    <2>2. i \in 1 .. (Len(calls) - k)
      <3>1. CASE Drops(k)  BY <3>1, <1>1, <1>2, <2>1 DEF Drops
      <3>2. CASE \E e : Adds(k, e) /\ ~Writes(e, d)
        BY <3>2, <1>1, <1>2, <2>1 DEF Adds
      <3> QED  BY <3>1, <3>2
    <2>3. i + k \in 1 .. Len(calls)  BY <1>1, <1>2, <2>2
    <2> QED  BY <1>1, <1>2, <2>1, <2>2, <2>3 DEF Pending, Alike, Writes
  <1>4. ASSUME NEW i \in Pending(d)
        PROVE  i - k \in Pending(d)'
    <2>1. i \in 1 .. Len(calls) /\ Writes(calls[i], d)  BY <1>1 DEF Pending, Writes
    <2>2. i - k \in 1 .. (Len(calls) - k)  BY <1>1, <1>2, <2>1
    <2>3. i - k \in 1 .. Len(calls') /\ (i - k) + k = i
      <3>1. Len(calls') >= Len(calls) - k  BY <1>1, <1>2 DEF Drops, Adds
      <3> QED  BY <1>1, <1>2, <2>1, <2>2, <3>1
    <2>4. Alike(calls'[i - k], calls[i])  BY <1>2, <2>2, <2>3
    <2> QED  BY <1>1, <2>1, <2>3, <2>4 DEF Pending, Alike, Writes
  <1>5. Once(d) => Once(d)'
    <2> SUFFICES ASSUME Once(d), NEW i \in Pending(d)', NEW j \in Pending(d)' PROVE i = j
      BY DEF Once
    <2>1. i + k = j + k  BY <1>3 DEF Once
    <2>2. i \in Nat /\ j \in Nat /\ k \in Nat  BY <1>2, <1>3
    <2> QED  BY <2>1, <2>2
  <1>6. Pending(d) = {} <=> Pending(d)' = {}  BY <1>3, <1>4
  <1>7. \A x : TextBecomes(d, x) => TextBecomes(d, x)'
    BY <1>3, <1>6 DEF TextBecomes, Alike
  <1>8. \A i \in Pending(d)' :
           \E j \in Pending(d) :
              /\ LabelOf(calls'[i], stored'[d]) = LabelOf(calls[j], stored[d])
              /\ DirOf(calls'[i], stored'[d]) = DirOf(calls[j], stored[d])
    <2> SUFFICES ASSUME NEW i \in Pending(d)'
                 PROVE  /\ LabelOf(calls'[i], stored'[d]) = LabelOf(calls[i + k], stored[d])
                        /\ DirOf(calls'[i], stored'[d]) = DirOf(calls[i + k], stored[d])
      BY <1>3
    <2> QED  BY <1>3 DEF LabelOf, DirOf, Alike
  <1>9. \A x : LabelBecomes(d, x) => LabelBecomes(d, x)'
    BY <1>6, <1>8 DEF LabelBecomes
  <1>10. \A x : DirBecomes(d, x) => DirBecomes(d, x)'
    BY <1>6, <1>8 DEF DirBecomes
  <1> QED  BY <1>5, <1>6, <1>7, <1>9, <1>10 DEF Kept

\* A request that changes d was carried out, and was the only one.
LEMMA CarriedOut ==
  ASSUME calls \in Seq(Request), calls' \in Seq(Request), NEW d,
         Drops(1) \/ \E e : Adds(1, e) /\ ~Writes(e, d),
         Writes(calls[1], d), Once(d),
         stored'[d].text = calls[1].val.text,
         stored'[d].label = LabelOf(calls[1], stored[d]),
         stored'[d].dir = DirOf(calls[1], stored[d])
  PROVE  Kept(d) /\ Pending(d)' = {}
  <1>1. /\ Len(calls) \in Nat /\ DOMAIN calls = 1 .. Len(calls)
        /\ Len(calls') \in Nat /\ DOMAIN calls' = 1 .. Len(calls')
    BY Lengths, LenProperties
  <1>2. /\ 1 <= Len(calls)
        /\ \A i \in 1 .. (Len(calls) - 1) : Alike(calls'[i], calls[i + 1])
    BY DEF Drops, Adds, Left
  <1>3. 1 \in Pending(d)  BY <1>1, <1>2 DEF Pending, Writes
  <1>4. Pending(d)' = {}
    <2> SUFFICES ASSUME NEW i \in Pending(d)' PROVE FALSE  OBVIOUS
    <2>1. i \in 1 .. Len(calls') /\ Writes(calls'[i], d)
      BY <1>1 DEF Pending, Writes
    <2>2. i \in 1 .. (Len(calls) - 1)
      <3>1. CASE Drops(1)  BY <3>1, <1>1, <1>2, <2>1 DEF Drops
      <3>2. CASE \E e : Adds(1, e) /\ ~Writes(e, d)
        BY <3>2, <1>1, <1>2, <2>1 DEF Adds
      <3> QED  BY <3>1, <3>2
    <2>3. i + 1 \in 1 .. Len(calls)  BY <1>1, <2>2
    <2>4. i + 1 \in Pending(d)
      BY <1>1, <1>2, <2>1, <2>2, <2>3 DEF Pending, Alike, Writes
    <2>5. i + 1 = 1  BY <1>3, <2>4 DEF Once
    <2> QED  BY <2>2, <2>5
  <1>5. \A x : TextBecomes(d, x) => TextBecomes(d, x)'
    BY <1>3, <1>4 DEF TextBecomes
  <1>6. \A x : LabelBecomes(d, x) => LabelBecomes(d, x)'
    BY <1>3, <1>4 DEF LabelBecomes
  <1>7. \A x : DirBecomes(d, x) => DirBecomes(d, x)'
    BY <1>3, <1>4 DEF DirBecomes
  <1>8. Once(d)'  BY <1>4 DEF Once
  <1> QED  BY <1>4, <1>5, <1>6, <1>7, <1>8 DEF Kept

\* The first of the two requests of a save was carried out, and the other is
\* under way.
LEMMA HalfCarriedOut ==
  ASSUME calls \in Seq(Request), calls' \in Seq(Request), NEW d, NEW e,
         Adds(1, e), e.doc = d, e.op = "annotate", e.val = calls[1].val,
         Writes(calls[1], d), Once(d),
         stored'[d].label = LabelOf(calls[1], stored[d]),
         stored'[d].dir = DirOf(calls[1], stored[d])
  PROVE  Kept(d) /\ Pending(d)' # {}
  <1>1. /\ Len(calls) \in Nat /\ DOMAIN calls = 1 .. Len(calls)
        /\ Len(calls') \in Nat /\ DOMAIN calls' = 1 .. Len(calls')
    BY Lengths, LenProperties
  <1>2. /\ 1 <= Len(calls) /\ Len(calls') = Len(calls)
        /\ calls'[Len(calls)] = e
        /\ \A i \in 1 .. (Len(calls) - 1) : Alike(calls'[i], calls[i + 1])
    BY <1>1 DEF Adds, Left
  <1>3. 1 \in Pending(d)  BY <1>1, <1>2 DEF Pending, Writes
  <1>4. Pending(d)' = {Len(calls)}
    <2>1. ASSUME NEW i \in Pending(d)', i # Len(calls) PROVE FALSE
      <3>1. i \in 1 .. (Len(calls) - 1) /\ Writes(calls'[i], d)
        BY <1>1, <1>2, <2>1 DEF Pending, Writes
      <3>2. i + 1 \in 1 .. Len(calls)  BY <1>1, <3>1
      <3>3. i + 1 \in Pending(d)
        BY <1>1, <1>2, <3>1, <3>2 DEF Pending, Alike, Writes
      <3>4. i + 1 = 1  BY <1>3, <3>3 DEF Once
      <3> QED  BY <3>1, <3>4
    <2>2. Len(calls) \in Pending(d)'
      BY <1>1, <1>2 DEF Pending, Writing, PanelOps
    <2> QED  BY <2>1, <2>2
  <1>5. \A x : TextBecomes(d, x) => TextBecomes(d, x)'
    BY <1>2, <1>3, <1>4 DEF TextBecomes
  <1>6. /\ LabelOf(calls'[Len(calls)], stored'[d]) = LabelOf(calls[1], stored[d])
        /\ DirOf(calls'[Len(calls)], stored'[d]) = DirOf(calls[1], stored[d])
    BY <1>2 DEF LabelOf, DirOf
  <1>7. \A x : LabelBecomes(d, x) => LabelBecomes(d, x)'
    BY <1>3, <1>4, <1>6 DEF LabelBecomes
  <1>8. \A x : DirBecomes(d, x) => DirBecomes(d, x)'
    BY <1>3, <1>4, <1>6 DEF DirBecomes
  <1>9. Once(d)'  BY <1>4 DEF Once
  <1> QED  BY <1>4, <1>5, <1>7, <1>8, <1>9 DEF Kept

\* A request that will change d is sent when there is no other.
LEMMA SentNow ==
  ASSUME calls \in Seq(Request), calls' \in Seq(Request), NEW d, NEW e,
         Adds(0, e), Writes(e, d), Pending(d) = {}
  PROVE  /\ Once(d)' /\ Pending(d)' # {}
         /\ TextBecomes(d, e.val.text)'
         /\ \A x : x = LabelOf(e, stored'[d]) => LabelBecomes(d, x)'
         /\ \A x : x = DirOf(e, stored'[d]) => DirBecomes(d, x)'
  <1>1. /\ Len(calls) \in Nat /\ DOMAIN calls = 1 .. Len(calls)
        /\ Len(calls') \in Nat /\ DOMAIN calls' = 1 .. Len(calls')
    BY Lengths, LenProperties
  <1>2. /\ Len(calls') = Len(calls) + 1
        /\ calls'[Len(calls) + 1] = e
        /\ \A i \in 1 .. Len(calls) : Alike(calls'[i], calls[i])
    BY <1>1 DEF Adds, Left
  <1>3. Pending(d)' = {Len(calls) + 1}
    <2>1. ASSUME NEW i \in Pending(d)', i # Len(calls) + 1 PROVE FALSE
      <3>1. i \in 1 .. Len(calls) /\ Writes(calls'[i], d)
        BY <1>1, <1>2, <2>1 DEF Pending, Writes
      <3>2. i \in Pending(d)
        BY <1>1, <1>2, <3>1 DEF Pending, Alike, Writes
      <3> QED  BY <3>2
    <2>2. Len(calls) + 1 \in Pending(d)'
      BY <1>1, <1>2 DEF Pending, Writes
    <2> QED  BY <2>1, <2>2
  <1> QED  BY <1>2, <1>3 DEF Once, TextBecomes, LabelBecomes, DirBecomes

-----------------------------------------------------------------------------
(* What a request changes, and what an answer leaves alone.                *)

LEMMA ExecutedIs ==
  ASSUME stored \in [Docs -> Value], NEW c \in Request, Proper(c)
  PROVE  /\ Executed(c) \in [Docs -> Value]
         /\ \A d \in Docs : ~Writes(c, d) => Executed(c)[d] = stored[d]
         /\ \A d \in Docs : Writes(c, d) =>
               /\ c.op # "reset" => Executed(c)[d].label = LabelOf(c, stored[d])
               /\ c.op # "reset" => Executed(c)[d].dir = DirOf(c, stored[d])
               /\ c.op # "update" => Executed(c)[d].text = c.val.text
               /\ c.op = "reset" => Executed(c)[d] = Blank(d)
  <1>1. c.val \in Value /\ c.val.text \in Texts /\ c.val.label \in Labels
        /\ c.val.dir \in Seq(Names) /\ <<>> \in Seq(Names)
    BY DEF Request, Value
  <1>2. CASE c.op = "update"
    <2>1. c.doc \in Docs /\ stored[c.doc] \in Value  BY <1>2, Kinds DEF Proper
    <2> DEFINE l == IF "label" \in c.gives THEN c.val.label ELSE stored[c.doc].label
               r == IF "dir" \in c.gives THEN c.val.dir ELSE <<>>
    <2>2. l \in Labels /\ r \in Seq(Names)  BY <1>1, <2>1 DEF Value
    <2>3. Executed(c) = [stored EXCEPT ![c.doc] = [@ EXCEPT !.label = l, !.dir = r]]
      BY <1>2, <2>1 DEF Executed, Value
    <2>4. l = LabelOf(c, stored[c.doc]) /\ r = DirOf(c, stored[c.doc])
      BY <1>2 DEF LabelOf, DirOf
    <2> HIDE DEF l, r
    <2>5. /\ [stored[c.doc] EXCEPT !.label = l, !.dir = r] \in Value
          /\ [stored[c.doc] EXCEPT !.label = l, !.dir = r].label = l
          /\ [stored[c.doc] EXCEPT !.label = l, !.dir = r].dir = r
      BY <2>1, <2>2 DEF Value
    <2>6. Executed(c) \in [Docs -> Value]  BY <2>3, <2>5
    <2>7. \A d \in Docs : ~Writes(c, d) => Executed(c)[d] = stored[d]
      BY <1>2, <2>3 DEF Writes, Writing, PanelOps
    <2>8. \A d \in Docs : Writes(c, d) =>
             Executed(c)[d].label = LabelOf(c, stored[d])
             /\ Executed(c)[d].dir = DirOf(c, stored[d])
      BY <2>1, <2>3, <2>4, <2>5 DEF Writes
    <2> QED  BY <1>2, <2>6, <2>7, <2>8
  <1>3. CASE c.op \in {"annotate", "remark", "prompt"}
    <2>1. c.doc \in Docs /\ stored[c.doc] \in Value
      BY <1>3, Kinds DEF Proper, PanelOps, ModalOps
    <2>2. Executed(c) = [stored EXCEPT ![c.doc] = [@ EXCEPT !.text = c.val.text]]
      BY <1>3, <2>1 DEF Executed
    <2>3. /\ [stored[c.doc] EXCEPT !.text = c.val.text] \in Value
          /\ [stored[c.doc] EXCEPT !.text = c.val.text].text = c.val.text
          /\ [stored[c.doc] EXCEPT !.text = c.val.text].label = stored[c.doc].label
          /\ [stored[c.doc] EXCEPT !.text = c.val.text].dir = stored[c.doc].dir
      BY <1>1, <2>1 DEF Value
    <2>4. Executed(c) \in [Docs -> Value]  BY <2>2, <2>3
    <2>5. \A d \in Docs : ~Writes(c, d) => Executed(c)[d] = stored[d]
      BY <1>3, <2>2 DEF Writes, Writing, PanelOps
    <2>6. \A d \in Docs : Writes(c, d) =>
             /\ Executed(c)[d].label = LabelOf(c, stored[d])
             /\ Executed(c)[d].dir = DirOf(c, stored[d])
             /\ Executed(c)[d].text = c.val.text
      BY <1>3, <2>1, <2>2, <2>3 DEF Writes, LabelOf, DirOf
    <2> QED  BY <1>3, <2>4, <2>5, <2>6
  <1>4. CASE c.op = "reset"
    <2>1. c.doc \in Docs /\ c.val = Blank(c.doc)
      BY <1>4, Kinds DEF Proper, ModalOps
    <2>2. Executed(c) = [stored EXCEPT ![c.doc] = Blank(c.doc)]
      BY <1>4 DEF Executed
    <2>3. Blank(c.doc) \in Value  BY <2>1, BlankTyped
    <2>4. Executed(c) \in [Docs -> Value]  BY <2>2, <2>3
    <2> QED  BY <1>4, <2>1, <2>2, <2>4 DEF Writes, Writing
  <1>5. CASE c.op \in {"get", "graph"}
    <2>1. Executed(c) = stored  BY <1>5 DEF Executed
    <2>2. ~Writing(c.op)  BY <1>5 DEF Writing, PanelOps
    <2> QED  BY <2>1, <2>2 DEF Writes
  <1>6. c.op \in PanelOps \cup ModalOps \cup {"graph"}  BY DEF Request
  <1> QED  BY <1>2, <1>3, <1>4, <1>5, <1>6 DEF PanelOps, ModalOps

LEMMA ProperKept ==
  ASSUME calls \in Seq(Request), calls' \in Seq(Request), CallsInv, NEW k,
         Drops(k) \/ \E e : Adds(k, e) /\ Proper(e)
  PROVE  CallsInv'
  <1>1. /\ Len(calls) \in Nat /\ DOMAIN calls = 1 .. Len(calls)
        /\ Len(calls') \in Nat /\ DOMAIN calls' = 1 .. Len(calls')
    BY Lengths, LenProperties
  <1>2. /\ k \in {0, 1} /\ k <= Len(calls)
        /\ \A i \in 1 .. (Len(calls) - k) : Alike(calls'[i], calls[i + k])
    BY DEF Drops, Adds, Left
  <1> SUFFICES ASSUME NEW i \in 1 .. Len(calls') PROVE Proper(calls'[i])
    BY <1>1 DEF CallsInv, Proper
  <1>3. CASE i \in 1 .. (Len(calls) - k)
    <2>1. i + k \in 1 .. Len(calls)  BY <1>1, <1>2, <1>3
    <2> QED  BY <1>1, <1>2, <1>3, <2>1 DEF CallsInv, Proper, Alike
  <1>4. CASE i \notin 1 .. (Len(calls) - k)
    <2>1. \E e : Adds(k, e) /\ Proper(e)  BY <1>1, <1>2, <1>4 DEF Drops
    <2> QED  BY <2>1, <1>1, <1>2, <1>4 DEF Adds
  <1> QED  BY <1>3, <1>4

LEMMA AwaitedKept ==
  ASSUME calls \in Seq(Request), calls' \in Seq(Request), NEW k,
         Drops(k) \/ \E e : Adds(k, e),
         NEW ops, NEW gone, Moved(k, gone), ops \cap gone = {},
         k = 1 => ~(calls[1].live /\ calls[1].op \in ops), Awaited(ops)
  PROVE  Awaited(ops)'
  <1>1. /\ Len(calls) \in Nat /\ DOMAIN calls = 1 .. Len(calls)
        /\ Len(calls') \in Nat /\ DOMAIN calls' = 1 .. Len(calls')
    BY Lengths, LenProperties
  <1>2. PICK i \in 1 .. Len(calls) : calls[i].op \in ops /\ calls[i].live
    BY <1>1 DEF Awaited
  <1>3. k \in {0, 1} /\ k <= Len(calls) /\ Len(calls') >= Len(calls) - k
    BY <1>1 DEF Drops, Adds, Left
  <1>4. i - k \in 1 .. (Len(calls) - k) /\ (i - k) + k = i  BY <1>1, <1>2, <1>3
  <1>5. calls'[i - k] = calls[i]  BY <1>2, <1>4 DEF Moved
  <1>6. i - k \in 1 .. Len(calls')  BY <1>1, <1>3, <1>4
  <1> QED  BY <1>1, <1>2, <1>5, <1>6 DEF Awaited

LEMMA AwaitedNow ==
  ASSUME calls \in Seq(Request), calls' \in Seq(Request), NEW k, NEW e, Adds(k, e)
  PROVE  /\ \A ops : e.live /\ e.op \in ops => Awaited(ops)'
         /\ e.op = "graph" => GraphAsked'
  <1>1. /\ Len(calls) \in Nat
        /\ Len(calls') \in Nat /\ DOMAIN calls' = 1 .. Len(calls')
    BY Lengths, LenProperties
  <1>2. Len(calls') \in DOMAIN calls' /\ calls'[Len(calls')] = e
    BY <1>1 DEF Adds, Left
  <1> QED  BY <1>2 DEF Awaited, GraphAsked

LEMMA GraphAskedKept ==
  ASSUME calls \in Seq(Request), calls' \in Seq(Request), NEW k,
         Drops(k) \/ \E e : Adds(k, e),
         k = 1 => calls[1].op # "graph", GraphAsked
  PROVE  GraphAsked'
  <1>1. /\ Len(calls) \in Nat /\ DOMAIN calls = 1 .. Len(calls)
        /\ Len(calls') \in Nat /\ DOMAIN calls' = 1 .. Len(calls')
    BY Lengths, LenProperties
  <1>2. PICK i \in 1 .. Len(calls) : calls[i].op = "graph"  BY <1>1 DEF GraphAsked
  <1>3. /\ k \in {0, 1} /\ k <= Len(calls) /\ Len(calls') >= Len(calls) - k
        /\ \A j \in 1 .. (Len(calls) - k) : Alike(calls'[j], calls[j + k])
    BY <1>1 DEF Drops, Adds, Left
  <1>4. i - k \in 1 .. (Len(calls) - k) /\ (i - k) + k = i  BY <1>1, <1>2, <1>3
  <1>5. calls'[i - k].op = "graph"  BY <1>2, <1>3, <1>4 DEF Alike
  <1>6. i - k \in 1 .. Len(calls')  BY <1>1, <1>3, <1>4
  <1> QED  BY <1>1, <1>5, <1>6 DEF GraphAsked

-----------------------------------------------------------------------------
(* What the requests of the panel leave alone: the modal and its prompts.  *)

LEMMA ModalShift ==
  ASSUME calls \in Seq(Request), calls' \in Seq(Request), NEW k,
         Drops(k) \/ \E e : Adds(k, e) /\ e.op \notin ModalOps,
         NEW gone, Moved(k, gone), gone \cap ModalOps = {}
  PROVE  /\ k \in {0, 1} /\ DOMAIN calls \subseteq Nat \ {0} /\ DOMAIN calls' \subseteq Nat \ {0}
         /\ \A i \in DOMAIN calls' : calls'[i].op \in ModalOps =>
               i + k \in DOMAIN calls /\ calls'[i] = calls[i + k]
         /\ \A i \in DOMAIN calls : calls[i].op \in ModalOps /\ i > k =>
               i - k \in DOMAIN calls' /\ calls'[i - k] = calls[i]
  <1>1. /\ Len(calls) \in Nat /\ DOMAIN calls = 1 .. Len(calls)
        /\ Len(calls') \in Nat /\ DOMAIN calls' = 1 .. Len(calls')
    BY Lengths, LenProperties
  <1>2. /\ k \in {0, 1} /\ k <= Len(calls) /\ Len(calls') >= Len(calls) - k
        /\ \A i \in 1 .. (Len(calls) - k) : Alike(calls'[i], calls[i + k])
    BY <1>1 DEF Drops, Adds, Left
  <1>3. ASSUME NEW i \in DOMAIN calls', calls'[i].op \in ModalOps
        PROVE  i + k \in DOMAIN calls /\ calls'[i] = calls[i + k]
    <2>1. i \in 1 .. (Len(calls) - k)
      <3>1. CASE Drops(k)  BY <3>1, <1>1, <1>2, <1>3 DEF Drops
      <3>2. CASE \E e : Adds(k, e) /\ e.op \notin ModalOps
        BY <3>2, <1>1, <1>2, <1>3 DEF Adds
      <3> QED  BY <3>1, <3>2
    <2>2. calls[i + k].op = calls'[i].op  BY <1>2, <2>1 DEF Alike
    <2>3. calls'[i] = calls[i + k]  BY <1>3, <2>1, <2>2 DEF Moved
    <2> QED  BY <1>1, <1>2, <2>1, <2>3
  <1>4. ASSUME NEW i \in DOMAIN calls, calls[i].op \in ModalOps, i > k
        PROVE  i - k \in DOMAIN calls' /\ calls'[i - k] = calls[i]
    <2>1. i - k \in 1 .. (Len(calls) - k) /\ (i - k) + k = i  BY <1>1, <1>2, <1>4
    <2>2. calls'[i - k] = calls[i]  BY <1>4, <2>1 DEF Moved
    <2> QED  BY <1>1, <1>2, <2>1, <2>2
  <1> QED  BY <1>1, <1>2, <1>3, <1>4

PromptsInv == SnapshotsInv /\ LivesInv /\ OrderInv /\ ModalInv

\* The requests of the modal, and the order they are in, after a step.
LEMMA PromptShift ==
  ASSUME calls \in Seq(Request), calls' \in Seq(Request), NEW k,
         Drops(k) \/ \E e : Adds(k, e) /\ e.op \notin ModalOps,
         NEW gone, Moved(k, gone), gone \cap ModalOps = {}
  PROVE  /\ k \in {0, 1} /\ Gets \subseteq Nat \ {0} /\ PromptWrites \subseteq Nat \ {0}
         /\ Gets' \subseteq Nat \ {0} /\ PromptWrites' \subseteq Nat \ {0}
         /\ \A i \in Gets' : i + k \in Gets /\ calls'[i] = calls[i + k]
         /\ \A i \in PromptWrites' : i + k \in PromptWrites /\ calls'[i] = calls[i + k]
         /\ \A i \in Gets : i > k => i - k \in Gets'
         /\ \A i \in PromptWrites : i > k => i - k \in PromptWrites'
  <1>1. /\ k \in {0, 1} /\ DOMAIN calls \subseteq Nat \ {0}
        /\ DOMAIN calls' \subseteq Nat \ {0}
        /\ \A i \in DOMAIN calls' : calls'[i].op \in ModalOps =>
               i + k \in DOMAIN calls /\ calls'[i] = calls[i + k]
        /\ \A i \in DOMAIN calls : calls[i].op \in ModalOps /\ i > k =>
               i - k \in DOMAIN calls' /\ calls'[i - k] = calls[i]
    BY ModalShift
  <1> QED  BY <1>1 DEF Gets, PromptWrites, ModalOps

LEMMA LivesShift ==
  ASSUME calls \in Seq(Request), calls' \in Seq(Request), NEW k,
         Drops(k) \/ \E e : Adds(k, e) /\ e.op \notin ModalOps,
         NEW gone, Moved(k, gone), gone \cap ModalOps = {}, LivesInv
  PROVE  /\ \A i, j \in DOMAIN calls' :
               i < j /\ {calls'[i].op, calls'[j].op} \subseteq ModalOps /\ calls'[i].live
               => calls'[j].live
         /\ ~modal.loading => \A i \in DOMAIN calls' : calls'[i].op \in ModalOps => calls'[i].live
         /\ ~modal.saving => \A i \in PromptWrites' : ~calls'[i].live
         /\ \A i, j \in PromptWrites' : i = j
  <1>1. /\ k \in {0, 1} /\ DOMAIN calls \subseteq Nat \ {0}
        /\ DOMAIN calls' \subseteq Nat \ {0}
        /\ \A i \in DOMAIN calls' : calls'[i].op \in ModalOps =>
               i + k \in DOMAIN calls /\ calls'[i] = calls[i + k]
    BY ModalShift
  <1>2. /\ PromptWrites' \subseteq Nat \ {0}
        /\ \A i \in PromptWrites' : i + k \in PromptWrites /\ calls'[i] = calls[i + k]
    BY PromptShift
  <1>3. ASSUME NEW i \in DOMAIN calls', NEW j \in DOMAIN calls', i < j,
               calls'[i].op \in ModalOps, calls'[j].op \in ModalOps, calls'[i].live
        PROVE  calls'[j].live
    <2>1. /\ i + k \in DOMAIN calls /\ calls'[i] = calls[i + k]
          /\ j + k \in DOMAIN calls /\ calls'[j] = calls[j + k]
      BY <1>1, <1>3
    <2>2. i + k < j + k  BY <1>1, <1>3
    <2> QED  BY <1>3, <2>1, <2>2 DEF LivesInv
  <1>4. ASSUME NEW i \in PromptWrites', NEW j \in PromptWrites' PROVE i = j
    <2>1. i + k = j + k  BY <1>2 DEF LivesInv
    <2> QED  BY <1>1, <1>2, <2>1
  <1>5. ~modal.loading => \A i \in DOMAIN calls' : calls'[i].op \in ModalOps => calls'[i].live
    BY <1>1 DEF LivesInv
  <1>6. ~modal.saving => \A i \in PromptWrites' : ~calls'[i].live
    BY <1>2 DEF LivesInv
  <1> QED  BY <1>3, <1>4, <1>5, <1>6

LEMMA OrderShift ==
  ASSUME calls \in Seq(Request), calls' \in Seq(Request), NEW k,
         Drops(k) \/ \E e : Adds(k, e) /\ e.op \notin ModalOps,
         NEW gone, Moved(k, gone), gone \cap ModalOps = {}, OrderInv,
         modal'.open \in {modal.open, None}, spoiled \subseteq spoiled'
  PROVE  OrderInv'
  <1>1. /\ k \in {0, 1} /\ Gets \subseteq Nat \ {0} /\ PromptWrites \subseteq Nat \ {0}
        /\ Gets' \subseteq Nat \ {0} /\ PromptWrites' \subseteq Nat \ {0}
        /\ \A i \in Gets' : i + k \in Gets /\ calls'[i] = calls[i + k]
        /\ \A i \in PromptWrites' : i + k \in PromptWrites /\ calls'[i] = calls[i + k]
        /\ \A i \in Gets : i > k => i - k \in Gets'
    BY PromptShift
  <1>2. ASSUME modal'.open # None, NEW i \in Gets', \A j \in Gets' : j <= i
        PROVE  calls'[i].doc = modal'.open
    <2>1. i + k \in Gets /\ calls'[i] = calls[i + k]  BY <1>1, <1>2
    <2>2. ASSUME NEW j \in Gets PROVE j <= i + k
      <3>1. CASE j <= k  BY <3>1, <1>1, <1>2, <2>2
      <3>2. CASE j > k
        <4>1. j - k \in Gets'  BY <1>1, <2>2, <3>2
        <4>2. j - k <= i  BY <1>2, <4>1
        <4> QED  BY <1>1, <1>2, <2>2, <4>2
      <3> QED  BY <3>1, <3>2, <1>1, <2>2
    <2>3. modal'.open = modal.open  BY <1>2
    <2> QED  BY <1>2, <2>1, <2>2, <2>3 DEF OrderInv
  <1>3. ASSUME modal'.open # None, NEW i \in PromptWrites', \A j \in Gets' : j < i
        PROVE  calls'[i].doc = modal'.open
    <2>1. i + k \in PromptWrites /\ calls'[i] = calls[i + k]  BY <1>1, <1>3
    <2>2. ASSUME NEW j \in Gets PROVE j < i + k
      <3>1. CASE j <= k  BY <3>1, <1>1, <1>3, <2>2
      <3>2. CASE j > k
        <4>1. j - k \in Gets'  BY <1>1, <2>2, <3>2
        <4>2. j - k < i  BY <1>3, <4>1
        <4> QED  BY <1>1, <1>3, <2>2, <4>2
      <3> QED  BY <3>1, <3>2, <1>1, <2>2
    <2>3. modal'.open = modal.open  BY <1>3
    <2> QED  BY <1>3, <2>1, <2>2, <2>3 DEF OrderInv
  <1>4. ASSUME NEW i \in PromptWrites', calls'[i].op = "prompt", NEW j \in Gets', j < i
        PROVE  calls'[i].doc \in spoiled'
    <2>1. i + k \in PromptWrites /\ calls'[i] = calls[i + k] /\ j + k \in Gets
      BY <1>1, <1>4
    <2>2. j + k < i + k  BY <1>1, <1>4
    <2>3. calls[i + k].doc \in spoiled  BY <1>4, <2>1, <2>2 DEF OrderInv
    <2> QED  BY <2>1, <2>3
  <1> QED  BY <1>2, <1>3, <1>4 DEF OrderInv

LEMMA PromptsAside ==
  ASSUME RestOK, calls' \in Seq(Request), NEW k,
         Drops(k) \/ \E e : Adds(k, e) /\ e.op \notin ModalOps,
         NEW gone, Moved(k, gone), gone \cap ModalOps = {},
         k = 1 => calls[1].op \notin ModalOps,
         PromptsInv, modal' = modal,
         \A s \in Snapshots :
             stored'[s] = stored[s] /\ asked'[s] = asked[s] /\ (s \in spoiled' <=> s \in spoiled),
         spoiled \subseteq spoiled'
  PROVE  PromptsInv'
  <1>1. calls \in Seq(Request) /\ modal \in Modal  BY DEF RestOK
  <1>2. LivesInv'
    <2>1. /\ \A i, j \in DOMAIN calls' :
               i < j /\ {calls'[i].op, calls'[j].op} \subseteq ModalOps /\ calls'[i].live
               => calls'[j].live
          /\ ~modal.loading => \A i \in DOMAIN calls' : calls'[i].op \in ModalOps => calls'[i].live
          /\ ~modal.saving => \A i \in PromptWrites' : ~calls'[i].live
          /\ \A i, j \in PromptWrites' : i = j
      BY <1>1, LivesShift DEF PromptsInv
    <2> QED  BY <2>1 DEF LivesInv
  <1>3. OrderInv'  BY <1>1, OrderShift DEF PromptsInv
  <1>4. SnapshotsInv'  BY DEF PromptsInv, SnapshotsInv
  <1>5. ModalInv'
    <2>1. /\ k \in {0, 1} /\ Gets \subseteq Nat \ {0} /\ PromptWrites \subseteq Nat \ {0}
          /\ \A i \in PromptWrites' : i + k \in PromptWrites /\ calls'[i] = calls[i + k]
          /\ \A i \in Gets : i > k => i - k \in Gets'
          /\ \A i \in PromptWrites : i > k => i - k \in PromptWrites'
      BY <1>1, PromptShift
    <2>2. \A i \in Gets \cup PromptWrites : i > k
      BY <2>1 DEF Gets, PromptWrites, ModalOps
    <2>3. Gets' = {} => Gets = {}  BY <2>1, <2>2
    <2>4. PromptWrites' = {} <=> PromptWrites = {}  BY <2>1, <2>2
    <2>5. modal.open \in Snapshots \cup {None}  BY <1>1 DEF Modal
    <2> SUFFICES ASSUME modal.open \notin spoiled \cup {None}, Gets = {}, ~modal.odd
                 PROVE  /\ modal.prompt[1] = modal.open
                        /\ PromptWrites' = {} =>
                              /\ modal.original = stored[modal.open].text
                              /\ modal.custom <=> modal.original # <<modal.open, 0>>
                              /\ modal.prompt[2] = 0 => modal.prompt = modal.original
                        /\ \A i \in PromptWrites' :
                              calls'[i].op = "prompt" =>
                                  /\ calls'[i].val.text[1] = modal.open
                                  /\ calls'[i].val.text[2] # 0
                                  /\ modal.prompt[2] # 0
      <3>1. modal.open # None => stored'[modal.open] = stored[modal.open]  BY <2>5
      <3> QED  BY <2>3, <2>5, <3>1 DEF ModalInv
    <2>6. /\ modal.prompt[1] = modal.open
          /\ PromptWrites = {} =>
                /\ modal.original = stored[modal.open].text
                /\ modal.custom <=> modal.original # <<modal.open, 0>>
                /\ modal.prompt[2] = 0 => modal.prompt = modal.original
          /\ \A i \in PromptWrites :
                calls[i].op = "prompt" =>
                    /\ calls[i].val.text[1] = modal.open
                    /\ calls[i].val.text[2] # 0
                    /\ modal.prompt[2] # 0
      BY DEF PromptsInv, ModalInv
    <2>7. \A i \in PromptWrites' :
             calls'[i].op = "prompt" =>
                 /\ calls'[i].val.text[1] = modal.open
                 /\ calls'[i].val.text[2] # 0
                 /\ modal.prompt[2] # 0
      <3> SUFFICES ASSUME NEW i \in PromptWrites', calls'[i].op = "prompt"
                   PROVE  /\ calls'[i].val.text[1] = modal.open
                          /\ calls'[i].val.text[2] # 0
                          /\ modal.prompt[2] # 0
        OBVIOUS
      <3>1. i + k \in PromptWrites /\ calls'[i] = calls[i + k]  BY <2>1
      <3>2. calls[i + k].op = "prompt"  BY <3>1
      <3>3. /\ calls[i + k].val.text[1] = modal.open
            /\ calls[i + k].val.text[2] # 0
            /\ modal.prompt[2] # 0
        BY <2>6, <3>1, <3>2
      <3> QED  BY <3>1, <3>3
    <2> QED  BY <2>4, <2>6, <2>7
  <1> QED  BY <1>2, <1>3, <1>4, <1>5 DEF PromptsInv

-----------------------------------------------------------------------------
(* What a step leaves of the documents, when it only keeps what they       *)
(* become.                                                                 *)

LEMMA AskKeptAt ==
  ASSUME NEW d, Ask(d), Kept(d), asked'[d] = asked[d], d \in moved => d \in moved'
  PROVE  Ask(d)'
  <1>1. Once(d)'  BY DEF Ask, Kept
  <1>2. TextBecomes(d, asked[d].text)'
    <2>1. PICK x : x = asked[d].text  OBVIOUS
    <2>2. TextBecomes(d, x)'  BY <2>1 DEF Ask, Kept
    <2> QED  BY <2>1, <2>2
  <1>3. LabelBecomes(d, asked[d].label)'
    <2>1. PICK x : x = asked[d].label  OBVIOUS
    <2>2. LabelBecomes(d, x)'  BY <2>1 DEF Ask, Kept
    <2> QED  BY <2>1, <2>2
  <1>4. ASSUME d \notin moved' PROVE DirBecomes(d, asked[d].dir)'
    <2>1. PICK x : x = asked[d].dir  OBVIOUS
    <2>2. DirBecomes(d, x)'  BY <1>4, <2>1 DEF Ask, Kept
    <2> QED  BY <2>1, <2>2
  <1> QED  BY <1>1, <1>2, <1>3, <1>4 DEF Ask

LEMMA AskKept ==
  ASSUME AskInv, asked' = asked, moved' = moved, spoiled \subseteq spoiled',
         \A d \in Docs \ spoiled' : Once(d) => Kept(d)
  PROVE  AskInv'
  <1> SUFFICES ASSUME NEW d \in Docs \ spoiled' PROVE Ask(d)'
    BY DEF AskInv
  <1>1. Ask(d) /\ Kept(d)  BY DEF AskInv, Ask
  <1> QED  BY <1>1, AskKeptAt

LEMMA FormKept ==
  ASSUME FormInv, ~broken' => ~broken, panel'.of = panel.of,
         ~panel'.odd => ~panel.odd, spoiled \subseteq spoiled',
         ~panel'.odd /\ "text" \notin panel'.typed =>
            "text" \notin panel.typed /\ panel'.input.text = panel.input.text,
         ~panel'.odd /\ "label" \notin panel'.typed =>
            "label" \notin panel.typed /\ panel'.input.label = panel.input.label,
         panel.of \notin spoiled' \cup {None} => Kept(panel.of)
  PROVE  FormInv'
  <1> SUFFICES ASSUME panel'.of \notin spoiled' \cup {None}, ~panel'.odd, ~broken'
               PROVE  /\ "text" \notin panel'.typed =>
                            TextBecomes(panel.of, panel.input.text)'
                      /\ "label" \notin panel'.typed /\ panel'.input.label # NoLabel =>
                            LabelBecomes(panel.of, panel.input.label)'
    BY DEF FormInv
  <1>1. PICK d : d = panel.of  OBVIOUS
  <1>2. Kept(d) /\ panel.of \notin spoiled \cup {None} /\ ~panel.odd /\ ~broken  BY <1>1
  <1>3. ASSUME "text" \notin panel'.typed PROVE TextBecomes(panel.of, panel.input.text)'
    <2>1. PICK x : x = panel.input.text  OBVIOUS
    <2>2. TextBecomes(d, x)  BY <1>1, <1>2, <1>3, <2>1 DEF FormInv
    <2>3. TextBecomes(d, x)'  BY <1>2, <2>2 DEF Kept
    <2>4. panel'.of = d /\ panel'.input.text = x  BY <1>1, <1>3, <2>1
    <2> QED  BY <2>3, <2>4
  <1>4. ASSUME "label" \notin panel'.typed, panel'.input.label # NoLabel
        PROVE  LabelBecomes(panel.of, panel.input.label)'
    <2>1. PICK x : x = panel.input.label  OBVIOUS
    <2>2. LabelBecomes(d, x)  BY <1>1, <1>2, <1>4, <2>1 DEF FormInv
    <2>3. LabelBecomes(d, x)'  BY <1>2, <2>2 DEF Kept
    <2>4. panel'.of = d /\ panel'.input.label = x  BY <1>1, <1>4, <2>1
    <2> QED  BY <2>3, <2>4
  <1> QED  BY <1>3, <1>4

\* A form that is filled, and not from an old graph, shows what is stored.
LEMMA FormFilled ==
  ASSUME NEW d \in Shown, NEW g \in [Shown -> Value], NEW saving \in BOOLEAN,
         panel' = Filled(d, g, saving), d \notin spoiled' => Kept(d)
  PROVE  FormInv'
  <1>1. /\ panel'.of = d /\ panel'.odd = Outdated(d, g)
        /\ panel'.input.text = g[d].text /\ panel'.input.label = g[d].label
    BY FilledTyped
  <1> SUFFICES ASSUME d \notin spoiled', ~Outdated(d, g)
               PROVE  TextBecomes(panel.of, panel.input.text)'
                      /\ LabelBecomes(panel.of, panel.input.label)'
    BY <1>1 DEF FormInv
  <1>2. g[d] = stored[d] /\ Pending(d) = {}  BY DEF Outdated, CallsOn, Pending
  <1>3. PICK x, y : x = g[d].text /\ y = g[d].label  OBVIOUS
  <1>4. TextBecomes(d, x) /\ LabelBecomes(d, y)
    BY <1>2, <1>3 DEF TextBecomes, LabelBecomes
  <1>5. TextBecomes(d, x)' /\ LabelBecomes(d, y)'  BY <1>4 DEF Kept
  <1>6. panel'.of = d /\ panel'.input.text = x /\ panel'.input.label = y  BY <1>1, <1>3
  <1>7. TextBecomes(panel.of, panel.input.text)'  BY <1>5, <1>6
  <1>8. LabelBecomes(panel.of, panel.input.label)'  BY <1>5, <1>6
  <1> QED  BY <1>7, <1>8

\* The error page goes, and the form behind it is filled again.
LEMMA FormReloaded ==
  ASSUME RestOK, PanelOK, FormInv, Reloading, spoiled' = spoiled, 
         \A d \in Shown \ spoiled' : Kept(d)
  PROVE  /\ PanelOK' /\ FormInv'
         /\ broken' \in BOOLEAN /\ (panel'.saving => panel.saving)
  <1>1. broken' = FALSE  BY DEF Reloading
  <1>2. CASE broken /\ panel.of # None
    <2>1. panel.of \in Shown /\ graph \in [Shown -> Value]
      BY <1>2 DEF PanelOK, Panel, RestOK
    <2>2. panel' = Filled(panel.of, graph, FALSE)  BY <1>2 DEF Reloading
    <2>3. PanelOK' /\ FormInv'  BY <2>1, <2>2, PanelFilled, FormFilled
    <2>4. panel'.saving = FALSE  BY <2>1, <2>2, FilledTyped
    <2> QED  BY <1>1, <2>3, <2>4
  <1>3. CASE ~broken /\ panel.of # None
    <2>1. panel' = panel /\ panel.of \in Shown  BY <1>3 DEF Reloading, PanelOK, Panel
    <2>2. FormInv'  BY <1>3, <2>1, FormKept
    <2> QED  BY <1>1, <2>1, <2>2 DEF PanelOK
  <1>4. CASE panel.of = None
    <2>1. panel' = panel  BY <1>4 DEF Reloading
    <2> QED  BY <1>1, <1>4, <2>1 DEF PanelOK, FormInv
  <1> QED  BY <1>2, <1>3, <1>4

LEMMA GraphKept ==
  ASSUME GraphInv, ~broken' => ~broken, graph' = graph, spoiled \subseteq spoiled',
         \A d \in Shown \ spoiled' :
             \/ Pending(d)' # {}
             \/ stored'[d] = stored[d] /\ Pending(d) = {},
         GraphAsked => GraphAsked'
  PROVE  GraphInv'
  <1> SUFFICES ASSUME ~broken', NEW d \in Shown \ spoiled'
               PROVE  graph[d] = stored'[d] \/ Pending(d)' # {} \/ GraphAsked'
    BY DEF GraphInv
  <1> QED  BY DEF GraphInv

LEMMA GraphAwaited == GraphAsked' => GraphInv'
  BY DEF GraphInv

-----------------------------------------------------------------------------
(* Steps that send nothing and get no answer.                              *)

LEMMA Parts == IInv <=> /\ PanelOK /\ RestOK /\ CallsInv /\ DisabledOnlyWhileAwaited
                        /\ AskInv /\ FormInv /\ GraphInv /\ PromptsInv
  BY Typing DEF IInv, PromptsInv

LEMMA PartsNext ==
  /\ PanelOK' /\ RestOK' /\ CallsInv' /\ DisabledOnlyWhileAwaited'
  /\ AskInv' /\ FormInv' /\ GraphInv' /\ PromptsInv'
  => IInv'
  BY Parts, PTL

\* No request that changes a document is sent or carried out.
LEMMA NoneWritten ==
  ASSUME RestOK, calls' \in Seq(Request), NEW k,
         Drops(k) \/ \E e : Adds(k, e) /\ ~Writing(e.op),
         k = 1 => ~Writing(calls[1].op), stored' = stored
  PROVE  /\ \A d : Kept(d)
         /\ \A d : \/ Pending(d)' # {}
                   \/ stored'[d] = stored[d] /\ Pending(d) = {}
  <1> SUFFICES ASSUME NEW d
               PROVE  Kept(d) /\ (Pending(d) = {} <=> Pending(d)' = {})
    OBVIOUS
  <1>1. calls \in Seq(Request)  BY DEF RestOK
  <1>2. Drops(k) \/ \E e : Adds(k, e) /\ ~Writes(e, d)  BY DEF Writes
  <1>3. k = 1 => ~Writes(calls[1], d)  BY DEF Writes
  <1> QED  BY <1>1, <1>2, <1>3, Untouched

\* A request is sent.
LEMMA Sent ==
  ASSUME RestOK, CallsInv, NEW e \in Request, Proper(e), calls' = Append(calls, e)
  PROVE  /\ calls' \in Seq(Request) /\ Adds(0, e) /\ CallsInv'
         /\ Moved(0, {}) /\ Moved(0, PanelOps)
         /\ \A ops : Awaited(ops) => Awaited(ops)'
         /\ GraphAsked => GraphAsked'
         /\ stored' = stored =>
               \A d : ~Writes(e, d) =>
                         Kept(d) /\ (Pending(d) = {} <=> Pending(d)' = {})
  <1>1. calls \in Seq(Request)  BY DEF RestOK
  <1>2. calls' \in Seq(Request) /\ Adds(0, e) /\ Moved(0, {})  BY <1>1, SendAdds
  <1>3. \E c : Adds(0, c) /\ Proper(c)  BY <1>2
  <1>4. CallsInv'
    <2>1. Drops(0) \/ \E c : Adds(0, c) /\ Proper(c)  BY <1>3
    <2> QED  BY <1>1, <1>2, <2>1, ProperKept
  <1>5. Drops(0) \/ \E c : Adds(0, c)  BY <1>2
  <1>6. \A ops : Awaited(ops) => Awaited(ops)'
    <2> SUFFICES ASSUME NEW ops, Awaited(ops) PROVE Awaited(ops)'  OBVIOUS
    <2>1. ops \cap {} = {} /\ (0 = 1 => ~(calls[1].live /\ calls[1].op \in ops))  OBVIOUS
    <2> QED  BY <1>1, <1>2, <1>5, <2>1, AwaitedKept
  <1>7. GraphAsked => GraphAsked'
    <2>1. 0 = 1 => calls[1].op # "graph"  OBVIOUS
    <2> QED  BY <1>1, <1>2, <1>5, <2>1, GraphAskedKept
  <1>8. ASSUME stored' = stored, NEW d, ~Writes(e, d)
        PROVE  Kept(d) /\ (Pending(d) = {} <=> Pending(d)' = {})
    <2>1. Drops(0) \/ \E c : Adds(0, c) /\ ~Writes(c, d)  BY <1>2, <1>8
    <2>2. 0 = 1 => ~Writes(calls[1], d)  OBVIOUS
    <2> QED  BY <1>1, <1>2, <1>8, <2>1, <2>2, Untouched
  <1>9. Moved(0, PanelOps)  BY <1>2 DEF Moved
  <1> QED  BY <1>2, <1>4, <1>6, <1>7, <1>8, <1>9

\* Nothing happens to the requests and the documents.
LEMMA Aside ==
  ASSUME IInv, UNCHANGED <<stored, graph, broken, calls, asked, moved, spoiled>>
  PROVE  /\ CallsInv' /\ AskInv' /\ GraphInv' /\ SnapshotsInv'
         /\ \A d : Kept(d)
         /\ \A ops : Awaited(ops) => Awaited(ops)'
         /\ Gets' = Gets /\ PromptWrites' = PromptWrites
  <1>1. RestOK /\ CallsInv /\ AskInv /\ GraphInv /\ PromptsInv  BY Parts
  <1>2. calls \in Seq(Request) /\ calls' \in Seq(Request) /\ Drops(0) /\ Moved(0, {})
    BY <1>1, SameDrops DEF RestOK
  <1>3. \A d : Kept(d)  BY <1>1, <1>2, NoneWritten
  <1>4. CallsInv'  BY <1>1, <1>2, ProperKept
  <1>5. AskInv'  BY <1>1, <1>3, AskKept
  <1>6. GraphInv'
    BY <1>1 DEF GraphInv, GraphAsked, Pending
  <1>7. SnapshotsInv'  BY <1>1 DEF PromptsInv, SnapshotsInv
  <1>8. \A ops : Awaited(ops) => Awaited(ops)'  BY DEF Awaited
  <1>9. Gets' = Gets /\ PromptWrites' = PromptWrites  BY DEF Gets, PromptWrites
  <1> QED  BY <1>3, <1>4, <1>5, <1>6, <1>7, <1>8, <1>9

\* Only the form changes, and stays the form of the same document.
LEMMA FormStep ==
  ASSUME IInv, UNCHANGED <<stored, graph, broken, modal, calls, asked, moved, spoiled>>,
         RestOK', PanelOK', panel'.of = panel.of, panel'.saving => panel.saving,
         FormInv'
  PROVE  IInv'
  <1>1. RestOK /\ PanelOK /\ PromptsInv /\ DisabledOnlyWhileAwaited  BY Parts
  <1>2. CallsInv' /\ AskInv' /\ GraphInv' /\ \A ops : Awaited(ops) => Awaited(ops)'
    BY Aside
  <1>3. DisabledOnlyWhileAwaited'  BY <1>1, <1>2 DEF DisabledOnlyWhileAwaited
  <1>4. calls \in Seq(Request) /\ calls' \in Seq(Request) /\ Drops(0) /\ Moved(0, {})
    BY <1>1, SameDrops DEF RestOK
  <1>5. PromptsInv'  BY <1>1, <1>4, PromptsAside
  <1> QED  BY <1>2, <1>3, <1>5, PartsNext

LEMMA EditStep == IInv /\ Edit => IInv'
  <1> SUFFICES ASSUME IInv, Edit PROVE IInv'  OBVIOUS
  <1>1. PanelOK /\ RestOK /\ FormInv  BY Parts
  <1>2. UNCHANGED <<stored, graph, broken, modal, calls, asked, moved, spoiled, fails>>
    BY DEF Edit, history
  <1>3. panel' = [panel EXCEPT !.editing = TRUE] /\ panel.of # None  BY DEF Edit
  <1>4. /\ PanelOK' /\ panel'.of = panel.of /\ panel'.saving = panel.saving
        /\ panel'.odd = panel.odd /\ panel'.typed = panel.typed /\ panel'.input = panel.input
    BY <1>1, <1>3 DEF PanelOK, Panel
  <1>5. RestOK'  BY <1>1, <1>2, EditorAssumption DEF Edit, AtPanel, Step, RestOK
  <1>6. \A d : Kept(d)  BY <1>2, Aside
  <1>7. FormInv'  BY <1>1, <1>2, <1>4, <1>6, FormKept
  <1> QED  BY <1>2, <1>4, <1>5, <1>7, FormStep

LEMMA TypeStep ==
  ASSUME IInv, NEW f \in Fields, NEW x \in Typings(f), Type(f, x)
  PROVE  IInv'
  <1>1. PanelOK /\ RestOK /\ FormInv  BY Parts
  <1>2. UNCHANGED <<stored, graph, broken, modal, calls, asked, moved, spoiled, fails>>
    BY DEF Type, history
  <1>3. /\ panel' = [panel EXCEPT !.input[f] = x, !.typed = @ \cup {f}]
        /\ panel.editing /\ f \in Typeable(panel.of)
    BY DEF Type
  <1>4. panel \in Panel /\ panel.input \in Value  BY <1>1 DEF PanelOK, Panel
  <1> DEFINE input == [panel.input EXCEPT ![f] = x]
  <1>5. /\ input \in Value
        /\ f # "text" => input.text = panel.input.text
        /\ f # "label" => input.label = panel.input.label
    <2>1. CASE f = "label"
      <3>1. x \in Labels  BY <2>1 DEF Typings
      <3> QED  BY <2>1, <3>1, <1>4 DEF Value
    <2>2. CASE f = "dir"
      <3>1. x \in Seq(Names)  BY <2>2, EditorAssumption DEF Typings
      <3> QED  BY <2>2, <3>1, <1>4 DEF Value
    <2>3. CASE f = "text"
      <3>1. PICK k \in 1..2 : x = <<panel.input.text[1], k>>  BY <2>3 DEF Typings
      <3>2. panel.input.text[1] \in Docs \cup {None}  BY <1>4 DEF Value, Texts
      <3>3. x \in Texts  BY <3>1, <3>2 DEF Texts
      <3> QED  BY <2>3, <3>3, <1>4 DEF Value
    <2> QED  BY <2>1, <2>2, <2>3 DEF Fields
  <1>6. panel' = [panel EXCEPT !.input = input, !.typed = panel.typed \cup {f}]
    BY <1>3, <1>4 DEF Panel
  <1> HIDE DEF input
  <1>7. /\ panel' \in Panel /\ panel'.of = panel.of /\ panel'.saving = panel.saving
        /\ panel'.odd = panel.odd /\ panel'.typed = panel.typed \cup {f}
        /\ panel'.input = input /\ panel'.editing = panel.editing
    BY <1>4, <1>5, <1>6 DEF Panel
  <1>8. PanelOK'
    <2>1. panel.of \notin Virtual => f = "text"  BY <1>3 DEF Typeable
    <2> QED  BY <1>1, <1>3, <1>7, <2>1 DEF PanelOK
  <1>9. RestOK'  BY <1>1, <1>2, EditorAssumption DEF Type, AtPanel, Step, RestOK
  <1>10. \A d : Kept(d)  BY <1>2, Aside
  <1>11. FormInv'  BY <1>1, <1>2, <1>5, <1>7, <1>10, FormKept
  <1> QED  BY <1>2, <1>7, <1>8, <1>9, <1>11, FormStep

LEMMA CancelStep == IInv /\ Cancel => IInv'
  <1> SUFFICES ASSUME IInv, Cancel PROVE IInv'  OBVIOUS
  <1>1. PanelOK /\ RestOK /\ FormInv /\ AskInv  BY Parts
  <1>2. UNCHANGED <<stored, graph, broken, modal, calls, asked, moved, spoiled, fails>>
    BY DEF Cancel, history
  <1>3. panel' = Cancelled(panel) /\ panel.editing  BY DEF Cancel
  <1>4. panel \in Panel /\ panel.of \in Shown /\ graph[panel.of] \in Value
    BY <1>1, <1>3 DEF PanelOK, Panel, RestOK
  <1>5. PICK d, v, r, o :
           /\ d = panel.of /\ v = graph[d] /\ r = panel.input.dir
           /\ o = (Outdated(d, graph) \/ r # FilePath(v))
    OBVIOUS
  <1>6. d \in Shown /\ v \in Value /\ r \in Seq(Names) /\ o \in BOOLEAN
    BY <1>4, <1>5 DEF Panel, Value
  <1>7. /\ [v EXCEPT !.dir = r] \in Value
        /\ [v EXCEPT !.dir = r].text = v.text /\ [v EXCEPT !.dir = r].label = v.label
    BY <1>6 DEF Value
  <1>8. panel' = [panel EXCEPT !.editing = FALSE, !.typed = {},
                               !.input = [v EXCEPT !.dir = r], !.odd = o]
    BY <1>3, <1>5 DEF Cancelled
  <1>9. /\ panel' \in Panel /\ panel'.of = d /\ panel'.saving = panel.saving
        /\ panel'.odd = o /\ panel'.typed = {} /\ panel'.editing = FALSE
        /\ panel'.input.text = v.text /\ panel'.input.label = v.label
    BY <1>4, <1>5, <1>7, <1>8 DEF Panel
  <1>10. PanelOK'  BY <1>9 DEF PanelOK
  <1>11. RestOK'  BY <1>1, <1>2, EditorAssumption DEF Cancel, AtPanel, Step, RestOK
  <1>12. FormInv'
    <2> SUFFICES ASSUME ~o
                 PROVE  TextBecomes(panel.of, panel.input.text)'
                        /\ LabelBecomes(panel.of, panel.input.label)'
      BY <1>9 DEF FormInv
    <2>1. stored[d] = v /\ Pending(d) = {}
      BY <1>5 DEF Outdated, CallsOn, Pending
    <2>2. stored'[d] = v /\ Pending(d)' = {}  BY <1>2, <2>1 DEF Pending
    <2> QED  BY <1>9, <2>2 DEF TextBecomes, LabelBecomes
  <1> QED  BY <1>2, <1>5, <1>9, <1>10, <1>11, <1>12, FormStep

LEMMA CloseStep == IInv /\ Close => IInv'
  <1> SUFFICES ASSUME IInv, Close PROVE IInv'  OBVIOUS
  <1>1. PanelOK /\ RestOK /\ FormInv /\ PromptsInv /\ DisabledOnlyWhileAwaited  BY Parts
  <1>2. UNCHANGED <<stored, graph, broken, panel, calls, asked, moved, spoiled, fails>>
    BY DEF Close, history
  <1>3. /\ CallsInv' /\ AskInv' /\ GraphInv' /\ SnapshotsInv'
        /\ \A d : Kept(d)
        /\ \A ops : Awaited(ops) => Awaited(ops)'
        /\ Gets' = Gets /\ PromptWrites' = PromptWrites
    BY <1>2, Aside
  <1>4. modal' = [modal EXCEPT !.open = None] /\ modal \in Modal
    BY <1>1 DEF Close, RestOK
  <1>5. /\ modal' \in Modal /\ modal'.open = None /\ modal'.loading = modal.loading
        /\ modal'.saving = modal.saving
    BY <1>4 DEF Modal
  <1>6. RestOK'
    BY <1>1, <1>2, <1>5, EditorAssumption DEF Close, AtModal, Step, RestOK
  <1>7. FormInv' /\ PanelOK'  BY <1>1, <1>2, <1>3, FormKept DEF PanelOK
  <1>8. DisabledOnlyWhileAwaited'
    BY <1>1, <1>2, <1>3, <1>5 DEF DisabledOnlyWhileAwaited
  <1>9. LivesInv'  BY <1>1, <1>2, <1>3, <1>5 DEF PromptsInv, LivesInv
  <1>10. OrderInv'  BY <1>1, <1>2, <1>3, <1>5 DEF PromptsInv, OrderInv
  <1>11. ModalInv'  BY <1>5 DEF ModalInv
  <1> QED  BY <1>3, <1>6, <1>7, <1>8, <1>9, <1>10, <1>11, PartsNext DEF PromptsInv

LEMMA CloseDropdownStep == IInv /\ CloseDropdown => IInv'
  <1> SUFFICES ASSUME IInv, CloseDropdown PROVE IInv'  OBVIOUS
  <1>1. /\ PanelOK /\ RestOK /\ CallsInv /\ FormInv /\ GraphInv /\ AskInv /\ PromptsInv
        /\ DisabledOnlyWhileAwaited
    BY Parts
  <1>2. /\ calls' = Forgotten(calls, ModalOps) /\ modal' = NoModal
        /\ UNCHANGED <<stored, graph, broken, panel, asked, moved, spoiled, fails>>
    BY DEF CloseDropdown, history
  <1>3. calls \in Seq(Request)  BY <1>1 DEF RestOK
  <1>4. /\ calls' \in Seq(Request) /\ Drops(0) /\ Moved(0, ModalOps)
        /\ DOMAIN calls' = DOMAIN calls
        /\ \A i \in DOMAIN calls :
              /\ Alike(calls'[i], calls[i])
              /\ calls'[i].op \in ModalOps => ~calls'[i].live
    <2>1. /\ calls' \in Seq(Request) /\ Len(calls') = Len(calls)
          /\ \A i \in 1 .. Len(calls) :
                /\ Alike(calls'[i], calls[i])
                /\ calls'[i].live = (calls[i].live /\ calls[i].op \notin ModalOps)
      BY <1>2, <1>3, ForgottenAlike
    <2>2. Drops(0) /\ Moved(0, ModalOps)  BY <1>2, <1>3, ForgetDrops
    <2>3. DOMAIN calls' = 1 .. Len(calls') /\ DOMAIN calls = 1 .. Len(calls)
      BY <1>3, <2>1, LenProperties
    <2> QED  BY <2>1, <2>2, <2>3 DEF Alike
  <1>5. modal' \in Modal /\ modal'.open = None /\ modal'.saving = FALSE /\ modal'.loading
    BY <1>2, NoPanelTyped
  <1>6. RestOK'
    BY <1>1, <1>2, <1>4, <1>5, EditorAssumption DEF CloseDropdown, AtPanel, Step, RestOK
  <1>7. CallsInv'  BY <1>1, <1>3, <1>4, ProperKept
  <1>8. \A d : /\ Kept(d)
               /\ Pending(d)' # {} \/ (stored'[d] = stored[d] /\ Pending(d) = {})
    BY <1>1, <1>2, <1>4, NoneWritten
  <1>9. AskInv'  BY <1>1, <1>2, <1>8, AskKept
  <1>10. FormInv' /\ PanelOK'  BY <1>1, <1>2, <1>8, FormKept DEF PanelOK
  <1>11. GraphInv'
    <2>1. GraphAsked => GraphAsked'  BY <1>3, <1>4, GraphAskedKept
    <2> QED  BY <1>1, <1>2, <1>8, <2>1, GraphKept
  <1>12. DisabledOnlyWhileAwaited'
    <2>1. PanelOps \cap ModalOps = {}  BY DEF PanelOps, ModalOps
    <2>2. Awaited(PanelOps) => Awaited(PanelOps)'  BY <1>3, <1>4, <2>1, AwaitedKept
    <2> QED  BY <1>1, <1>2, <1>5, <2>2 DEF DisabledOnlyWhileAwaited
  <1>13. Gets' = Gets /\ PromptWrites' = PromptWrites
    BY <1>4 DEF Gets, PromptWrites, Alike
  <1>14. SnapshotsInv'  BY <1>1, <1>2 DEF PromptsInv, SnapshotsInv
  <1>15. LivesInv'
    <2>1. \A i \in PromptWrites' : ~calls'[i].live  BY <1>4 DEF PromptWrites, ModalOps
    <2>2. \A i, j \in PromptWrites' : i = j
      BY <1>1, <1>13 DEF PromptsInv, LivesInv
    <2> QED  BY <1>4, <1>5, <2>1, <2>2 DEF LivesInv
  <1>16. OrderInv'
    <2> SUFFICES ASSUME NEW i \in PromptWrites', calls'[i].op = "prompt",
                        \E j \in Gets' : j < i
                 PROVE  calls'[i].doc \in spoiled
      BY <1>2, <1>5 DEF OrderInv
    <2>1. i \in PromptWrites /\ Alike(calls'[i], calls[i])
      BY <1>4, <1>13 DEF PromptWrites
    <2> QED  BY <1>1, <1>13, <2>1 DEF PromptsInv, OrderInv, Alike
  <1>17. ModalInv'  BY <1>5 DEF ModalInv
  <1> QED
    BY <1>6, <1>7, <1>9, <1>10, <1>11, <1>12, <1>14, <1>15, <1>16, <1>17, PartsNext
       DEF PromptsInv

LEMMA TypePromptStep ==
  ASSUME IInv, NEW n \in 1..2, TypePrompt(n)
  PROVE  IInv'
  <1>1. PanelOK /\ RestOK /\ FormInv /\ PromptsInv /\ DisabledOnlyWhileAwaited  BY Parts
  <1>2. UNCHANGED <<stored, graph, broken, panel, calls, asked, moved, spoiled, fails>>
    BY DEF TypePrompt, history
  <1>3. /\ CallsInv' /\ AskInv' /\ GraphInv' /\ SnapshotsInv'
        /\ \A d : Kept(d)
        /\ \A ops : Awaited(ops) => Awaited(ops)'
        /\ Gets' = Gets /\ PromptWrites' = PromptWrites
    BY <1>2, Aside
  <1>4. modal' = [modal EXCEPT !.prompt[2] = n] /\ modal \in Modal
    BY <1>1 DEF TypePrompt, RestOK
  <1>5. modal.prompt \in Texts  BY <1>4 DEF Modal
  <1>6. PICK p : p = [modal.prompt EXCEPT ![2] = n]  OBVIOUS
  <1>7. p \in Texts /\ p[1] = modal.prompt[1] /\ p[2] = n /\ p[2] # 0
    BY <1>5, <1>6 DEF Texts
  <1>8. modal' = [modal EXCEPT !.prompt = p]  BY <1>4, <1>6
  <1>9. /\ modal' \in Modal /\ modal'.open = modal.open /\ modal'.loading = modal.loading
        /\ modal'.saving = modal.saving /\ modal'.original = modal.original
        /\ modal'.custom = modal.custom /\ modal'.odd = modal.odd /\ modal'.prompt = p
    BY <1>4, <1>7, <1>8 DEF Modal
  <1>10. RestOK'
    BY <1>1, <1>2, <1>9, EditorAssumption DEF TypePrompt, AtModal, Step, RestOK
  <1>11. FormInv' /\ PanelOK'  BY <1>1, <1>2, <1>3, FormKept DEF PanelOK
  <1>12. DisabledOnlyWhileAwaited'
    BY <1>1, <1>2, <1>3, <1>9 DEF DisabledOnlyWhileAwaited
  <1>13. LivesInv'  BY <1>1, <1>2, <1>3, <1>9 DEF PromptsInv, LivesInv
  <1>14. OrderInv'  BY <1>1, <1>2, <1>3, <1>9 DEF PromptsInv, OrderInv
  <1>15. ModalInv'  BY <1>1, <1>2, <1>3, <1>7, <1>9 DEF PromptsInv, ModalInv
  <1> QED  BY <1>3, <1>10, <1>11, <1>12, <1>13, <1>14, <1>15, PartsNext DEF PromptsInv

-----------------------------------------------------------------------------
(* Steps of the form, of what it sends and of what is answered to it.      *)

\* They leave the prompts alone.
LEMMA PanelStep ==
  ASSUME IInv, RestOK', PanelOK', NEW k,
         Drops(k) \/ \E e : Adds(k, e) /\ e.op \notin ModalOps /\ Proper(e),
         Moved(k, PanelOps), k = 1 => calls[1].op \notin ModalOps,
         modal' = modal, spoiled \subseteq spoiled',
         \A s \in Snapshots :
             stored'[s] = stored[s] /\ asked'[s] = asked[s] /\ (s \in spoiled' <=> s \in spoiled),
         AskInv', FormInv', GraphInv', panel'.saving => Awaited(PanelOps)'
  PROVE  IInv'
  <1>1. RestOK /\ CallsInv /\ PromptsInv /\ DisabledOnlyWhileAwaited  BY Parts
  <1>2. calls \in Seq(Request) /\ calls' \in Seq(Request)  BY <1>1 DEF RestOK
  <1>3. PanelOps \cap ModalOps = {}  BY DEF PanelOps, ModalOps
  <1>4. Drops(k) \/ \E e : Adds(k, e) /\ e.op \notin ModalOps  OBVIOUS
  <1>5. CallsInv'
    <2>1. Drops(k) \/ \E e : Adds(k, e) /\ Proper(e)  OBVIOUS
    <2> QED  BY <1>1, <1>2, <2>1, ProperKept
  <1>6. PromptsInv'  BY <1>1, <1>2, <1>3, <1>4, PromptsAside
  <1>7. \A ops : ops \subseteq ModalOps /\ Awaited(ops) => Awaited(ops)'
    <2> SUFFICES ASSUME NEW ops, ops \subseteq ModalOps, Awaited(ops)
                 PROVE  Awaited(ops)'
      OBVIOUS
    <2>1. ops \cap PanelOps = {}  BY <1>3
    <2>2. k = 1 => ~(calls[1].live /\ calls[1].op \in ops)  OBVIOUS
    <2>3. Drops(k) \/ \E e : Adds(k, e)  OBVIOUS
    <2> QED  BY <1>2, <2>1, <2>2, <2>3, AwaitedKept
  <1>8. DisabledOnlyWhileAwaited'
    <2>1. modal.saving => Awaited({"prompt", "reset"})'
      BY <1>1, <1>7 DEF DisabledOnlyWhileAwaited, ModalOps
    <2>2. modal.open # None /\ modal.loading => Awaited({"get"})'
      BY <1>1, <1>7 DEF DisabledOnlyWhileAwaited, ModalOps
    <2> QED  BY <2>1, <2>2 DEF DisabledOnlyWhileAwaited
  <1> QED  BY <1>5, <1>6, <1>8, PartsNext

LEMMA SelectStep ==
  ASSUME IInv, NEW d \in Shown \cup {None}, Select(d)
  PROVE  IInv'
  <1>1. /\ PanelOK /\ RestOK /\ FormInv /\ AskInv /\ GraphInv
        /\ DisabledOnlyWhileAwaited
    BY Parts
  <1>2. /\ UNCHANGED <<stored, graph, broken, modal, asked, moved, spoiled, fails>>
        /\ calls' = IF SameComponent(d) THEN calls ELSE Forgotten(calls, PanelOps)
        /\ panel' = IF d = None THEN NoPanel
                    ELSE Filled(d, graph, SameComponent(d) /\ panel.saving)
    BY DEF Select, history
  <1>3. calls \in Seq(Request)  BY <1>1 DEF RestOK
  <1>4. calls' \in Seq(Request) /\ Drops(0) /\ Moved(0, PanelOps)
    <2>1. CASE calls' = calls  BY <2>1, <1>3, SameDrops DEF Moved
    <2>2. CASE calls' = Forgotten(calls, PanelOps)  BY <2>2, <1>3, ForgetDrops
    <2> QED  BY <2>1, <2>2, <1>2
  <1>5. RestOK'
    BY <1>1, <1>2, <1>4, EditorAssumption DEF Select, AtPanel, Step, RestOK
  <1>6. \A x : /\ Kept(x)
               /\ Pending(x)' # {} \/ (stored'[x] = stored[x] /\ Pending(x) = {})
    BY <1>1, <1>2, <1>4, NoneWritten
  <1>7. AskInv'  BY <1>1, <1>2, <1>6, AskKept
  <1>8. GraphInv'
    <2>1. GraphAsked => GraphAsked'  BY <1>3, <1>4, GraphAskedKept
    <2> QED  BY <1>1, <1>2, <1>6, <2>1, GraphKept
  <1>9. PanelOK' /\ FormInv' /\ (panel'.saving => Awaited(PanelOps)')
    <2>1. CASE d = None
      <3>1. panel' = NoPanel  BY <1>2, <2>1
      <3>2. PanelOK'  BY <3>1, NoPanelTyped DEF PanelOK, NoPanel
      <3>3. FormInv'  BY <3>1, NoPanelTyped DEF FormInv
      <3> QED  BY <3>1, <3>2, <3>3, NoPanelTyped
    <2>2. CASE d # None
      <3>1. PICK saving : saving = (SameComponent(d) /\ panel.saving)  OBVIOUS
      <3>2. saving \in BOOLEAN /\ d \in Shown /\ graph \in [Shown -> Value]
        BY <1>1, <2>2, <3>1 DEF RestOK
      <3>3. panel' = Filled(d, graph, saving)  BY <1>2, <2>2, <3>1
      <3>4. PanelOK' /\ FormInv' /\ panel'.saving = saving
        BY <1>1, <1>6, <3>2, <3>3, PanelFilled, FormFilled, FilledTyped
      <3>5. ASSUME saving PROVE Awaited(PanelOps)'
        <4>1. calls' = calls /\ Awaited(PanelOps)
          BY <1>1, <1>2, <3>1, <3>5 DEF DisabledOnlyWhileAwaited
        <4> QED  BY <4>1 DEF Awaited
      <3> QED  BY <3>4, <3>5
    <2> QED  BY <2>1, <2>2
  <1> QED  BY <1>2, <1>4, <1>5, <1>7, <1>8, <1>9, PanelStep

LEMMA RefreshProper ==
  /\ Refresh \in Request /\ Proper(Refresh) /\ Refresh.op = "graph"
  /\ ~Writing(Refresh.op) /\ Refresh.op \notin ModalOps
  <1>1. Blank(None) \in Value  BY BlankTyped
  <1> QED  BY <1>1 DEF Refresh, Call, Request, Proper, Writing, PanelOps, ModalOps

LEMMA RequestRefreshStep == IInv /\ RequestRefresh => IInv'
  <1> SUFFICES ASSUME IInv, RequestRefresh PROVE IInv'  OBVIOUS
  <1>1. /\ PanelOK /\ RestOK /\ FormInv /\ AskInv /\ CallsInv
        /\ DisabledOnlyWhileAwaited
    BY Parts
  <1>2. /\ UNCHANGED <<stored, graph, modal, asked, moved, spoiled, fails>>
        /\ calls' = Append(calls, Refresh) /\ Reloading
    BY DEF RequestRefresh, history, Send
  <1>3. /\ calls' \in Seq(Request) /\ Adds(0, Refresh) /\ Moved(0, PanelOps)
        /\ \A ops : Awaited(ops) => Awaited(ops)'
        /\ stored' = stored => \A d : ~Writes(Refresh, d) => Kept(d)
    BY <1>1, <1>2, Sent, RefreshProper
  <1>4. \A d : Kept(d)  BY <1>2, <1>3, RefreshProper DEF Writes
  <1>5. /\ PanelOK' /\ FormInv' /\ broken' \in BOOLEAN
        /\ panel'.saving => panel.saving
    BY <1>1, <1>2, <1>4, FormReloaded
  <1>6. RestOK'
    BY <1>1, <1>2, <1>3, <1>5, EditorAssumption DEF RequestRefresh, Step, RestOK
  <1>7. AskInv'  BY <1>1, <1>2, <1>4, AskKept
  <1>8. GraphInv'
    <2>1. calls \in Seq(Request)  BY <1>1 DEF RestOK
    <2> QED  BY <2>1, <1>3, AwaitedNow, GraphAwaited, RefreshProper
  <1>9. panel'.saving => Awaited(PanelOps)'
    BY <1>1, <1>3, <1>5 DEF DisabledOnlyWhileAwaited
  <1>10. \E e : Adds(0, e) /\ e.op \notin ModalOps /\ Proper(e)
    BY <1>3, RefreshProper
  <1> QED  BY <1>2, <1>3, <1>5, <1>6, <1>7, <1>8, <1>9, <1>10, PanelStep

\* What the form holds of a document that is saved out of it and not spoiled.
LEMMA SavedIs ==
  ASSUME IInv, ~broken, panel.editing, ~panel.odd, ~Outdated(panel.of, graph),
         panel.of \notin spoiled
  PROVE  /\ Pending(panel.of) = {} /\ graph[panel.of] = stored[panel.of]
         /\ "text" \notin panel.typed => panel.input.text = asked[panel.of].text
         /\ "label" \notin panel.typed /\ panel.input.label # NoLabel =>
               /\ panel.input.label = asked[panel.of].label
               /\ panel.input.label = stored[panel.of].label
         /\ stored[panel.of].label = asked[panel.of].label
         /\ panel.of \notin moved => stored[panel.of].dir = asked[panel.of].dir
  <1>1. PanelOK /\ RestOK /\ FormInv /\ AskInv  BY Parts
  <1>2. panel.of \in Shown /\ panel.of # None /\ panel.of \in Docs
    BY <1>1, Kinds DEF PanelOK, Panel
  <1>3. Pending(panel.of) = {} /\ graph[panel.of] = stored[panel.of]
    BY DEF Outdated, CallsOn, Pending
  <1>4. Ask(panel.of)  BY <1>1, <1>2 DEF AskInv
  <1>5. /\ stored[panel.of].text = asked[panel.of].text
        /\ stored[panel.of].label = asked[panel.of].label
        /\ panel.of \notin moved => stored[panel.of].dir = asked[panel.of].dir
    BY <1>3, <1>4 DEF Ask, TextBecomes, LabelBecomes, DirBecomes
  <1>6. /\ "text" \notin panel.typed => stored[panel.of].text = panel.input.text
        /\ "label" \notin panel.typed /\ panel.input.label # NoLabel =>
              stored[panel.of].label = panel.input.label
    BY <1>1, <1>2, <1>3 DEF FormInv, TextBecomes, LabelBecomes
  <1> QED  BY <1>3, <1>5, <1>6

LEMMA SaveStep == IInv /\ Save => IInv'
  <1> SUFFICES ASSUME IInv, Save PROVE IInv'  OBVIOUS
  <1>0. PICK d, gives, op, e :
           /\ d = panel.of /\ gives = Updates(d)
           /\ op = IF d \in Edges THEN "remark"
                   ELSE IF gives = {} THEN "annotate" ELSE "update"
           /\ e = Call(op, d, panel.input, gives)
    OBVIOUS
  <1>1. /\ PanelOK /\ RestOK /\ FormInv /\ AskInv /\ GraphInv /\ CallsInv
        /\ DisabledOnlyWhileAwaited
    BY Parts
  <1>2. /\ ~broken /\ panel.editing /\ ~panel.saving
        /\ panel' = [panel EXCEPT !.saving = TRUE, !.typed = {}]
        /\ calls' = Append(calls, e)
        /\ asked' = [asked EXCEPT ![d] =
                        [f \in Fields |-> IF f \in Asks(d) THEN panel.input[f] ELSE @[f]]]
        /\ moved' = IF gives # {} /\ "dir" \notin Asks(d) THEN moved \cup {d} ELSE moved
        /\ spoiled' = IF panel.odd \/ Outdated(d, graph) THEN spoiled \cup {d} ELSE spoiled
        /\ UNCHANGED <<stored, graph, broken, modal, fails>>
    BY <1>0 DEF Save, AtPanel, Send
  <1>3. /\ panel \in Panel /\ d \in Shown /\ d \in Docs /\ d # None /\ d \notin Snapshots
        /\ panel.input \in Value
    BY <1>0, <1>1, <1>2, Kinds DEF PanelOK, Panel
  <1>4. /\ gives \subseteq {"label", "dir"}
        /\ "label" \in gives <=>
              d \in Virtual /\ panel.input.label \notin {graph[d].label, NoLabel}
        /\ "dir" \in gives => d \in Virtual
        /\ gives # {} => d \in Virtual /\ d \notin Edges
        /\ \A f \in Asks(d) : f = "dir" => f \in gives
        /\ Asks(d) \subseteq panel.typed
        /\ "text" \in panel.typed => "text" \in Asks(d)
        /\ "label" \in Asks(d) <=> "label" \in panel.typed /\ panel.input.label # NoLabel
    BY <1>0, Kinds DEF Updates, Asks
  <1>5. /\ op \in PanelOps /\ e.op = op /\ e.doc = d /\ e.val = panel.input
        /\ e.gives = gives /\ e.live = TRUE
        /\ e \in Request /\ Proper(e) /\ e.op \notin ModalOps /\ op # "reset"
        /\ op = "update" <=> gives # {}
    BY <1>0, <1>3, <1>4 DEF Call, Request, PanelOps, ModalOps, Proper, Fields
  <1>6. /\ calls' \in Seq(Request) /\ Adds(0, e) /\ Moved(0, PanelOps)
        /\ \A x : ~Writes(e, x) => Kept(x) /\ (Pending(x) = {} <=> Pending(x)' = {})
        /\ GraphAsked => GraphAsked'
    BY <1>1, <1>2, <1>5, Sent
  <1>7. calls \in Seq(Request)  BY <1>1 DEF RestOK
  <1>8. PICK v : v = [f \in Fields |-> IF f \in Asks(d) THEN panel.input[f] ELSE asked[d][f]]
    OBVIOUS
  <1>9. /\ v \in Value
        /\ v.text = IF "text" \in Asks(d) THEN panel.input.text ELSE asked[d].text
        /\ v.label = IF "label" \in Asks(d) THEN panel.input.label ELSE asked[d].label
        /\ v.dir = IF "dir" \in Asks(d) THEN panel.input.dir ELSE asked[d].dir
    <2>1. asked[d] \in Value  BY <1>1, <1>3 DEF RestOK
    <2> QED  BY <1>3, <1>8, <2>1 DEF Value, Fields
  <1>10. asked' = [asked EXCEPT ![d] = v]  BY <1>2, <1>8
  <1>11. /\ asked' \in [Docs -> Value] /\ asked'[d] = v
         /\ \A x \in Docs : x # d => asked'[x] = asked[x]
    BY <1>1, <1>3, <1>9, <1>10 DEF RestOK
  <1>12. /\ panel' \in Panel /\ panel'.of = d /\ panel'.saving = TRUE /\ panel'.typed = {}
         /\ panel'.odd = panel.odd /\ panel'.input = panel.input
         /\ panel'.editing = TRUE
    BY <1>0, <1>2, <1>3 DEF Panel
  <1>13. PanelOK' /\ panel.of = d  BY <1>0, <1>3, <1>12 DEF PanelOK
  <1>14. /\ moved' \subseteq Virtual /\ spoiled' \subseteq Docs
         /\ moved \subseteq moved' /\ spoiled \subseteq spoiled'
         /\ \A x : x # d => (x \in spoiled' <=> x \in spoiled) /\ (x \in moved' <=> x \in moved)
    BY <1>1, <1>2, <1>3, <1>4 DEF RestOK
  <1>15. RestOK'
    BY <1>1, <1>2, <1>6, <1>11, <1>14, EditorAssumption DEF Save, AtPanel, Step, RestOK
  \* What is true of the document when nothing spoils the save.
  <1>16. ASSUME d \notin spoiled'
         PROVE  /\ ~panel.odd /\ Pending(d) = {}
                /\ panel.input.text = v.text
                /\ panel.input.label # NoLabel => panel.input.label = v.label
                /\ LabelOf(e, stored[d]) = v.label
                /\ d \notin moved' => DirOf(e, stored[d]) = v.dir
    <2>1. ~panel.odd /\ ~Outdated(d, graph) /\ d \notin spoiled
      BY <1>2, <1>3, <1>16
    <2>2. /\ Pending(d) = {} /\ graph[d] = stored[d]
          /\ "text" \notin panel.typed => panel.input.text = asked[d].text
          /\ "label" \notin panel.typed /\ panel.input.label # NoLabel =>
                /\ panel.input.label = asked[d].label
                /\ panel.input.label = stored[d].label
          /\ stored[d].label = asked[d].label
          /\ d \notin moved => stored[d].dir = asked[d].dir
      BY <1>2, <1>13, <2>1, SavedIs
    <2>3. panel.input.text = v.text  BY <1>4, <1>9, <2>2
    <2>4. panel.input.label # NoLabel => panel.input.label = v.label
      BY <1>4, <1>9, <2>2
    <2>5. LabelOf(e, stored[d]) = v.label
      <3>1. CASE "label" \in gives
        BY <3>1, <1>4, <1>5, <2>4 DEF LabelOf
      <3>2. CASE "label" \notin gives
        <4>1. LabelOf(e, stored[d]) = stored[d].label  BY <3>2, <1>5 DEF LabelOf
        <4>2. CASE "label" \notin Asks(d)  BY <4>1, <4>2, <1>9, <2>2
        <4>3. CASE "label" \in Asks(d)
          <5>1. "label" \in panel.typed /\ panel.input.label # NoLabel  BY <4>3, <1>4
          <5>2. d \in Virtual  BY <5>1, <1>1, <1>13 DEF PanelOK
          <5>3. stored[d].label = panel.input.label  BY <3>2, <5>1, <5>2, <1>4, <2>2
          <5> QED  BY <4>1, <5>1, <5>3, <2>4
        <4> QED  BY <4>2, <4>3
      <3> QED  BY <3>1, <3>2
    <2>6. ASSUME d \notin moved' PROVE DirOf(e, stored[d]) = v.dir
      <3>1. CASE "dir" \in Asks(d)
        <4>1. "dir" \in gives /\ v.dir = panel.input.dir  BY <3>1, <1>4, <1>9
        <4>2. op = "update"  BY <4>1, <1>5
        <4> QED  BY <4>1, <4>2, <1>5 DEF DirOf
      <3>2. CASE "dir" \notin Asks(d)
        <4>1. gives = {} /\ d \notin moved  BY <3>2, <2>6, <1>2
        <4>2. op # "update"  BY <4>1, <1>5
        <4>3. DirOf(e, stored[d]) = stored[d].dir  BY <4>2, <1>5 DEF DirOf
        <4> QED  BY <3>2, <4>1, <4>3, <1>9, <2>2
      <3> QED  BY <3>1, <3>2
    <2> QED  BY <2>1, <2>2, <2>3, <2>4, <2>5, <2>6
  <1>17. Writes(e, d) /\ \A x : x # d => ~Writes(e, x)
    BY <1>5 DEF Writes, Writing
  <1>18. ASSUME d \notin spoiled'
         PROVE  /\ Once(d)' /\ TextBecomes(d, v.text)' /\ LabelBecomes(d, v.label)'
                /\ d \notin moved' => DirBecomes(d, v.dir)'
    <2>1. /\ Once(d)' /\ TextBecomes(d, e.val.text)'
          /\ \A y : y = LabelOf(e, stored'[d]) => LabelBecomes(d, y)'
          /\ \A y : y = DirOf(e, stored'[d]) => DirBecomes(d, y)'
      BY <1>6, <1>7, <1>16, <1>17, <1>18, SentNow
    <2>2. LabelOf(e, stored'[d]) = v.label /\ e.val.text = v.text
      BY <1>2, <1>5, <1>16, <1>18
    <2>3. d \notin moved' => DirOf(e, stored'[d]) = v.dir  BY <1>2, <1>16, <1>18
    <2> QED  BY <2>1, <2>2, <2>3
  <1>19. AskInv'
    <2> SUFFICES ASSUME NEW x \in Docs \ spoiled' PROVE Ask(x)'
      BY DEF AskInv
    <2>1. CASE x = d
      BY <2>1, <1>11, <1>18 DEF Ask
    <2>2. CASE x # d
      <3>1. Kept(x) /\ Ask(x) /\ asked'[x] = asked[x] /\ (x \in moved' <=> x \in moved)
        BY <2>2, <1>1, <1>6, <1>11, <1>14, <1>17 DEF AskInv
      <3> QED  BY <3>1, AskKeptAt
    <2> QED  BY <2>1, <2>2
  <1>20. FormInv'
    <2> SUFFICES ASSUME d \notin spoiled'
                 PROVE  /\ TextBecomes(panel.of, panel.input.text)'
                        /\ panel'.input.label # NoLabel =>
                              LabelBecomes(panel.of, panel.input.label)'
      BY <1>12 DEF FormInv
    <2>1. PICK t, l : t = v.text /\ l = v.label  OBVIOUS
    <2>2. TextBecomes(d, t)' /\ LabelBecomes(d, l)'  BY <1>18, <2>1
    <2>3. /\ panel'.of = d /\ panel'.input.text = t
          /\ panel'.input.label # NoLabel => panel'.input.label = l
      BY <1>12, <1>16, <2>1
    <2> QED  BY <2>2, <2>3
  <1>21. GraphInv'
    <2>1. ASSUME NEW x \in Shown \ spoiled'
          PROVE  Pending(x)' # {} \/ (stored'[x] = stored[x] /\ Pending(x) = {})
      <3>1. CASE x = d
        BY <3>1, <1>6, <1>7, <1>16, <1>17, <2>1, SentNow
      <3>2. CASE x # d  BY <3>2, <1>2, <1>6, <1>17
      <3> QED  BY <3>1, <3>2
    <2> QED  BY <1>1, <1>2, <1>6, <1>14, <2>1, GraphKept
  <1>22. Awaited(PanelOps)'  BY <1>5, <1>6, <1>7, AwaitedNow
  <1>23. \E c : Adds(0, c) /\ c.op \notin ModalOps /\ Proper(c)  BY <1>5, <1>6
  <1>24. \A s \in Snapshots :
            /\ stored'[s] = stored[s] /\ asked'[s] = asked[s]
            /\ s \in spoiled' <=> s \in spoiled
    BY <1>2, <1>3, <1>11, <1>14, Kinds
  <1> QED
    BY <1>2, <1>6, <1>13, <1>14, <1>15, <1>19, <1>20, <1>21, <1>22, <1>23, <1>24, PanelStep

-----------------------------------------------------------------------------
(* What the modal sends.                                                   *)

LEMMA PromptSent ==
  ASSUME RestOK, NEW e \in Request, calls' = Append(calls, e), e.op \in ModalOps
  PROVE  \E n \in Nat :
            /\ DOMAIN calls \subseteq Nat /\ DOMAIN calls' = DOMAIN calls \cup {n}
            /\ calls'[n] = e
            /\ \A i \in DOMAIN calls : i < n /\ calls'[i] = calls[i]
            /\ Gets \subseteq DOMAIN calls /\ PromptWrites \subseteq DOMAIN calls
            /\ e.op = "get" => Gets' = Gets \cup {n} /\ PromptWrites' = PromptWrites
            /\ e.op # "get" => Gets' = Gets /\ PromptWrites' = PromptWrites \cup {n}
  <1>1. calls \in Seq(Request)  BY DEF RestOK
  <1>2. PICK n : n = Len(calls) + 1  OBVIOUS
  <1>3. Len(calls) \in Nat /\ DOMAIN calls = 1 .. Len(calls)  BY <1>1, Lengths
  <1>4. /\ calls' \in Seq(Request) /\ Len(calls') = n /\ calls'[n] = e
        /\ \A i \in 1 .. Len(calls) : calls'[i] = calls[i]
    BY <1>1, <1>2, AppendProperties
  <1>5. n \in Nat /\ DOMAIN calls' = 1 .. n  BY <1>2, <1>3, <1>4, LenProperties
  <1>6. DOMAIN calls \subseteq Nat /\ DOMAIN calls' = DOMAIN calls \cup {n}
    BY <1>2, <1>3, <1>5
  <1>7. \A i \in DOMAIN calls : i < n /\ calls'[i] = calls[i]
    BY <1>2, <1>3, <1>4
  <1>8. e.op = "get" => Gets' = Gets \cup {n} /\ PromptWrites' = PromptWrites
    BY <1>4, <1>6, <1>7 DEF Gets, PromptWrites
  <1>9. e.op # "get" => Gets' = Gets /\ PromptWrites' = PromptWrites \cup {n}
    BY <1>4, <1>6, <1>7 DEF Gets, PromptWrites, ModalOps
  <1>10. Gets \subseteq DOMAIN calls /\ PromptWrites \subseteq DOMAIN calls
    BY DEF Gets, PromptWrites
  <1> QED  BY <1>4, <1>5, <1>6, <1>7, <1>8, <1>9, <1>10

\* They leave the form alone.
LEMMA ModalSends ==
  ASSUME IInv, RestOK', NEW e \in Request, Proper(e), e.op \in ModalOps, e.live,
         calls' = Append(calls, e),
         UNCHANGED <<stored, graph, broken, panel>>, spoiled \subseteq spoiled',
         modal'.saving => modal.saving \/ e.op \in {"prompt", "reset"},
         modal'.open # None /\ modal'.loading => e.op = "get",
         AskInv', PromptsInv'
  PROVE  IInv'
  <1>1. /\ PanelOK /\ RestOK /\ FormInv /\ GraphInv /\ CallsInv
        /\ DisabledOnlyWhileAwaited
    BY Parts
  <1>2. calls \in Seq(Request)  BY <1>1 DEF RestOK
  <1>3. /\ calls' \in Seq(Request) /\ Adds(0, e) /\ CallsInv'
        /\ \A ops : Awaited(ops) => Awaited(ops)'
        /\ GraphAsked => GraphAsked'
        /\ \A d : ~Writes(e, d) => Kept(d) /\ (Pending(d) = {} <=> Pending(d)' = {})
    BY <1>1, Sent
  <1>4. \A d \in Shown : ~Writes(e, d)  BY Kinds DEF Writes, Proper
  <1>5. panel.of # None => panel.of \in Shown  BY <1>1 DEF PanelOK, Panel
  <1>6. PanelOK'  BY <1>1 DEF PanelOK
  <1>7. FormInv'  BY <1>1, <1>3, <1>4, <1>5, FormKept
  <1>8. GraphInv'
    <2>1. \A d \in Shown \ spoiled' :
             Pending(d)' # {} \/ (stored'[d] = stored[d] /\ Pending(d) = {})
      BY <1>3, <1>4
    <2> QED  BY <1>1, <1>3, <2>1, GraphKept
  <1>9. \A ops : e.op \in ops => Awaited(ops)'  BY <1>2, <1>3, AwaitedNow
  <1>10. DisabledOnlyWhileAwaited'
    <2>1. panel'.saving => Awaited(PanelOps)'
      BY <1>1, <1>3 DEF DisabledOnlyWhileAwaited
    <2>2. modal'.saving => Awaited({"prompt", "reset"})'
      BY <1>1, <1>3, <1>9 DEF DisabledOnlyWhileAwaited
    <2>3. modal'.open # None /\ modal'.loading => Awaited({"get"})'  BY <1>9
    <2> QED  BY <2>1, <2>2, <2>3 DEF DisabledOnlyWhileAwaited
  <1> QED  BY <1>3, <1>6, <1>7, <1>8, <1>10, PartsNext

LEMMA OpenStep ==
  ASSUME IInv, NEW s \in Snapshots, Open(s)
  PROVE  IInv'
  <1>1. RestOK /\ CallsInv /\ AskInv /\ PromptsInv  BY Parts
  <1>2. PICK e : e = Call("get", s, Blank(s), {})  OBVIOUS
  <1>3. /\ e \in Request /\ Proper(e) /\ e.op = "get" /\ e.doc = s /\ e.live = TRUE
        /\ e.op \in ModalOps /\ ~Writing(e.op)
    <2>1. Blank(s) \in Value  BY BlankTyped, Kinds
    <2> QED
      BY <1>2, <2>1, Kinds DEF Call, Request, Proper, PanelOps, ModalOps, Writing
  <1>4. /\ calls' = Append(calls, e)
        /\ modal' = [modal EXCEPT !.open = s, !.loading = TRUE]
        /\ UNCHANGED <<stored, graph, broken, panel, asked, moved, spoiled, fails>>
    BY <1>2 DEF Open, Send, history
  <1>5. /\ modal' \in Modal /\ modal'.open = s /\ modal'.loading = TRUE
        /\ modal'.saving = modal.saving
    BY <1>1, <1>4 DEF Modal, RestOK
  <1>6. /\ calls' \in Seq(Request)
        /\ \A d : ~Writes(e, d) => Kept(d)
    BY <1>1, <1>3, <1>4, Sent
  <1>7. RestOK'
    BY <1>1, <1>4, <1>5, <1>6, EditorAssumption DEF Open, Step, RestOK
  <1>8. AskInv'  BY <1>1, <1>3, <1>4, <1>6, AskKept DEF Writes
  <1>9. PICK n \in Nat :
           /\ DOMAIN calls \subseteq Nat /\ DOMAIN calls' = DOMAIN calls \cup {n}
           /\ calls'[n] = e
           /\ \A i \in DOMAIN calls : i < n /\ calls'[i] = calls[i]
           /\ Gets \subseteq DOMAIN calls /\ PromptWrites \subseteq DOMAIN calls
           /\ Gets' = Gets \cup {n} /\ PromptWrites' = PromptWrites
    BY <1>1, <1>3, <1>4, PromptSent
  <1>10. SnapshotsInv'  BY <1>1, <1>4 DEF PromptsInv, SnapshotsInv
  <1>11. LivesInv'
    <2>1. ASSUME NEW i \in DOMAIN calls', NEW j \in DOMAIN calls', i < j,
                 calls'[i].op \in ModalOps, calls'[j].op \in ModalOps, calls'[i].live
          PROVE  calls'[j].live
      <3>1. CASE j = n  BY <3>1, <1>3, <1>9
      <3>2. CASE j # n
        <4>1. i \in DOMAIN calls /\ j \in DOMAIN calls  BY <3>2, <2>1, <1>9
        <4>2. calls'[i] = calls[i] /\ calls'[j] = calls[j]  BY <4>1, <1>9
        <4> QED  BY <1>1, <2>1, <4>1, <4>2 DEF PromptsInv, LivesInv
      <3> QED  BY <3>1, <3>2
    <2>2. ~modal'.saving => \A i \in PromptWrites' : ~calls'[i].live
      BY <1>1, <1>5, <1>9 DEF PromptsInv, LivesInv
    <2>3. \A i, j \in PromptWrites' : i = j
      BY <1>1, <1>9 DEF PromptsInv, LivesInv
    <2> QED  BY <1>5, <2>1, <2>2, <2>3 DEF LivesInv
  <1>12. OrderInv'
    <2>1. ASSUME NEW i \in Gets', \A j \in Gets' : j <= i
          PROVE  calls'[i].doc = modal'.open
      <3>1. i = n
        <4>1. n <= i /\ (i \in DOMAIN calls \/ i = n)  BY <1>9, <2>1
        <4> QED  BY <4>1, <1>9
      <3> QED  BY <3>1, <1>3, <1>5, <1>9
    <2>2. ASSUME NEW i \in PromptWrites', \A j \in Gets' : j < i
          PROVE  FALSE
      <3>1. n < i /\ i < n /\ i \in Nat  BY <1>9, <2>2
      <3> QED  BY <3>1, <1>9
    <2>3. ASSUME NEW i \in PromptWrites', calls'[i].op = "prompt",
                 NEW j \in Gets', j < i
          PROVE  calls'[i].doc \in spoiled'
      <3>1. i \in PromptWrites /\ i < n /\ calls'[i] = calls[i] /\ i \in Nat
        BY <1>9, <2>3
      <3>2. j \in Gets  BY <3>1, <1>9, <2>3
      <3> QED  BY <1>1, <1>4, <2>3, <3>1, <3>2 DEF PromptsInv, OrderInv
    <2> QED  BY <2>1, <2>2, <2>3 DEF OrderInv
  <1>13. ModalInv'  BY <1>9 DEF ModalInv
  <1>14. PromptsInv'  BY <1>10, <1>11, <1>12, <1>13 DEF PromptsInv
  <1> QED  BY <1>3, <1>4, <1>5, <1>7, <1>8, <1>14, ModalSends

\* The buttons of the modal work only when no prompt is being written.
LEMMA NoneUnderWay ==
  ASSUME IInv, modal.open # None, ~modal.loading, ~modal.saving
  PROVE  /\ PromptWrites = {} /\ Pending(modal.open) = {}
         /\ modal.open \in Snapshots /\ modal.open \in Docs
         /\ \A i \in DOMAIN calls : calls[i].op \in ModalOps => calls[i].live
  <1>1. RestOK /\ CallsInv /\ PromptsInv  BY Parts
  <1>2. \A i \in DOMAIN calls : calls[i].op \in ModalOps => calls[i].live
    BY <1>1 DEF PromptsInv, LivesInv
  <1>3. \A i \in PromptWrites : ~calls[i].live  BY <1>1 DEF PromptsInv, LivesInv
  <1>4. PromptWrites = {}  BY <1>2, <1>3 DEF PromptWrites, ModalOps
  <1>5. modal.open \in Snapshots /\ modal.open \in Docs
    BY <1>1, Kinds DEF RestOK, Modal
  <1>6. ASSUME NEW i \in Pending(modal.open) PROVE FALSE
    <2>1. i \in DOMAIN calls /\ calls[i].doc = modal.open /\ Proper(calls[i])
      BY <1>1, <1>6 DEF Pending, CallsInv
    <2>2. calls[i].op \notin {"prompt", "reset"}  BY <1>4, <2>1 DEF PromptWrites
    <2>3. calls[i].op \in PanelOps  BY <1>6, <2>2 DEF Pending, Writing
    <2> QED  BY <1>5, <2>1, <2>3, Kinds DEF Proper
  <1> QED  BY <1>2, <1>4, <1>5, <1>6

\* What SavePrompt and Reset have in common: one request, e, that will make the
\* snapshot what is asked for, v.
LEMMA WriteStep ==
  ASSUME IInv, modal.open # None, ~modal.loading, ~modal.saving,
         NEW e \in Request, Proper(e), e.op \in {"prompt", "reset"},
         e.doc = modal.open, e.live = TRUE, calls' = Append(calls, e),
         modal' = [modal EXCEPT !.saving = TRUE],
         UNCHANGED <<stored, graph, broken, panel, moved, fails>>,
         steps' \in 0..MaxSteps, spoiled \subseteq spoiled',
         spoiled' \subseteq spoiled \cup {modal.open},
         NEW v \in Value, asked' = [asked EXCEPT ![modal.open] = v],
         v.label = FirstLabel, v.dir = <<>>, v.text[1] = modal.open,
         modal.open \notin spoiled' => e.val.text = v.text,
         e.op = "prompt" /\ modal.open \notin spoiled' =>
            Gets = {} /\ e.val.text = modal.prompt /\ modal.prompt[2] # 0
  PROVE  IInv'
  <1>1. RestOK /\ CallsInv /\ AskInv /\ PromptsInv  BY Parts
  <1>2. PICK s : s = modal.open  OBVIOUS
  <1>3. /\ PromptWrites = {} /\ Pending(s) = {} /\ s \in Snapshots /\ s \in Docs
        /\ \A i \in DOMAIN calls : calls[i].op \in ModalOps => calls[i].live
    BY <1>2, NoneUnderWay
  <1>4. /\ modal' \in Modal /\ modal'.open = s /\ modal'.loading = modal.loading
        /\ modal'.saving = TRUE /\ modal'.prompt = modal.prompt /\ modal'.odd = modal.odd
    BY <1>1, <1>2 DEF Modal, RestOK
  <1>5. e.op \in ModalOps /\ e.op # "get" /\ e.op # "update"  BY DEF ModalOps
  <1>6. /\ calls' \in Seq(Request) /\ Adds(0, e)
        /\ \A d : ~Writes(e, d) => Kept(d)
    BY <1>1, Sent
  <1>7. /\ asked' \in [Docs -> Value] /\ asked'[s] = v
        /\ \A d \in Docs : d # s => asked'[d] = asked[d]
    BY <1>1, <1>2, <1>3 DEF RestOK
  <1>8. RestOK'
    BY <1>1, <1>2, <1>3, <1>4, <1>6, <1>7 DEF RestOK
  <1>9. AskInv'
    <2> SUFFICES ASSUME NEW d \in Docs \ spoiled' PROVE Ask(d)'
      BY DEF AskInv
    <2>1. CASE d = s
      <3>1. Writes(e, d)  BY <1>2, <2>1 DEF Writes, Writing
      <3>2. calls \in Seq(Request) /\ Pending(d) = {}  BY <1>1, <1>3, <2>1 DEF RestOK
      <3>3. /\ Once(d)' /\ TextBecomes(d, e.val.text)'
            /\ \A y : y = LabelOf(e, stored'[d]) => LabelBecomes(d, y)'
            /\ \A y : y = DirOf(e, stored'[d]) => DirBecomes(d, y)'
        BY <1>6, <3>1, <3>2, SentNow
      <3>4. /\ LabelOf(e, stored'[d]) = v.label /\ DirOf(e, stored'[d]) = v.dir
            /\ e.val.text = v.text
        BY <1>1, <1>2, <1>3, <1>5, <2>1 DEF LabelOf, DirOf, PromptsInv, SnapshotsInv
      <3> QED  BY <1>7, <2>1, <3>3, <3>4 DEF Ask
    <2>2. CASE d # s
      <3>1. Kept(d)  BY <1>2, <1>6, <2>2 DEF Writes
      <3>2. Ask(d) /\ asked'[d] = asked[d]  BY <1>1, <1>7, <2>2 DEF AskInv
      <3> QED  BY <3>1, <3>2, AskKeptAt
    <2> QED  BY <2>1, <2>2
  <1>10. PICK n \in Nat :
           /\ DOMAIN calls \subseteq Nat /\ DOMAIN calls' = DOMAIN calls \cup {n}
           /\ calls'[n] = e
           /\ \A i \in DOMAIN calls : i < n /\ calls'[i] = calls[i]
           /\ Gets \subseteq DOMAIN calls /\ PromptWrites \subseteq DOMAIN calls
           /\ Gets' = Gets /\ PromptWrites' = {n}
    BY <1>1, <1>3, <1>5, PromptSent
  <1>11. SnapshotsInv'
    <2> SUFFICES ASSUME NEW x \in Snapshots
                 PROVE  /\ stored[x].label = FirstLabel /\ asked'[x].label = FirstLabel
                        /\ stored[x].dir = <<>> /\ asked'[x].dir = <<>>
                        /\ asked'[x].text[1] = x
                        /\ x \notin spoiled' => stored[x].text[1] = x
      BY DEF SnapshotsInv
    <2> QED  BY <1>1, <1>2, <1>7, Kinds DEF PromptsInv, SnapshotsInv
  <1>12. LivesInv'
    <2>1. ASSUME NEW j \in DOMAIN calls', calls'[j].op \in ModalOps
          PROVE  calls'[j].live
      <3>1. CASE j = n  BY <3>1, <1>10
      <3>2. CASE j # n  BY <3>2, <1>3, <1>10, <2>1
      <3> QED  BY <3>1, <3>2
    <2> QED  BY <1>4, <1>10, <2>1 DEF LivesInv
  <1>13. OrderInv'
    <2>1. ASSUME NEW i \in Gets', \A j \in Gets' : j <= i
          PROVE  calls'[i].doc = modal'.open
      <3>1. i \in Gets /\ calls'[i] = calls[i] /\ \A j \in Gets : j <= i  BY <1>10, <2>1
      <3> QED  BY <1>1, <1>2, <1>4, <3>1 DEF PromptsInv, OrderInv
    <2>2. calls'[n].doc = modal'.open  BY <1>2, <1>4, <1>10
    <2>3. ASSUME calls'[n].op = "prompt", NEW j \in Gets'
          PROVE  calls'[n].doc \in spoiled'
      BY <1>10, <2>3
    <2> QED  BY <1>10, <2>1, <2>2, <2>3 DEF OrderInv
  <1>14. ModalInv'
    <2> SUFFICES ASSUME s \notin spoiled', Gets' = {}, ~modal.odd
                 PROVE  /\ modal.prompt[1] = s
                        /\ e.op = "prompt" =>
                              e.val.text[1] = s /\ e.val.text[2] # 0 /\ modal.prompt[2] # 0
      BY <1>4, <1>10 DEF ModalInv
    <2>1. modal.prompt[1] = s
      BY <1>1, <1>2, <1>10 DEF PromptsInv, ModalInv
    <2> QED  BY <1>2, <2>1
  <1>15. PromptsInv'  BY <1>11, <1>12, <1>13, <1>14 DEF PromptsInv
  <1> QED  BY <1>4, <1>5, <1>8, <1>9, <1>15, ModalSends

LEMMA SavePromptStep == IInv /\ SavePrompt => IInv'
  <1> SUFFICES ASSUME IInv, SavePrompt PROVE IInv'  OBVIOUS
  <1>1. RestOK /\ PromptsInv  BY Parts
  <1>2. PICK s, p : s = modal.open /\ p = modal.prompt  OBVIOUS
  <1>3. PICK e : e = Call("prompt", s, [Blank(s) EXCEPT !.text = p], {})  OBVIOUS
  <1>4. /\ modal.open # None /\ ~modal.loading /\ ~modal.saving /\ p # modal.original
        /\ modal' = [modal EXCEPT !.saving = TRUE]
        /\ calls' = Append(calls, e)
        /\ asked' = [asked EXCEPT ![s].text = <<s, p[2]>>]
        /\ spoiled' = IF OwnLoaded THEN spoiled ELSE spoiled \cup {s}
        /\ UNCHANGED <<stored, graph, broken, panel, moved, fails>>
        /\ steps' \in 0..MaxSteps
    BY <1>1, <1>2, <1>3, EditorAssumption DEF SavePrompt, AtModal, Send, Step, RestOK
  <1>5. s \in Snapshots /\ s \in Docs /\ PromptWrites = {} /\ p \in Texts
    BY <1>1, <1>2, <1>4, NoneUnderWay DEF RestOK, Modal
  <1>6. /\ e \in Request /\ Proper(e) /\ e.op = "prompt" /\ e.doc = s /\ e.live = TRUE
        /\ e.val.text = p
    <2>1. Blank(s) \in Value  BY <1>5, BlankTyped
    <2>2. [Blank(s) EXCEPT !.text = p] \in Value /\ [Blank(s) EXCEPT !.text = p].text = p
      BY <1>5, <2>1 DEF Value
    <2> QED
      BY <1>3, <1>5, <2>2, Kinds DEF Call, Request, Proper, PanelOps, ModalOps
  <1>7. asked[s] \in Value  BY <1>1, <1>5 DEF RestOK
  <1>8. PICK v : v = [asked[s] EXCEPT !.text = <<s, p[2]>>]  OBVIOUS
  <1>9. /\ v \in Value /\ v.text = <<s, p[2]>> /\ v.text[1] = s
        /\ v.label = asked[s].label /\ v.dir = asked[s].dir
    <2>1. <<s, p[2]>> \in Texts  BY <1>5 DEF Texts
    <2> QED  BY <1>7, <1>8, <2>1 DEF Value
  <1>10. v.label = FirstLabel /\ v.dir = <<>>
    BY <1>1, <1>5, <1>9 DEF PromptsInv, SnapshotsInv
  <1>11. asked' = [asked EXCEPT ![s] = v]  BY <1>4, <1>8
  <1>12. ASSUME s \notin spoiled' PROVE Gets = {} /\ p[2] # 0 /\ p = v.text
    <2>1. OwnLoaded /\ s \notin spoiled  BY <1>4, <1>12
    <2>2. Gets = {} /\ ~modal.odd  BY <2>1 DEF OwnLoaded, Gets
    <2>3. p[1] = s /\ (p[2] = 0 => p = modal.original)
      BY <1>1, <1>2, <1>4, <1>5, <2>1, <2>2 DEF PromptsInv, ModalInv
    <2>4. p = <<p[1], p[2]>>  BY <1>5 DEF Texts
    <2> QED  BY <1>4, <1>9, <2>2, <2>3, <2>4
  <1>13. spoiled \subseteq spoiled' /\ spoiled' \subseteq spoiled \cup {s}  BY <1>4
  <1>14. /\ e.op \in {"prompt", "reset"} /\ e.doc = modal.open
         /\ asked' = [asked EXCEPT ![modal.open] = v] /\ v.text[1] = modal.open
         /\ spoiled' \subseteq spoiled \cup {modal.open}
         /\ modal.open \notin spoiled' => e.val.text = v.text
         /\ e.op = "prompt" /\ modal.open \notin spoiled' =>
               Gets = {} /\ e.val.text = modal.prompt /\ modal.prompt[2] # 0
    BY <1>2, <1>6, <1>9, <1>11, <1>12, <1>13
  <1> QED  BY <1>4, <1>6, <1>9, <1>10, <1>13, <1>14, WriteStep

LEMMA ResetStep == IInv /\ Reset => IInv'
  <1> SUFFICES ASSUME IInv, Reset PROVE IInv'  OBVIOUS
  <1>1. RestOK /\ PromptsInv  BY Parts
  <1>2. PICK s, v : s = modal.open /\ v = Blank(s)  OBVIOUS
  <1>3. PICK e : e = Call("reset", s, v, {})  OBVIOUS
  <1>4. /\ modal.open # None /\ ~modal.loading /\ ~modal.saving
        /\ modal' = [modal EXCEPT !.saving = TRUE]
        /\ calls' = Append(calls, e)
        /\ asked' = [asked EXCEPT ![s] = v]
        /\ UNCHANGED <<stored, graph, broken, panel, moved, spoiled, fails>>
        /\ steps' \in 0..MaxSteps
    BY <1>1, <1>2, <1>3, EditorAssumption DEF Reset, AtModal, Send, Step, RestOK
  <1>5. s \in Snapshots /\ s \in Docs  BY <1>2, <1>4, NoneUnderWay
  <1>6. /\ v \in Value /\ v.label = FirstLabel /\ v.dir = <<>> /\ v.text[1] = s
    BY <1>2, <1>5, BlankTyped DEF Blank
  <1>7. /\ e \in Request /\ Proper(e) /\ e.op = "reset" /\ e.doc = s /\ e.live = TRUE
        /\ e.val = v
    BY <1>2, <1>3, <1>5, <1>6, Kinds DEF Call, Request, Proper, PanelOps, ModalOps
  <1> QED  BY <1>2, <1>4, <1>6, <1>7, WriteStep

-----------------------------------------------------------------------------
(* Answers to the form.                                                    *)

\* The oldest request has its answer.
LEMMA Answer ==
  ASSUME IInv, calls # <<>>, calls' = Tail(calls)
  PROVE  /\ calls' \in Seq(Request) /\ Drops(1) /\ CallsInv'
         /\ Moved(1, {}) /\ Moved(1, PanelOps)
         /\ Head(calls) = calls[1] /\ 1 \in DOMAIN calls
         /\ calls[1] \in Request /\ Proper(calls[1])
         /\ \A ops : Awaited(ops) /\ ~(calls[1].live /\ calls[1].op \in ops) => Awaited(ops)'
         /\ calls[1].op # "graph" /\ GraphAsked => GraphAsked'
         /\ \A d : stored'[d] = stored[d] /\ ~Writes(calls[1], d) =>
                      Kept(d) /\ (Pending(d) = {} <=> Pending(d)' = {})
  <1>1. RestOK /\ CallsInv  BY Parts
  <1>2. calls \in Seq(Request)  BY <1>1 DEF RestOK
  <1>3. /\ calls' \in Seq(Request) /\ Drops(1) /\ Moved(1, {})
        /\ Head(calls) = calls[1] /\ 1 \in DOMAIN calls
    BY <1>2, TailDrops
  <1>4. calls[1] \in Request /\ Proper(calls[1])  BY <1>1, <1>2, <1>3, Lengths DEF CallsInv
  <1>5. CallsInv'  BY <1>1, <1>2, <1>3, ProperKept
  <1>6. Moved(1, PanelOps)  BY <1>3 DEF Moved
  <1>7. \A ops : Awaited(ops) /\ ~(calls[1].live /\ calls[1].op \in ops) => Awaited(ops)'
    <2> SUFFICES ASSUME NEW ops, Awaited(ops), ~(calls[1].live /\ calls[1].op \in ops)
                 PROVE  Awaited(ops)'
      OBVIOUS
    <2>1. ops \cap {} = {}  OBVIOUS
    <2> QED  BY <1>2, <1>3, <2>1, AwaitedKept
  <1>8. calls[1].op # "graph" /\ GraphAsked => GraphAsked'
    BY <1>2, <1>3, GraphAskedKept
  <1>9. ASSUME NEW d, stored'[d] = stored[d], ~Writes(calls[1], d)
        PROVE  Kept(d) /\ (Pending(d) = {} <=> Pending(d)' = {})
    BY <1>2, <1>3, <1>9, Untouched
  <1> QED  BY <1>3, <1>4, <1>5, <1>6, <1>7, <1>8, <1>9

\* The oldest request has its answer, and another is sent.
LEMMA AnswerAndSend ==
  ASSUME IInv, calls # <<>>, NEW e \in Request, Proper(e), calls' = Append(Tail(calls), e)
  PROVE  /\ calls' \in Seq(Request) /\ Adds(1, e) /\ CallsInv' /\ Moved(1, PanelOps)
         /\ Head(calls) = calls[1] /\ 1 \in DOMAIN calls
         /\ calls[1] \in Request /\ Proper(calls[1])
         /\ \A ops : Awaited(ops) /\ ~(calls[1].live /\ calls[1].op \in ops) => Awaited(ops)'
         /\ \A ops : e.live /\ e.op \in ops => Awaited(ops)'
         /\ e.op = "graph" => GraphAsked'
         /\ calls[1].op # "graph" /\ GraphAsked => GraphAsked'
         /\ \A d : stored'[d] = stored[d] /\ ~Writes(calls[1], d) /\ ~Writes(e, d) =>
                      Kept(d) /\ (Pending(d) = {} <=> Pending(d)' = {})
  <1>1. RestOK /\ CallsInv  BY Parts
  <1>2. calls \in Seq(Request)  BY <1>1 DEF RestOK
  <1>3. /\ calls' \in Seq(Request) /\ Adds(1, e) /\ Moved(1, {})
        /\ Head(calls) = calls[1] /\ 1 \in DOMAIN calls
    BY <1>2, TailAdds
  <1>4. calls[1] \in Request /\ Proper(calls[1])  BY <1>1, <1>2, <1>3, Lengths DEF CallsInv
  <1>5. CallsInv'
    <2>1. Drops(1) \/ \E c : Adds(1, c) /\ Proper(c)  BY <1>3
    <2> QED  BY <1>1, <1>2, <1>3, <2>1, ProperKept
  <1>6. Moved(1, PanelOps)  BY <1>3 DEF Moved
  <1>7. Drops(1) \/ \E c : Adds(1, c)  BY <1>3
  <1>8. \A ops : Awaited(ops) /\ ~(calls[1].live /\ calls[1].op \in ops) => Awaited(ops)'
    <2> SUFFICES ASSUME NEW ops, Awaited(ops), ~(calls[1].live /\ calls[1].op \in ops)
                 PROVE  Awaited(ops)'
      OBVIOUS
    <2>1. ops \cap {} = {}  OBVIOUS
    <2> QED  BY <1>2, <1>3, <1>7, <2>1, AwaitedKept
  <1>9. /\ \A ops : e.live /\ e.op \in ops => Awaited(ops)'
        /\ e.op = "graph" => GraphAsked'
    BY <1>2, <1>3, AwaitedNow
  <1>10. calls[1].op # "graph" /\ GraphAsked => GraphAsked'
    BY <1>2, <1>3, <1>7, GraphAskedKept
  <1>11. ASSUME NEW d, stored'[d] = stored[d], ~Writes(calls[1], d), ~Writes(e, d)
         PROVE  Kept(d) /\ (Pending(d) = {} <=> Pending(d)' = {})
    <2>1. Drops(1) \/ \E c : Adds(1, c) /\ ~Writes(c, d)  BY <1>3, <1>11
    <2> QED  BY <1>2, <1>3, <1>11, <2>1, Untouched
  <1> QED  BY <1>3, <1>4, <1>5, <1>6, <1>8, <1>9, <1>10, <1>11

\* What a request of the form does when it is carried out.
LEMMA PanelExecuted ==
  ASSUME RestOK, NEW c \in Request, Proper(c), c.op \in PanelOps, stored' = Executed(c)
  PROVE  /\ stored' \in [Docs -> Value] /\ c.doc \in Shown /\ Writes(c, c.doc)
         /\ \A d \in Docs : d # c.doc => stored'[d] = stored[d] /\ ~Writes(c, d)
         /\ stored'[c.doc].label = LabelOf(c, stored[c.doc])
         /\ stored'[c.doc].dir = DirOf(c, stored[c.doc])
         /\ c.op # "update" => stored'[c.doc].text = c.val.text
         /\ \A s \in Snapshots : stored'[s] = stored[s]
         /\ c.op \notin ModalOps
  <1>1. /\ c.doc \in Shown /\ c.doc \in Docs /\ c.doc \notin Snapshots
        /\ c.op # "reset" /\ c.op \notin ModalOps
    BY Kinds DEF Proper, PanelOps, ModalOps
  <1>2. /\ \A d : d # c.doc => ~Writes(c, d)
        /\ Writes(c, c.doc)
    BY DEF Writes, Writing
  <1>3. /\ stored' \in [Docs -> Value]
        /\ \A d \in Docs : ~Writes(c, d) => stored'[d] = stored[d]
        /\ \A d \in Docs : Writes(c, d) =>
               /\ c.op # "reset" => stored'[d].label = LabelOf(c, stored[d])
               /\ c.op # "reset" => stored'[d].dir = DirOf(c, stored[d])
               /\ c.op # "update" => stored'[d].text = c.val.text
    BY ExecutedIs DEF RestOK
  <1> QED  BY <1>1, <1>2, <1>3, Kinds

LEMMA UpdatedStep == IInv /\ Updated => IInv'
  <1> SUFFICES ASSUME IInv, Updated PROVE IInv'  OBVIOUS
  <1>1. /\ PanelOK /\ RestOK /\ FormInv /\ AskInv /\ GraphInv /\ CallsInv
        /\ DisabledOnlyWhileAwaited
    BY Parts
  <1>2. PICK c, e : c = Head(calls) /\ e = [c EXCEPT !.op = "annotate"]  OBVIOUS
  <1>3. /\ calls # <<>> /\ c.op = "update" /\ stored' = Executed(c)
        /\ calls' = Append(Tail(calls), e)
        /\ UNCHANGED <<graph, broken, panel, modal, asked, moved, spoiled, steps, fails>>
    BY <1>2 DEF Updated, Answered, history
  <1>4. c = calls[1] /\ c \in Request /\ Proper(c)
    <2>1. calls \in Seq(Request)  BY <1>1 DEF RestOK
    <2>2. c = calls[1] /\ 1 \in DOMAIN calls
      BY <1>2, <1>3, <2>1, HeadTailProperties, Lengths, EmptySeq
    <2> QED  BY <1>1, <2>1, <2>2, Lengths DEF CallsInv
  <1>5. /\ e \in Request /\ e.op = "annotate" /\ e.doc = c.doc /\ e.val = c.val
        /\ e.live = c.live
    BY <1>2, <1>4 DEF Request, PanelOps
  <1>6. Proper(e) /\ e.op \in PanelOps /\ e.op \notin ModalOps /\ c.op \in PanelOps
    BY <1>3, <1>4, <1>5 DEF Proper, PanelOps, ModalOps
  <1>7. /\ calls' \in Seq(Request) /\ Adds(1, e) /\ Moved(1, PanelOps)
        /\ \A ops : Awaited(ops) /\ ~(c.live /\ c.op \in ops) => Awaited(ops)'
        /\ \A ops : e.live /\ e.op \in ops => Awaited(ops)'
        /\ c.op # "graph" /\ GraphAsked => GraphAsked'
        /\ \A d : stored'[d] = stored[d] /\ ~Writes(c, d) /\ ~Writes(e, d) =>
                     Kept(d) /\ (Pending(d) = {} <=> Pending(d)' = {})
    BY <1>3, <1>4, <1>5, <1>6, AnswerAndSend
  <1>8. /\ stored' \in [Docs -> Value] /\ c.doc \in Shown /\ Writes(c, c.doc)
        /\ \A d \in Docs : d # c.doc => stored'[d] = stored[d] /\ ~Writes(c, d)
        /\ stored'[c.doc].label = LabelOf(c, stored[c.doc])
        /\ stored'[c.doc].dir = DirOf(c, stored[c.doc])
        /\ \A s \in Snapshots : stored'[s] = stored[s]
        /\ c.op \notin ModalOps
    BY <1>1, <1>3, <1>4, <1>6, PanelExecuted
  <1>9. RestOK'  BY <1>1, <1>3, <1>7, <1>8 DEF RestOK
  <1>10. PanelOK'  BY <1>1, <1>3 DEF PanelOK
  <1>11. ASSUME NEW d \in Docs, d # c.doc
         PROVE  Kept(d) /\ (Pending(d) = {} <=> Pending(d)' = {}) /\ stored'[d] = stored[d]
    BY <1>5, <1>7, <1>8, <1>11 DEF Writes
  <1>12. ASSUME Once(c.doc) PROVE Kept(c.doc) /\ Pending(c.doc)' # {}
    <2>1. calls \in Seq(Request)  BY <1>1 DEF RestOK
    <2> QED  BY <1>4, <1>5, <1>7, <1>8, <1>12, <2>1, HalfCarriedOut
  <1>13. \A d \in Docs \ spoiled' : Once(d)  BY <1>1, <1>3 DEF AskInv, Ask
  <1>14. AskInv'  BY <1>1, <1>3, <1>11, <1>12, AskKept
  <1>15. FormInv'
    <2>1. panel.of \notin spoiled' \cup {None} => panel.of \in Docs
      BY <1>1, Kinds DEF PanelOK, Panel
    <2>2. panel.of \notin spoiled' \cup {None} => Kept(panel.of)
      BY <1>11, <1>12, <1>13, <2>1
    <2> QED  BY <1>1, <1>3, <2>2, FormKept
  <1>16. GraphInv'
    <2>1. \A d \in Shown \ spoiled' :
             Pending(d)' # {} \/ (stored'[d] = stored[d] /\ Pending(d) = {})
      BY <1>11, <1>12, <1>13, Kinds
    <2> QED  BY <1>1, <1>3, <1>7, <2>1, GraphKept
  <1>17. panel'.saving => Awaited(PanelOps)'
    <2>1. panel.saving => Awaited(PanelOps)  BY <1>1 DEF DisabledOnlyWhileAwaited
    <2> QED  BY <1>3, <1>5, <1>6, <1>7, <2>1
  <1>18. \E x : Adds(1, x) /\ x.op \notin ModalOps /\ Proper(x)  BY <1>6, <1>7
  <1>19. calls[1].op \notin ModalOps  BY <1>4, <1>8
  <1> QED
    BY <1>3, <1>7, <1>8, <1>9, <1>10, <1>14, <1>15, <1>16, <1>17, <1>18, <1>19, PanelStep

LEMMA SavedStep == IInv /\ Saved => IInv'
  <1> SUFFICES ASSUME IInv, Saved PROVE IInv'  OBVIOUS
  <1>1. /\ PanelOK /\ RestOK /\ FormInv /\ AskInv /\ GraphInv /\ CallsInv
        /\ DisabledOnlyWhileAwaited
    BY Parts
  <1>2. PICK c : c = Head(calls)  OBVIOUS
  <1>3. /\ calls # <<>> /\ c.op \in {"annotate", "remark"} /\ stored' = Executed(c)
        /\ calls' = Append(Tail(calls), Refresh)
        /\ IF c.live THEN panel' = Closed(panel) /\ UNCHANGED broken ELSE Reloading
        /\ UNCHANGED <<graph, modal, asked, moved, spoiled, steps, fails>>
    BY <1>2 DEF Saved, Answered, history
  <1>4. /\ calls' \in Seq(Request) /\ Adds(1, Refresh) /\ Moved(1, PanelOps)
        /\ c = calls[1] /\ c \in Request /\ Proper(c)
        /\ \A ops : Awaited(ops) /\ ~(c.live /\ c.op \in ops) => Awaited(ops)'
        /\ GraphAsked'
        /\ \A d : stored'[d] = stored[d] /\ ~Writes(c, d) /\ ~Writes(Refresh, d) => Kept(d)
    BY <1>2, <1>3, RefreshProper, AnswerAndSend
  <1>5. c.op \in PanelOps /\ c.op # "update"  BY <1>3 DEF PanelOps
  <1>6. /\ stored' \in [Docs -> Value] /\ c.doc \in Shown /\ Writes(c, c.doc)
        /\ \A d \in Docs : d # c.doc => stored'[d] = stored[d] /\ ~Writes(c, d)
        /\ stored'[c.doc].label = LabelOf(c, stored[c.doc])
        /\ stored'[c.doc].dir = DirOf(c, stored[c.doc])
        /\ stored'[c.doc].text = c.val.text
        /\ \A s \in Snapshots : stored'[s] = stored[s]
        /\ c.op \notin ModalOps
    BY <1>1, <1>3, <1>4, <1>5, PanelExecuted
  <1>7. ASSUME NEW d \in Docs, Once(d) PROVE Kept(d)
    <2>1. ~Writes(Refresh, d)  BY RefreshProper DEF Writes
    <2>2. CASE d # c.doc  BY <2>1, <2>2, <1>4, <1>6
    <2>3. CASE d = c.doc
      <3>1. Drops(1) \/ \E e : Adds(1, e) /\ ~Writes(e, d)  BY <1>4, <2>1
      <3>2. calls \in Seq(Request)  BY <1>1 DEF RestOK
      <3> QED  BY <1>4, <1>6, <1>7, <2>3, <3>1, <3>2, CarriedOut
    <2> QED  BY <2>2, <2>3
  <1>8. \A d \in Docs \ spoiled' : Kept(d)  BY <1>1, <1>3, <1>7 DEF AskInv, Ask
  <1>9. AskInv'  BY <1>1, <1>3, <1>8, AskKept
  <1>10. GraphInv'  BY <1>4, GraphAwaited
  <1>11. PanelOK' /\ FormInv' /\ broken' \in BOOLEAN
         /\ (panel'.saving => ~c.live /\ panel.saving)
    <2>1. CASE c.live
      <3>1. panel' = Closed(panel) /\ broken' = broken  BY <1>3, <2>1
      <3>2. panel \in Panel  BY <1>1 DEF PanelOK
      <3>3. PICK o : o = (panel.odd \/ panel.typed # {})  OBVIOUS
      <3>4. panel' = [panel EXCEPT !.editing = FALSE, !.saving = FALSE, !.typed = {}, !.odd = o]
        BY <3>1, <3>3 DEF Closed
      <3>5. /\ panel' \in Panel /\ panel'.of = panel.of /\ panel'.editing = FALSE
            /\ panel'.saving = FALSE /\ panel'.typed = {} /\ panel'.odd = o
            /\ panel'.input = panel.input
        BY <3>2, <3>3, <3>4 DEF Panel
      <3>6. PanelOK'  BY <3>5 DEF PanelOK
      <3>7. panel.of \notin spoiled' \cup {None} => Kept(panel.of)
        BY <1>8, <3>2, Kinds DEF Panel
      <3>8. FormInv'  BY <1>1, <1>3, <3>1, <3>3, <3>5, <3>7, FormKept
      <3> QED  BY <1>1, <3>1, <3>5, <3>6, <3>8 DEF RestOK
    <2>2. CASE ~c.live
      <3>1. Reloading /\ \A d \in Shown \ spoiled' : Kept(d)  BY <1>3, <1>8, <2>2, Kinds
      <3> QED  BY <1>1, <1>3, <2>2, <3>1, FormReloaded
    <2> QED  BY <2>1, <2>2
  <1>12. RestOK'  BY <1>1, <1>3, <1>4, <1>6, <1>11 DEF RestOK
  <1>13. panel'.saving => Awaited(PanelOps)'
    BY <1>1, <1>4, <1>11 DEF DisabledOnlyWhileAwaited
  <1>14. \E x : Adds(1, x) /\ x.op \notin ModalOps /\ Proper(x)  BY <1>4, RefreshProper
  <1>15. calls[1].op \notin ModalOps  BY <1>4, <1>6
  <1> QED
    BY <1>3, <1>4, <1>6, <1>9, <1>10, <1>11, <1>12, <1>13, <1>14, <1>15, PanelStep

LEMMA GotGraphStep == IInv /\ GotGraph => IInv'
  <1> SUFFICES ASSUME IInv, GotGraph PROVE IInv'  OBVIOUS
  <1>1. /\ PanelOK /\ RestOK /\ FormInv /\ AskInv /\ DisabledOnlyWhileAwaited
    BY Parts
  <1>2. PICK g : g = [d \in Shown |-> stored[d]]  OBVIOUS
  <1>3. /\ calls # <<>> /\ Head(calls).op = "graph" /\ stored' = Executed(Head(calls))
        /\ calls' = Tail(calls) /\ graph' = g
        /\ panel' = IF ~broken /\ Rerun(panel.of) THEN Filled(panel.of, g, panel.saving)
                    ELSE panel
        /\ UNCHANGED <<broken, modal, asked, moved, spoiled, steps, fails>>
    BY <1>2 DEF GotGraph, Answered, history
  <1>4. stored' = stored  BY <1>3 DEF Executed
  <1>5. /\ calls' \in Seq(Request) /\ Drops(1) /\ Moved(1, PanelOps)
        /\ calls[1].op = "graph"
        /\ \A ops : Awaited(ops) /\ ~(calls[1].live /\ calls[1].op \in ops) => Awaited(ops)'
        /\ \A d : stored'[d] = stored[d] /\ ~Writes(calls[1], d) => Kept(d)
    BY <1>3, Answer
  <1>6. \A d : Kept(d)  BY <1>4, <1>5 DEF Writes, Writing, PanelOps
  <1>7. g \in [Shown -> Value] /\ \A d \in Shown : g[d] = stored[d]
    BY <1>1, <1>2, Kinds DEF RestOK
  <1>8. RestOK'  BY <1>1, <1>3, <1>4, <1>5, <1>7 DEF RestOK
  <1>9. AskInv'  BY <1>1, <1>3, <1>6, AskKept
  <1>10. GraphInv'  BY <1>3, <1>4, <1>7 DEF GraphInv
  <1>11. PanelOK' /\ FormInv' /\ panel'.saving = panel.saving
    <2>1. CASE panel' = panel
      BY <2>1, <1>1, <1>3, <1>6, FormKept DEF PanelOK
    <2>2. CASE panel' # panel
      <3>1. panel.of \in Shown /\ panel.saving \in BOOLEAN
        BY <1>1, <1>3, <2>2, Kinds DEF Rerun, PanelOK, Panel
      <3>2. panel' = Filled(panel.of, g, panel.saving)  BY <1>3, <2>2
      <3> QED  BY <1>1, <1>6, <1>7, <3>1, <3>2, PanelFilled, FormFilled, FilledTyped
    <2> QED  BY <2>1, <2>2
  <1>12. panel'.saving => Awaited(PanelOps)'
    BY <1>1, <1>5, <1>11 DEF DisabledOnlyWhileAwaited, PanelOps
  <1>13. calls[1].op \notin ModalOps  BY <1>5 DEF ModalOps
  <1> QED
    BY <1>3, <1>4, <1>5, <1>8, <1>9, <1>10, <1>11, <1>12, <1>13, PanelStep

LEMMA SaveFailsStep == IInv /\ SaveFails => IInv'
  <1> SUFFICES ASSUME IInv, SaveFails PROVE IInv'  OBVIOUS
  <1>1. /\ PanelOK /\ RestOK /\ FormInv /\ AskInv /\ GraphInv
        /\ DisabledOnlyWhileAwaited
    BY Parts
  <1>2. PICK c, o : c = Head(calls) /\ o = (panel.saving /\ ~c.live)  OBVIOUS
  <1>3. /\ calls # <<>> /\ c.op \in PanelOps /\ stored' \in {stored, Executed(c)}
        /\ calls' = Tail(calls) /\ panel' = [panel EXCEPT !.saving = o]
        /\ spoiled' = spoiled \cup {c.doc}
        /\ UNCHANGED <<graph, broken, modal, asked, moved, steps>>
        /\ fails' \in 0..MaxFails
    BY <1>1, <1>2, EditorAssumption DEF SaveFails, Failed, RestOK
  <1>4. /\ calls' \in Seq(Request) /\ Drops(1) /\ Moved(1, PanelOps)
        /\ calls[1] = c /\ c \in Request /\ Proper(c)
        /\ \A ops : Awaited(ops) /\ ~(c.live /\ c.op \in ops) => Awaited(ops)'
        /\ c.op # "graph" /\ GraphAsked => GraphAsked'
        /\ \A d : stored'[d] = stored[d] /\ ~Writes(c, d) =>
                     Kept(d) /\ (Pending(d) = {} <=> Pending(d)' = {})
    BY <1>2, <1>3, Answer
  <1>5. /\ stored' \in [Docs -> Value] /\ c.doc \in Shown
        /\ \A d \in Docs : d # c.doc => stored'[d] = stored[d] /\ ~Writes(c, d)
        /\ \A s \in Snapshots : stored'[s] = stored[s]
        /\ c.op \notin ModalOps
    <2>1. CASE stored' = Executed(c)  BY <2>1, <1>1, <1>3, <1>4, PanelExecuted
    <2>2. CASE stored' = stored
      <3>1. c.doc \in Shown /\ c.op \notin ModalOps
        BY <1>3, <1>4 DEF Proper, PanelOps, ModalOps
      <3> QED  BY <2>2, <3>1, <1>1 DEF RestOK, Writes
    <2> QED  BY <2>1, <2>2, <1>3
  <1>6. /\ panel' \in Panel /\ panel'.of = panel.of /\ panel'.editing = panel.editing
        /\ panel'.saving = o /\ panel'.typed = panel.typed /\ panel'.odd = panel.odd
        /\ panel'.input = panel.input
    BY <1>1, <1>2, <1>3 DEF PanelOK, Panel
  <1>7. PanelOK'  BY <1>1, <1>6 DEF PanelOK
  <1>8. c.doc \in Docs /\ \A s \in Snapshots : s \in spoiled' <=> s \in spoiled
    BY <1>3, <1>5, Kinds
  <1>9. RestOK'  BY <1>1, <1>3, <1>4, <1>5, <1>8 DEF RestOK
  <1>10. \A d \in Docs \ spoiled' :
            Kept(d) /\ (Pending(d) = {} <=> Pending(d)' = {}) /\ stored'[d] = stored[d]
    BY <1>3, <1>4, <1>5
  <1>11. AskInv'  BY <1>1, <1>3, <1>10, AskKept
  <1>12. FormInv'
    <2>1. panel.of \notin spoiled' \cup {None} => Kept(panel.of)
      BY <1>1, <1>10, Kinds DEF PanelOK, Panel
    <2> QED  BY <1>1, <1>3, <1>6, <2>1, FormKept
  <1>13. GraphInv'
    <2>1. \A d \in Shown \ spoiled' :
             Pending(d)' # {} \/ (stored'[d] = stored[d] /\ Pending(d) = {})
      BY <1>10, Kinds
    <2>2. GraphAsked => GraphAsked'  BY <1>3, <1>4 DEF PanelOps
    <2> QED  BY <1>1, <1>3, <2>1, <2>2, GraphKept
  <1>14. panel'.saving => Awaited(PanelOps)'
    BY <1>1, <1>2, <1>4, <1>6 DEF DisabledOnlyWhileAwaited
  <1>15. calls[1].op \notin ModalOps  BY <1>4, <1>5
  <1> QED
    BY <1>3, <1>4, <1>5, <1>7, <1>8, <1>9, <1>11, <1>12, <1>13, <1>14, <1>15, PanelStep

-----------------------------------------------------------------------------
(* Answers to the modal.                                                   *)

\* The answer the modal waits for last is to a request of its own.
LEMMA LastIsOwn ==
  ASSUME IInv, 1 \in DOMAIN calls, calls[1].op \in ModalOps, modal.open # None,
         \A i \in Gets : i = 1
  PROVE  calls[1].live /\ calls[1].doc = modal.open
  <1>1. RestOK /\ PromptsInv /\ DisabledOnlyWhileAwaited  BY Parts
  <1>2. Gets \subseteq Nat  BY <1>1, Lengths DEF RestOK, Gets
  <1>3. ASSUME modal.loading PROVE calls[1].live
    <2>1. Awaited({"get"})  BY <1>1, <1>3 DEF DisabledOnlyWhileAwaited
    <2>2. PICK i \in Gets : calls[i].live  BY <2>1 DEF Awaited, Gets
    <2> QED  BY <2>2
  <1>4. ASSUME ~modal.loading PROVE calls[1].live
    BY <1>1, <1>4 DEF PromptsInv, LivesInv
  <1>5. CASE calls[1].op = "get"
    <2>1. 1 \in Gets /\ \A j \in Gets : j <= 1  BY <1>2, <1>5 DEF Gets
    <2> QED  BY <1>1, <1>3, <1>4, <2>1 DEF PromptsInv, OrderInv
  <1>6. CASE calls[1].op # "get"
    <2>1. 1 \in PromptWrites  BY <1>6 DEF PromptWrites, ModalOps
    <2>2. Gets = {}  BY <1>6 DEF Gets
    <2> QED  BY <1>1, <1>3, <1>4, <2>1, <2>2 DEF PromptsInv, OrderInv
  <1> QED  BY <1>5, <1>6

\* They leave the form alone.  What the modal shows is shown in each case.
LEMMA ModalAnswered ==
  ASSUME IInv, calls # <<>>, calls' = Tail(calls), calls[1].op \in ModalOps,
         RestOK', UNCHANGED <<graph, broken, panel, asked, moved>>,
         spoiled \subseteq spoiled',
         \A d \in Docs \ spoiled' : Once(d) => Kept(d),
         \A d \in Shown : stored'[d] = stored[d],
         SnapshotsInv', ModalInv',
         modal'.open = modal.open,
         ~modal'.loading => ~modal.loading \/ calls[1].live,
         modal'.loading => modal.loading /\ ~(calls[1].live /\ calls[1].op = "get"),
         ~modal'.saving => ~modal.saving \/ calls[1].op \in {"prompt", "reset"},
         modal'.saving =>
            modal.saving /\ ~(calls[1].live /\ calls[1].op \in {"prompt", "reset"})
  PROVE  IInv'
  <1>1. /\ PanelOK /\ RestOK /\ FormInv /\ AskInv /\ GraphInv /\ PromptsInv
        /\ DisabledOnlyWhileAwaited
    BY Parts
  <1>2. /\ calls' \in Seq(Request) /\ Drops(1) /\ CallsInv' /\ Moved(1, {})
        /\ 1 \in DOMAIN calls /\ Proper(calls[1])
        /\ \A ops : Awaited(ops) /\ ~(calls[1].live /\ calls[1].op \in ops) => Awaited(ops)'
        /\ calls[1].op # "graph" /\ GraphAsked => GraphAsked'
        /\ \A d : stored'[d] = stored[d] /\ ~Writes(calls[1], d) =>
                     Kept(d) /\ (Pending(d) = {} <=> Pending(d)' = {})
    BY Answer
  <1>3. calls \in Seq(Request)  BY <1>1 DEF RestOK
  <1>4. AskInv'  BY <1>1, AskKept
  <1>5. \A d \in Shown : Kept(d) /\ (Pending(d) = {} <=> Pending(d)' = {})
    BY <1>2, Kinds DEF Writes, Proper
  <1>6. FormInv' /\ PanelOK'
    <2>1. panel.of # None => Kept(panel.of)  BY <1>1, <1>5 DEF PanelOK, Panel
    <2> QED  BY <1>1, <2>1, FormKept DEF PanelOK
  <1>7. GraphInv'
    <2>1. \A d \in Shown \ spoiled' :
             Pending(d)' # {} \/ (stored'[d] = stored[d] /\ Pending(d) = {})
      BY <1>5
    <2>2. GraphAsked => GraphAsked'  BY <1>2 DEF ModalOps
    <2> QED  BY <1>1, <2>1, <2>2, GraphKept
  <1>8. DisabledOnlyWhileAwaited'
    <2>1. panel'.saving => Awaited(PanelOps)'
      <3>1. calls[1].op \notin PanelOps  BY DEF PanelOps, ModalOps
      <3> QED  BY <1>1, <1>2, <3>1 DEF DisabledOnlyWhileAwaited
    <2>2. modal'.saving => Awaited({"prompt", "reset"})'
      BY <1>1, <1>2 DEF DisabledOnlyWhileAwaited
    <2>3. modal'.open # None /\ modal'.loading => Awaited({"get"})'
      BY <1>1, <1>2 DEF DisabledOnlyWhileAwaited
    <2> QED  BY <2>1, <2>2, <2>3 DEF DisabledOnlyWhileAwaited
  <1>9. {} \cap ModalOps = {}  OBVIOUS
  <1>10. OrderInv'  BY <1>1, <1>2, <1>3, <1>9, OrderShift DEF PromptsInv
  <1>11. LivesInv'
    <2>1. /\ \A i, j \in DOMAIN calls' :
               i < j /\ {calls'[i].op, calls'[j].op} \subseteq ModalOps /\ calls'[i].live
               => calls'[j].live
          /\ ~modal.loading => \A i \in DOMAIN calls' : calls'[i].op \in ModalOps => calls'[i].live
          /\ ~modal.saving => \A i \in PromptWrites' : ~calls'[i].live
          /\ \A i, j \in PromptWrites' : i = j
      BY <1>1, <1>2, <1>3, <1>9, LivesShift DEF PromptsInv
    <2>2. /\ \A i \in DOMAIN calls' : calls'[i].op \in ModalOps =>
               i + 1 \in DOMAIN calls /\ calls'[i] = calls[i + 1]
          /\ DOMAIN calls' \subseteq Nat \ {0}
      BY <1>2, <1>3, <1>9, ModalShift
    <2>3. ASSUME calls[1].live, NEW i \in DOMAIN calls', calls'[i].op \in ModalOps
          PROVE  calls'[i].live
      <3>1. i + 1 \in DOMAIN calls /\ calls'[i] = calls[i + 1] /\ 1 < i + 1  BY <2>2, <2>3
      <3> QED  BY <1>1, <1>2, <2>3, <3>1 DEF PromptsInv, LivesInv
    <2>4. ASSUME calls[1].op \in {"prompt", "reset"}, NEW i \in PromptWrites' PROVE FALSE
      <3>1. i + 1 \in PromptWrites /\ i \in Nat \ {0}
        BY <2>2 DEF PromptWrites, ModalOps
      <3>2. 1 \in PromptWrites  BY <1>2, <2>4 DEF PromptWrites
      <3>3. i + 1 = 1  BY <1>1, <3>1, <3>2 DEF PromptsInv, LivesInv
      <3> QED  BY <3>1, <3>3
    <2>5. ~modal'.loading =>
             \A i \in DOMAIN calls' : calls'[i].op \in ModalOps => calls'[i].live
      BY <2>1, <2>3
    <2>6. ~modal'.saving => \A i \in PromptWrites' : ~calls'[i].live
      BY <2>1, <2>4
    <2> QED  BY <2>1, <2>5, <2>6 DEF LivesInv
  <1>12. PromptsInv'  BY <1>10, <1>11 DEF PromptsInv
  <1> QED  BY <1>2, <1>4, <1>6, <1>7, <1>8, <1>12, PartsNext

\* What a request of the modal does when it is carried out.
LEMMA ModalExecuted ==
  ASSUME RestOK, NEW c \in Request, Proper(c), c.op \in ModalOps, stored' = Executed(c)
  PROVE  /\ stored' \in [Docs -> Value] /\ c.doc \in Snapshots
         /\ c.op = "get" => stored' = stored
         /\ \A d \in Docs : d # c.doc => stored'[d] = stored[d] /\ ~Writes(c, d)
         /\ c.op = "prompt" =>
               /\ Writes(c, c.doc)
               /\ stored'[c.doc].label = stored[c.doc].label
               /\ stored'[c.doc].dir = stored[c.doc].dir
               /\ stored'[c.doc].text = c.val.text
         /\ c.op = "reset" => Writes(c, c.doc) /\ stored'[c.doc] = Blank(c.doc)
  <1>1. c.doc \in Snapshots /\ c.doc \in Docs  BY Kinds DEF Proper
  <1>2. /\ \A d : d # c.doc => ~Writes(c, d)
        /\ c.op \in {"prompt", "reset"} => Writes(c, c.doc)
    BY DEF Writes, Writing
  <1>3. /\ stored' \in [Docs -> Value]
        /\ \A d \in Docs : ~Writes(c, d) => stored'[d] = stored[d]
        /\ \A d \in Docs : Writes(c, d) =>
               /\ c.op # "reset" => stored'[d].label = LabelOf(c, stored[d])
               /\ c.op # "reset" => stored'[d].dir = DirOf(c, stored[d])
               /\ c.op # "update" => stored'[d].text = c.val.text
               /\ c.op = "reset" => stored'[d] = Blank(d)
    BY ExecutedIs DEF RestOK
  <1>4. c.op = "get" => stored' = stored  BY DEF Executed
  <1>5. c.op = "prompt" =>
           /\ LabelOf(c, stored[c.doc]) = stored[c.doc].label
           /\ DirOf(c, stored[c.doc]) = stored[c.doc].dir
    BY DEF LabelOf, DirOf
  <1> QED  BY <1>1, <1>2, <1>3, <1>4, <1>5

LEMMA GetsLeft ==
  ASSUME calls \in Seq(Request), calls # <<>>, calls' = Tail(calls)
  PROVE  /\ Gets' = {} => \A i \in Gets : i = 1
         /\ \A i \in PromptWrites' :
               i + 1 \in PromptWrites /\ calls'[i] = calls[i + 1] /\ 1 < i + 1
  <1>1. /\ calls' \in Seq(Request) /\ Drops(1) /\ Moved(1, {}) /\ {} \cap ModalOps = {}
    BY TailDrops
  <1>2. /\ Gets \subseteq Nat \ {0} /\ PromptWrites' \subseteq Nat \ {0}
        /\ \A i \in PromptWrites' : i + 1 \in PromptWrites /\ calls'[i] = calls[i + 1]
        /\ \A i \in Gets : i > 1 => i - 1 \in Gets'
    BY <1>1, PromptShift
  <1>3. ASSUME Gets' = {}, NEW i \in Gets PROVE i = 1
    <2>1. i \in Nat \ {0} /\ ~(i > 1)  BY <1>2, <1>3
    <2> QED  BY <2>1
  <1>4. ASSUME NEW i \in PromptWrites'
        PROVE  i + 1 \in PromptWrites /\ calls'[i] = calls[i + 1] /\ 1 < i + 1
    <2>1. i \in Nat \ {0}  BY <1>2, <1>4
    <2>2. 1 < i + 1  BY <2>1
    <2> QED  BY <1>2, <1>4, <2>2
  <1> QED  BY <1>3, <1>4

LEMMA GotPromptStep == IInv /\ GotPrompt => IInv'
  <1> SUFFICES ASSUME IInv, GotPrompt PROVE IInv'  OBVIOUS
  <1>1. RestOK /\ PromptsInv  BY Parts
  <1>2. PICK c, text : c = Head(calls) /\ text = stored[c.doc].text  OBVIOUS
  <1>3. PICK custom : custom = (text # <<c.doc, 0>>)  OBVIOUS
  <1>4. /\ calls # <<>> /\ c.op = "get" /\ stored' = Executed(c) /\ calls' = Tail(calls)
        /\ modal' = IF c.live
                    THEN [modal EXCEPT !.prompt = text, !.original = text, !.loading = FALSE,
                                       !.custom = custom, !.odd = FALSE]
                    ELSE modal
        /\ UNCHANGED <<graph, broken, panel, asked, moved, spoiled, steps, fails>>
    BY <1>2, <1>3 DEF GotPrompt, Answered, history
  <1>5. /\ calls' \in Seq(Request) /\ c = calls[1] /\ 1 \in DOMAIN calls
        /\ c \in Request /\ Proper(c) /\ c.op \in ModalOps
        /\ \A d : stored'[d] = stored[d] /\ ~Writes(calls[1], d) => Kept(d)
    BY <1>2, <1>4, Answer DEF ModalOps
  <1>6. stored' = stored /\ c.doc \in Docs
    BY <1>1, <1>4, <1>5, ModalExecuted, Kinds
  <1>7. \A d : Kept(d)
    BY <1>4, <1>5, <1>6 DEF Writes, Writing, PanelOps
  <1>8. text \in Texts /\ custom \in BOOLEAN /\ modal \in Modal
    BY <1>1, <1>2, <1>3, <1>6 DEF RestOK, Value
  <1>9. c.live => /\ modal' \in Modal /\ modal'.open = modal.open /\ modal'.prompt = text
                  /\ modal'.original = text /\ modal'.loading = FALSE
                  /\ modal'.custom = custom /\ modal'.saving = modal.saving
    BY <1>4, <1>8 DEF Modal
  <1>10. /\ modal' \in Modal /\ modal'.open = modal.open /\ modal'.saving = modal.saving
         /\ c.live => modal'.loading = FALSE
         /\ ~c.live => modal' = modal
    BY <1>4, <1>8, <1>9
  <1>11. RestOK'  BY <1>1, <1>4, <1>5, <1>6, <1>10 DEF RestOK
  <1>12. SnapshotsInv'  BY <1>1, <1>4, <1>6 DEF PromptsInv, SnapshotsInv
  <1>13. calls \in Seq(Request)  BY <1>1 DEF RestOK
  <1>14. ModalInv'
    <2> SUFFICES ASSUME modal.open \notin spoiled \cup {None}, Gets' = {}
                 PROVE  /\ modal'.prompt[1] = modal.open
                        /\ modal'.original = stored[modal.open].text
                        /\ modal'.custom <=> modal'.original # <<modal.open, 0>>
                        /\ modal'.prompt = modal'.original
                        /\ \A i \in PromptWrites' : calls'[i].op # "prompt"
      BY <1>4, <1>6, <1>10 DEF ModalInv
    <2>1. \A i \in Gets : i = 1  BY <1>4, <1>13, GetsLeft
    <2>2. c.live /\ c.doc = modal.open  BY <1>5, <2>1, LastIsOwn
    <2>3. modal.open \in Snapshots  BY <1>8 DEF Modal
    <2>4. text[1] = modal.open
      BY <1>1, <1>2, <2>2, <2>3 DEF PromptsInv, SnapshotsInv
    <2>5. ASSUME NEW i \in PromptWrites', calls'[i].op = "prompt" PROVE FALSE
      <3>1. i + 1 \in PromptWrites /\ calls'[i] = calls[i + 1] /\ 1 < i + 1
        BY <1>4, <1>13, GetsLeft
      <3>2. 1 \in Gets  BY <1>4, <1>5 DEF Gets
      <3>3. calls[i + 1].doc \in spoiled
        BY <1>1, <2>5, <3>1, <3>2 DEF PromptsInv, OrderInv
      <3>4. calls[i + 1].doc = modal.open
        BY <1>1, <2>1, <3>1 DEF PromptsInv, OrderInv
      <3> QED  BY <3>3, <3>4
    <2> QED  BY <1>2, <1>3, <1>9, <2>2, <2>4, <2>5
  <1>15. modal.loading \in BOOLEAN /\ modal.saving \in BOOLEAN  BY <1>8 DEF Modal
  <1>16. /\ ~modal'.loading => ~modal.loading \/ calls[1].live
         /\ modal'.loading => modal.loading /\ ~(calls[1].live /\ calls[1].op = "get")
         /\ ~modal'.saving => ~modal.saving \/ calls[1].op \in {"prompt", "reset"}
         /\ modal'.saving =>
               modal.saving /\ ~(calls[1].live /\ calls[1].op \in {"prompt", "reset"})
    BY <1>4, <1>5, <1>10
  <1> QED
    BY <1>4, <1>5, <1>6, <1>7, <1>10, <1>11, <1>12, <1>14, <1>16, ModalAnswered

LEMMA PromptSavedStep == IInv /\ PromptSaved => IInv'
  <1> SUFFICES ASSUME IInv, PromptSaved PROVE IInv'  OBVIOUS
  <1>1. RestOK /\ PromptsInv /\ AskInv  BY Parts
  <1>2. PICK c : c = Head(calls)  OBVIOUS
  <1>3. /\ calls # <<>> /\ c.op = "prompt" /\ stored' = Executed(c) /\ calls' = Tail(calls)
        /\ modal' = IF c.live
                    THEN [modal EXCEPT !.original = c.val.text, !.custom = TRUE,
                                       !.saving = FALSE]
                    ELSE modal
        /\ UNCHANGED <<graph, broken, panel, asked, moved, spoiled, steps, fails>>
    BY <1>2 DEF PromptSaved, Answered, history
  <1>4. /\ calls' \in Seq(Request) /\ Drops(1) /\ c = calls[1] /\ 1 \in DOMAIN calls
        /\ c \in Request /\ Proper(c) /\ c.op \in ModalOps
        /\ \A d : stored'[d] = stored[d] /\ ~Writes(calls[1], d) => Kept(d)
    BY <1>2, <1>3, Answer DEF ModalOps
  <1>5. calls \in Seq(Request) /\ modal \in Modal /\ c.val.text \in Texts
    BY <1>1, <1>4 DEF RestOK, Request, Value
  <1>6. /\ stored' \in [Docs -> Value] /\ c.doc \in Snapshots /\ c.doc \in Docs
        /\ \A d \in Docs : d # c.doc => stored'[d] = stored[d] /\ ~Writes(c, d)
        /\ Writes(c, c.doc)
        /\ stored'[c.doc].label = stored[c.doc].label
        /\ stored'[c.doc].dir = stored[c.doc].dir
        /\ stored'[c.doc].text = c.val.text
    BY <1>1, <1>3, <1>4, ModalExecuted, Kinds
  <1>7. LabelOf(c, stored[c.doc]) = stored[c.doc].label
        /\ DirOf(c, stored[c.doc]) = stored[c.doc].dir
    BY <1>3 DEF LabelOf, DirOf
  <1>8. ASSUME NEW d \in Docs, Once(d) PROVE Kept(d)
    <2>1. CASE d # c.doc  BY <2>1, <1>4, <1>6
    <2>2. CASE d = c.doc
      BY <2>2, <1>4, <1>5, <1>6, <1>7, <1>8, CarriedOut
    <2> QED  BY <2>1, <2>2
  <1>9. /\ modal' \in Modal /\ modal'.open = modal.open /\ modal'.loading = modal.loading
        /\ modal'.prompt = modal.prompt /\ modal'.odd = modal.odd
        /\ c.live => /\ modal'.original = c.val.text /\ modal'.custom = TRUE
                     /\ modal'.saving = FALSE
        /\ ~c.live => modal'.saving = modal.saving
    BY <1>3, <1>5 DEF Modal
  <1>10. RestOK'  BY <1>1, <1>3, <1>4, <1>6, <1>9 DEF RestOK
  <1>11. 1 \in Pending(c.doc) /\ 1 \in PromptWrites
    BY <1>3, <1>4 DEF Pending, Writing, PromptWrites
  <1>12. SnapshotsInv'
    <2>1. c.doc \notin spoiled => stored'[c.doc].text[1] = c.doc
      <3>1. c.doc \notin spoiled => c.val.text = asked[c.doc].text
        BY <1>1, <1>4, <1>6, <1>11 DEF AskInv, Ask, TextBecomes
      <3> QED  BY <1>1, <1>6, <3>1 DEF PromptsInv, SnapshotsInv
    <2> SUFFICES ASSUME NEW s \in Snapshots
                 PROVE  /\ stored'[s].label = FirstLabel /\ asked[s].label = FirstLabel
                        /\ stored'[s].dir = <<>> /\ asked[s].dir = <<>>
                        /\ asked[s].text[1] = s
                        /\ s \notin spoiled => stored'[s].text[1] = s
      BY <1>3 DEF SnapshotsInv
    <2>2. /\ stored[s].label = FirstLabel /\ asked[s].label = FirstLabel
          /\ stored[s].dir = <<>> /\ asked[s].dir = <<>>
          /\ asked[s].text[1] = s
          /\ s \notin spoiled => stored[s].text[1] = s
      BY <1>1 DEF PromptsInv, SnapshotsInv
    <2>3. CASE s = c.doc  BY <2>1, <2>2, <2>3, <1>6
    <2>4. CASE s # c.doc  BY <2>2, <2>4, <1>6, Kinds
    <2> QED  BY <2>3, <2>4
  <1>13. ModalInv'
    <2> SUFFICES ASSUME modal.open \notin spoiled \cup {None}, Gets' = {}, ~modal.odd
                 PROVE  /\ modal.prompt[1] = modal.open
                        /\ modal'.original = stored'[modal.open].text
                        /\ modal'.custom <=> modal'.original # <<modal.open, 0>>
                        /\ modal.prompt[2] # 0
                        /\ PromptWrites' = {}
      BY <1>3, <1>9 DEF ModalInv
    <2>1. \A i \in Gets : i = 1  BY <1>3, <1>5, GetsLeft
    <2>2. c.live /\ c.doc = modal.open  BY <1>4, <2>1, LastIsOwn
    <2>3. Gets = {}  BY <1>3, <1>4, <2>1 DEF Gets
    <2>4. /\ modal.prompt[1] = modal.open /\ c.val.text[2] # 0 /\ modal.prompt[2] # 0
      BY <1>1, <1>3, <1>4, <1>11, <2>3 DEF PromptsInv, ModalInv
    <2>5. c.val.text # <<modal.open, 0>>  BY <2>4
    <2>6. ASSUME NEW i \in PromptWrites' PROVE FALSE
      <3>1. i + 1 \in PromptWrites /\ 1 < i + 1  BY <1>3, <1>5, GetsLeft
      <3>2. i + 1 = 1  BY <1>1, <1>11, <3>1 DEF PromptsInv, LivesInv
      <3> QED  BY <3>1, <3>2
    <2> QED  BY <1>6, <1>9, <2>2, <2>4, <2>5, <2>6
  <1>14. \A d \in Shown : stored'[d] = stored[d]  BY <1>6, Kinds
  <1>15. /\ ~modal'.loading => ~modal.loading \/ calls[1].live
         /\ modal'.loading => modal.loading /\ ~(calls[1].live /\ calls[1].op = "get")
         /\ ~modal'.saving => ~modal.saving \/ calls[1].op \in {"prompt", "reset"}
         /\ modal'.saving =>
               modal.saving /\ ~(calls[1].live /\ calls[1].op \in {"prompt", "reset"})
    BY <1>3, <1>4, <1>9
  <1> QED
    BY <1>3, <1>4, <1>8, <1>9, <1>10, <1>12, <1>13, <1>14, <1>15, ModalAnswered

LEMMA PromptResetStep == IInv /\ PromptReset => IInv'
  <1> SUFFICES ASSUME IInv, PromptReset PROVE IInv'  OBVIOUS
  <1>1. RestOK /\ PromptsInv /\ AskInv  BY Parts
  <1>2. PICK c, text : c = Head(calls) /\ text = <<c.doc, 0>>  OBVIOUS
  <1>3. /\ calls # <<>> /\ c.op = "reset" /\ stored' = Executed(c) /\ calls' = Tail(calls)
        /\ modal' = IF c.live
                    THEN [modal EXCEPT !.prompt = text, !.original = text,
                                       !.custom = FALSE, !.saving = FALSE]
                    ELSE modal
        /\ UNCHANGED <<graph, broken, panel, asked, moved, spoiled, steps, fails>>
    BY <1>2 DEF PromptReset, Answered, history
  <1>4. /\ calls' \in Seq(Request) /\ Drops(1) /\ c = calls[1] /\ 1 \in DOMAIN calls
        /\ c \in Request /\ Proper(c) /\ c.op \in ModalOps
        /\ \A d : stored'[d] = stored[d] /\ ~Writes(calls[1], d) => Kept(d)
    BY <1>2, <1>3, Answer DEF ModalOps
  <1>5. calls \in Seq(Request) /\ modal \in Modal  BY <1>1 DEF RestOK
  <1>6. /\ stored' \in [Docs -> Value] /\ c.doc \in Snapshots /\ c.doc \in Docs
        /\ \A d \in Docs : d # c.doc => stored'[d] = stored[d] /\ ~Writes(c, d)
        /\ Writes(c, c.doc) /\ stored'[c.doc] = Blank(c.doc)
    BY <1>1, <1>3, <1>4, ModalExecuted, Kinds
  <1>7. /\ Blank(c.doc).text = text /\ Blank(c.doc).label = FirstLabel
        /\ Blank(c.doc).dir = <<>> /\ text \in Texts /\ text[1] = c.doc /\ c.val = Blank(c.doc)
    BY <1>2, <1>3, <1>4, <1>6 DEF Blank, Texts, Proper
  <1>8. /\ LabelOf(c, stored[c.doc]) = FirstLabel /\ DirOf(c, stored[c.doc]) = <<>>
    BY <1>1, <1>3, <1>6 DEF LabelOf, DirOf, PromptsInv, SnapshotsInv
  <1>9. ASSUME NEW d \in Docs, Once(d) PROVE Kept(d)
    <2>1. CASE d # c.doc  BY <2>1, <1>4, <1>6
    <2>2. CASE d = c.doc
      BY <2>2, <1>4, <1>5, <1>6, <1>7, <1>8, <1>9, CarriedOut
    <2> QED  BY <2>1, <2>2
  <1>10. /\ modal' \in Modal /\ modal'.open = modal.open /\ modal'.loading = modal.loading
         /\ modal'.odd = modal.odd
         /\ c.live => /\ modal'.prompt = text /\ modal'.original = text
                      /\ modal'.custom = FALSE /\ modal'.saving = FALSE
         /\ ~c.live => modal'.saving = modal.saving
    BY <1>3, <1>5, <1>7 DEF Modal
  <1>11. RestOK'  BY <1>1, <1>3, <1>4, <1>6, <1>10 DEF RestOK
  <1>12. 1 \in PromptWrites  BY <1>3, <1>4 DEF PromptWrites
  <1>13. SnapshotsInv'
    <2> SUFFICES ASSUME NEW s \in Snapshots
                 PROVE  /\ stored'[s].label = FirstLabel /\ asked[s].label = FirstLabel
                        /\ stored'[s].dir = <<>> /\ asked[s].dir = <<>>
                        /\ asked[s].text[1] = s
                        /\ s \notin spoiled => stored'[s].text[1] = s
      BY <1>3 DEF SnapshotsInv
    <2>1. /\ stored[s].label = FirstLabel /\ asked[s].label = FirstLabel
          /\ stored[s].dir = <<>> /\ asked[s].dir = <<>>
          /\ asked[s].text[1] = s
          /\ s \notin spoiled => stored[s].text[1] = s
      BY <1>1 DEF PromptsInv, SnapshotsInv
    <2>2. CASE s = c.doc  BY <2>1, <2>2, <1>6, <1>7
    <2>3. CASE s # c.doc  BY <2>1, <2>3, <1>6, Kinds
    <2> QED  BY <2>2, <2>3
  <1>14. ModalInv'
    <2> SUFFICES ASSUME modal.open \notin spoiled \cup {None}, Gets' = {}
                 PROVE  /\ modal'.prompt[1] = modal.open
                        /\ modal'.original = stored'[modal.open].text
                        /\ modal'.custom <=> modal'.original # <<modal.open, 0>>
                        /\ modal'.prompt = modal'.original
                        /\ PromptWrites' = {}
      BY <1>3, <1>10 DEF ModalInv
    <2>1. \A i \in Gets : i = 1  BY <1>3, <1>5, GetsLeft
    <2>2. c.live /\ c.doc = modal.open  BY <1>4, <2>1, LastIsOwn
    <2>3. ASSUME NEW i \in PromptWrites' PROVE FALSE
      <3>1. i + 1 \in PromptWrites /\ 1 < i + 1  BY <1>3, <1>5, GetsLeft
      <3>2. i + 1 = 1  BY <1>1, <1>12, <3>1 DEF PromptsInv, LivesInv
      <3> QED  BY <3>1, <3>2
    <2> QED  BY <1>2, <1>6, <1>7, <1>10, <2>2, <2>3
  <1>15. \A d \in Shown : stored'[d] = stored[d]  BY <1>6, Kinds
  <1>16. /\ ~modal'.loading => ~modal.loading \/ calls[1].live
         /\ modal'.loading => modal.loading /\ ~(calls[1].live /\ calls[1].op = "get")
         /\ ~modal'.saving => ~modal.saving \/ calls[1].op \in {"prompt", "reset"}
         /\ modal'.saving =>
               modal.saving /\ ~(calls[1].live /\ calls[1].op \in {"prompt", "reset"})
    BY <1>3, <1>4, <1>10
  <1> QED
    BY <1>3, <1>4, <1>9, <1>10, <1>11, <1>13, <1>14, <1>15, <1>16, ModalAnswered

LEMMA PromptFailsStep == IInv /\ PromptFails => IInv'
  <1> SUFFICES ASSUME IInv, PromptFails PROVE IInv'  OBVIOUS
  <1>1. RestOK /\ PromptsInv /\ AskInv  BY Parts
  <1>2. PICK c : c = Head(calls)  OBVIOUS
  <1>3. /\ calls # <<>> /\ c.op \in ModalOps /\ stored' \in {stored, Executed(c)}
        /\ calls' = Tail(calls)
        /\ modal' = IF ~c.live THEN modal
                    ELSE IF c.op = "get" THEN [modal EXCEPT !.loading = FALSE, !.odd = TRUE]
                    ELSE [modal EXCEPT !.saving = FALSE]
        /\ spoiled' = IF c.op = "get" THEN spoiled ELSE spoiled \cup {c.doc}
        /\ UNCHANGED <<graph, broken, panel, asked, moved, steps>>
        /\ fails' \in 0..MaxFails
    BY <1>1, <1>2, EditorAssumption DEF PromptFails, Failed, RestOK
  <1>4. /\ calls' \in Seq(Request) /\ c = calls[1] /\ 1 \in DOMAIN calls
        /\ c \in Request /\ Proper(c)
        /\ \A d : stored'[d] = stored[d] /\ ~Writes(calls[1], d) => Kept(d)
    BY <1>2, <1>3, Answer
  <1>5. calls \in Seq(Request) /\ modal \in Modal  BY <1>1 DEF RestOK
  <1>6. /\ stored' \in [Docs -> Value] /\ c.doc \in Snapshots /\ c.doc \in Docs
        /\ c.op = "get" => stored' = stored
        /\ \A d \in Docs : d # c.doc => stored'[d] = stored[d] /\ ~Writes(c, d)
        /\ stored'[c.doc].label = FirstLabel /\ stored'[c.doc].dir = <<>>
    <2>1. /\ stored[c.doc].label = FirstLabel /\ stored[c.doc].dir = <<>>
          /\ c.doc \in Snapshots
      BY <1>1, <1>3, <1>4 DEF PromptsInv, SnapshotsInv, Proper
    <2>2. CASE stored' = Executed(c)
      <3>1. /\ stored' \in [Docs -> Value]
            /\ c.op = "get" => stored' = stored
            /\ \A d \in Docs : d # c.doc => stored'[d] = stored[d] /\ ~Writes(c, d)
            /\ c.op = "prompt" => stored'[c.doc].label = stored[c.doc].label
                                  /\ stored'[c.doc].dir = stored[c.doc].dir
            /\ c.op = "reset" => stored'[c.doc] = Blank(c.doc)
        BY <1>1, <1>3, <1>4, <2>2, ModalExecuted
      <3>2. Blank(c.doc).label = FirstLabel /\ Blank(c.doc).dir = <<>>  BY DEF Blank
      <3> QED  BY <1>3, <2>1, <3>1, <3>2, Kinds DEF ModalOps
    <2>3. CASE stored' = stored  BY <1>1, <2>1, <2>3, Kinds DEF RestOK, Writes
    <2> QED  BY <1>3, <2>2, <2>3
  <1>7. spoiled \subseteq spoiled' /\ spoiled' \subseteq spoiled \cup {c.doc}
        /\ (c.op # "get" => c.doc \in spoiled')
    BY <1>3
  <1>8. ASSUME NEW d \in Docs \ spoiled' PROVE Kept(d) /\ stored'[d] = stored[d]
    <2>1. CASE c.op = "get"
      BY <1>4, <1>6, <2>1 DEF Writes, Writing, PanelOps
    <2>2. CASE c.op # "get"  BY <1>4, <1>6, <1>7, <1>8, <2>2
    <2> QED  BY <2>1, <2>2
  <1>9. /\ modal' \in Modal /\ modal'.open = modal.open /\ modal'.prompt = modal.prompt
        /\ ~c.live => modal' = modal
        /\ c.live /\ c.op = "get" =>
              modal'.loading = FALSE /\ modal'.odd = TRUE /\ modal'.saving = modal.saving
        /\ c.live /\ c.op # "get" => modal'.loading = modal.loading /\ modal'.saving = FALSE
    BY <1>3, <1>5 DEF Modal
  <1>10. RestOK'  BY <1>1, <1>3, <1>4, <1>6, <1>7, <1>9 DEF RestOK
  <1>11. SnapshotsInv'
    <2> SUFFICES ASSUME NEW s \in Snapshots
                 PROVE  /\ stored'[s].label = FirstLabel /\ asked[s].label = FirstLabel
                        /\ stored'[s].dir = <<>> /\ asked[s].dir = <<>>
                        /\ asked[s].text[1] = s
                        /\ s \notin spoiled' => stored'[s].text[1] = s
      BY <1>3 DEF SnapshotsInv
    <2>1. /\ stored[s].label = FirstLabel /\ asked[s].label = FirstLabel
          /\ stored[s].dir = <<>> /\ asked[s].dir = <<>>
          /\ asked[s].text[1] = s
          /\ s \notin spoiled => stored[s].text[1] = s
      BY <1>1 DEF PromptsInv, SnapshotsInv
    <2>2. s \in Docs  BY Kinds
    <2>3. s # c.doc => stored'[s] = stored[s]  BY <1>6, <2>2
    <2>4. s \notin spoiled' => stored'[s] = stored[s] /\ s \notin spoiled
      BY <1>7, <1>8, <2>2
    <2> QED  BY <1>6, <2>1, <2>3, <2>4
  \* The last answer of the modal fails: then it shows nothing of its own, or the
  \* snapshot is spoiled.
  <1>12. ModalInv'
    <2> SUFFICES ASSUME modal.open \notin spoiled' \cup {None}, Gets' = {}, ~modal'.odd
                 PROVE  FALSE
      BY <1>9 DEF ModalInv
    <2>1. \A i \in Gets : i = 1  BY <1>3, <1>5, GetsLeft
    <2>2. c.live /\ c.doc = modal.open  BY <1>3, <1>4, <2>1, LastIsOwn
    <2> QED  BY <1>7, <1>9, <2>2
  <1>13. \A d \in Shown : stored'[d] = stored[d]  BY <1>6, Kinds
  <1>14. /\ ~modal'.loading => ~modal.loading \/ calls[1].live
         /\ modal'.loading => modal.loading /\ ~(calls[1].live /\ calls[1].op = "get")
         /\ ~modal'.saving => ~modal.saving \/ calls[1].op \in {"prompt", "reset"}
         /\ modal'.saving =>
               modal.saving /\ ~(calls[1].live /\ calls[1].op \in {"prompt", "reset"})
    BY <1>3, <1>4, <1>9 DEF ModalOps
  <1> QED
    BY <1>3, <1>4, <1>7, <1>8, <1>9, <1>10, <1>11, <1>12, <1>13, <1>14, ModalAnswered

\* The error page: both forms are gone, and what they asked for is nobody's.
LEMMA GraphFailsStep == IInv /\ GraphFails => IInv'
  <1> SUFFICES ASSUME IInv, GraphFails PROVE IInv'  OBVIOUS
  <1>1. RestOK /\ PanelOK /\ CallsInv /\ PromptsInv /\ AskInv  BY Parts
  <1> DEFINE ops == PanelOps \cup ModalOps
  <1>2. /\ calls # <<>> /\ Head(calls).op = "graph"
        /\ stored' \in {stored, Executed(Head(calls))}
        /\ calls' = Forgotten(Tail(calls), ops)
        /\ broken' = TRUE /\ panel' = [NoPanel EXCEPT !.of = panel.of] /\ modal' = NoModal
        /\ UNCHANGED <<graph, asked, moved, spoiled, steps>>
        /\ fails' \in 0..MaxFails
    BY <1>1, EditorAssumption DEF GraphFails, Failed, RestOK
  <1>3. stored' = stored  BY <1>2 DEF Executed
  <1>4. calls \in Seq(Request)  BY <1>1 DEF RestOK
  <1>5. /\ Drops(1) /\ calls' \in Seq(Request)
        /\ \A i \in 1 .. Len(calls') : calls'[i].op \in ops => ~calls'[i].live
        /\ calls[1].op = "graph"
    BY <1>2, <1>4, ForgetTail
  <1>6. DOMAIN calls' = 1 .. Len(calls') /\ Len(calls') \in Nat  BY <1>5, LenProperties
  <1>7. \A i \in DOMAIN calls' : calls'[i].op \in ops => ~calls'[i].live
    BY <1>5, <1>6
  <1>8. /\ Len(calls) \in Nat /\ DOMAIN calls = 1 .. Len(calls)
        /\ 1 <= Len(calls) /\ Len(calls') = Len(calls) - 1
        /\ \A i \in 1 .. (Len(calls) - 1) : Alike(calls'[i], calls[i + 1])
    BY <1>4, <1>5, Lengths DEF Drops, Left
  <1>9. \A i \in DOMAIN calls' : i + 1 \in DOMAIN calls /\ Alike(calls'[i], calls[i + 1])
    BY <1>6, <1>8
  <1>10. /\ PanelOK' /\ panel'.saving = FALSE
    <2>1. panel.of \in Shown \cup {None}  BY <1>1 DEF PanelOK, Panel
    <2>2. /\ panel' \in Panel /\ panel'.typed = {} /\ panel'.saving = FALSE
          /\ panel'.editing = FALSE
      BY <1>2, <2>1, NoPanelTyped DEF Panel, NoPanel
    <2> QED  BY <2>2 DEF PanelOK
  <1>11. RestOK'
    BY <1>1, <1>2, <1>3, <1>5, NoPanelTyped DEF RestOK
  <1>12. CallsInv'  BY <1>1, <1>4, <1>5, ProperKept
  <1>13. /\ modal'.open = None /\ modal'.saving = FALSE /\ modal'.loading = TRUE
    BY <1>2, NoPanelTyped
  <1>14. DisabledOnlyWhileAwaited'  BY <1>10, <1>13 DEF DisabledOnlyWhileAwaited
  <1>15. \A d : Kept(d)
    <2>1. ~Writing(calls[1].op)  BY <1>5 DEF Writing, PanelOps
    <2> QED  BY <1>1, <1>3, <1>5, <2>1, NoneWritten
  <1>16. AskInv'  BY <1>1, <1>2, <1>15, AskKept
  <1>17. FormInv' /\ GraphInv'  BY <1>2 DEF FormInv, GraphInv
  <1>18. SnapshotsInv'  BY <1>1, <1>2, <1>3 DEF PromptsInv, SnapshotsInv
  <1>19. /\ \A i \in PromptWrites' :
               i \in DOMAIN calls' /\ i + 1 \in PromptWrites
               /\ calls'[i].op = calls[i + 1].op /\ calls'[i].doc = calls[i + 1].doc
         /\ \A i \in Gets' : i \in DOMAIN calls' /\ i + 1 \in Gets
    BY <1>9 DEF PromptWrites, Gets, Alike
  <1>20. LivesInv'
    <2>1. \A i \in PromptWrites' : ~calls'[i].live
      BY <1>7, <1>19 DEF PromptWrites, ModalOps
    <2>2. ASSUME NEW i \in PromptWrites', NEW j \in PromptWrites' PROVE i = j
      <3>1. i + 1 = j + 1 /\ i \in Nat /\ j \in Nat
        BY <1>1, <1>6, <1>19 DEF PromptsInv, LivesInv
      <3> QED  BY <3>1
    <2>3. ASSUME NEW i \in DOMAIN calls', calls'[i].op \in ModalOps PROVE ~calls'[i].live
      BY <1>7, <2>3
    <2> QED  BY <1>13, <2>1, <2>2, <2>3 DEF LivesInv
  <1>21. OrderInv'
    <2> SUFFICES ASSUME NEW i \in PromptWrites', calls'[i].op = "prompt",
                        NEW j \in Gets', j < i
                 PROVE  calls'[i].doc \in spoiled
      BY <1>2, <1>13 DEF OrderInv
    <2>1. i \in Nat /\ j \in Nat  BY <1>6, <1>19
    <2>2. j + 1 < i + 1  BY <2>1
    <2>3. /\ i + 1 \in PromptWrites /\ calls[i + 1].op = "prompt" /\ j + 1 \in Gets
          /\ calls'[i].doc = calls[i + 1].doc
      BY <1>19
    <2> QED  BY <1>1, <2>2, <2>3 DEF PromptsInv, OrderInv
  <1>22. ModalInv'  BY <1>13 DEF ModalInv
  <1>23. PromptsInv'  BY <1>18, <1>20, <1>21, <1>22 DEF PromptsInv
  <1> QED  BY <1>10, <1>11, <1>12, <1>14, <1>16, <1>17, <1>23, PartsNext

-----------------------------------------------------------------------------
(* The invariant, and what follows from it.                                *)

LEMMA InitIInv == Init => IInv
  <1> SUFFICES ASSUME Init PROVE IInv  OBVIOUS
  <1> USE DEF Init
  <1>1. \A d \in Docs \cup {None} : Blank(d) \in Value  BY BlankTyped
  <1>2. stored \in [Docs -> Value] /\ graph \in [Shown -> Value] /\ asked \in [Docs -> Value]
    BY <1>1, Kinds
  <1>3. calls \in Seq(Request) /\ DOMAIN calls = {}  OBVIOUS
  <1>4. RestOK
    <2>1. modal \in Modal  BY NoPanelTyped
    <2>2. steps \in 0..MaxSteps /\ fails \in 0..MaxFails  BY EditorAssumption
    <2>3. moved \subseteq Virtual /\ spoiled \subseteq Docs /\ broken \in BOOLEAN  OBVIOUS
    <2> HIDE DEF Init
    <2> QED  BY <1>2, <1>3, <2>1, <2>2, <2>3 DEF RestOK
  <1>5. PanelOK
    <2>1. NoPanel.editing = FALSE  BY DEF NoPanel
    <2> QED  BY <2>1, NoPanelTyped DEF PanelOK
  <1>6. CallsInv  BY <1>3 DEF CallsInv
  <1>7. DisabledOnlyWhileAwaited  BY NoPanelTyped DEF DisabledOnlyWhileAwaited
  <1>8. \A d : Pending(d) = {}  BY <1>3 DEF Pending
  <1>9. Gets = {} /\ PromptWrites = {}  BY <1>3 DEF Gets, PromptWrites
  <1>10. AskInv
    BY <1>8 DEF AskInv, Ask, Once, TextBecomes, LabelBecomes, DirBecomes
  <1>11. FormInv  BY NoPanelTyped DEF FormInv
  <1>12. GraphInv  BY Kinds DEF GraphInv
  <1>13. \A s \in Snapshots : /\ stored[s].label = FirstLabel /\ stored[s].dir = <<>>
                              /\ stored[s].text[1] = s
    BY Kinds DEF Blank
  <1>14. SnapshotsInv  BY <1>13 DEF SnapshotsInv
  <1>15. LivesInv  BY <1>3, <1>9 DEF LivesInv
  <1>16. OrderInv  BY <1>9 DEF OrderInv
  <1>17. ModalInv  BY NoPanelTyped DEF ModalInv
  <1> QED
    BY <1>4, <1>5, <1>6, <1>7, <1>10, <1>11, <1>12, <1>14, <1>15, <1>16, <1>17, Parts
       DEF PromptsInv

LEMMA StutterStep == IInv /\ UNCHANGED vars => IInv'
  <1> SUFFICES ASSUME IInv, UNCHANGED vars PROVE IInv'  OBVIOUS
  <1>1. PanelOK /\ RestOK /\ FormInv  BY Parts
  <1>2. UNCHANGED <<stored, graph, broken, panel, modal, calls, asked, moved, spoiled>>
        /\ steps' = steps /\ fails' = fails
    BY DEF vars
  <1>3. PanelOK' /\ RestOK'  BY <1>1, <1>2 DEF PanelOK, RestOK
  <1>4. \A d : Kept(d)  BY <1>2, Aside
  <1>5. FormInv'  BY <1>1, <1>2, <1>4, FormKept
  <1> QED  BY <1>2, <1>3, <1>5, FormStep

LEMMA NextIInv == IInv /\ [Next]_vars => IInv'
  BY SelectStep, EditStep, CancelStep, SaveStep, TypeStep, OpenStep, TypePromptStep,
     CloseStep, CloseDropdownStep, SavePromptStep, ResetStep, RequestRefreshStep, UpdatedStep, SavedStep,
     GotGraphStep, GotPromptStep, PromptSavedStep, PromptResetStep, SaveFailsStep,
     PromptFailsStep, GraphFailsStep, StutterStep
  DEF Next

THEOREM Invariance == Spec => []IInv
  BY InitIInv, NextIInv, PTL DEF Spec

\* Types, and what is typed is in a form that is being edited.
THEOREM TypeCorrect == Spec => []TypeOK
  <1>1. IInv => TypeOK  BY DEF IInv
  <1> QED  BY <1>1, Invariance, PTL

\* A button that waits for an answer, and a page that is loading, still have the
\* request that will bring them back, whatever was selected, opened or closed and
\* whatever failed meanwhile.
THEOREM ButtonsComeBack == Spec => []DisabledOnlyWhileAwaited
  <1>1. IInv => DisabledOnlyWhileAwaited  BY DEF IInv
  <1> QED  BY <1>1, Invariance, PTL

\* The fields of a document that nothing spoiled are what was last typed for them
\* in its own form, once the requests about it are answered.
THEOREM WhatIsAskedIsStored == Spec => []AskedIsStored
  <1>1. ASSUME IInv PROVE AskedIsStored
    <2>1. AskInv  BY <1>1, Parts
    <2> SUFFICES ASSUME NEW d \in Docs \ spoiled, CallsOn(d) = {}
                 PROVE  /\ stored[d].text = asked[d].text /\ stored[d].label = asked[d].label
                        /\ d \notin moved => stored[d].dir = asked[d].dir
      BY DEF AskedIsStored
    <2>2. Pending(d) = {}  BY DEF CallsOn, Pending
    <2>3. Ask(d)  BY <2>1 DEF AskInv
    <2> QED  BY <2>2, <2>3 DEF Ask, TextBecomes, LabelBecomes, DirBecomes
  <1> QED  BY <1>1, Invariance, PTL

\* With nothing under way, the graph is what is stored of the selection, and the
\* forms that nobody is typing in show it.
THEOREM WhatIsShownIsStored == Spec => []ShownIsStored
  <1>1. ASSUME IInv PROVE ShownIsStored
    <2>1. PanelOK /\ RestOK /\ FormInv /\ GraphInv /\ PromptsInv  BY <1>1, Parts
    <2> SUFFICES ASSUME calls = <<>>, ~broken
                 PROVE  /\ panel.of \notin spoiled \cup {None} =>
                              /\ graph[panel.of] = stored[panel.of]
                              /\ ~panel.editing /\ ~panel.odd =>
                                    panel.input.text = stored[panel.of].text
                        /\ modal.open \notin spoiled \cup {None} /\ ~modal.odd
                                /\ modal.prompt = modal.original =>
                              /\ modal.prompt = stored[modal.open].text
                              /\ modal.custom <=>
                                    stored[modal.open].text # <<modal.open, 0>>
      BY DEF ShownIsStored
    <2>2. /\ \A d : Pending(d) = {}
          /\ Gets = {} /\ PromptWrites = {} /\ ~GraphAsked
      BY DEF Pending, Gets, PromptWrites, GraphAsked
    <2>3. panel.of \notin spoiled \cup {None} => graph[panel.of] = stored[panel.of]
      BY <2>1, <2>2 DEF GraphInv, PanelOK, Panel
    <2>4. panel.of \notin spoiled \cup {None} /\ ~panel.editing /\ ~panel.odd =>
             panel.input.text = stored[panel.of].text
      <3>1. ~panel.editing => panel.typed = {}  BY <2>1 DEF PanelOK
      <3> QED  BY <2>1, <2>2, <3>1 DEF FormInv, TextBecomes
    <2>5. modal.open \notin spoiled \cup {None} /\ ~modal.odd =>
             /\ modal.original = stored[modal.open].text
             /\ modal.custom <=> modal.original # <<modal.open, 0>>
      BY <2>1, <2>2 DEF PromptsInv, ModalInv
    <2> QED  BY <2>3, <2>4, <2>5
  <1> QED  BY <1>1, Invariance, PTL
=============================================================================
