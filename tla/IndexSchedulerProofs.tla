------------------------ MODULE IndexSchedulerProofs ------------------------
(***************************************************************************)
(* Proofs about IndexScheduler, for every set of files, every bound and    *)
(* every set of faults.                                                    *)
(*                                                                         *)
(* RestIsFresh needs an invariant on every version that is on its way into *)
(* the index: FileInv says of each file who holds an old version of it,    *)
(* that a later save then still waits for its turn, and that a run which   *)
(* found the file unchanged still does when it stores.                     *)
(***************************************************************************)
EXTENDS IndexScheduler, SequenceTheorems, TLAPS

\* What is left of a batch is left only while it is replayed.
BatchInv == batch # {} => ReplayRunning

\* The loop is between the check of isFullIndexRunning and the end of the run.
PastTheCheck == loopAt \in {"ensureServer", "scan", "store"}

\* As long as no full index ended early, files are deferred or replayed only
\* under a full index, and the loop stands before its check.
DeferInv ==
    ~endedEarly /\ (deferred # {} \/ ReplayRunning) => indexing /\ ~PastTheCheck

-----------------------------------------------------------------------------
(* The invariant behind RestIsFresh, per file.                             *)

Holding == fullAt \in {"lsp", "store", "append"}
LoopHolds(f) == loopAt = "store" /\ loopFile = f
ReplayHolds(f) == fullAt = "replayStore" /\ replayFile = f

\* Nothing is newer than the file, and nothing that was stored while the loop
\* is past its check is newer than what the full index or its replay holds.
AgeInv(f) ==
    /\ db[f] <= ver[f] /\ snap[f] <= ver[f]
    /\ LoopHolds(f) => loopScan.seen <= ver[f]
    /\ ReplayHolds(f) => replayScan.seen <= ver[f]
    /\ fullAt \in {"lsp", "store"} /\ PastTheCheck => db[f] <= snap[f]
    /\ ReplayHolds(f) /\ PastTheCheck => db[f] <= replayScan.seen

\* A turn that is still before the check of isFullIndexRunning.
Waiting(f) ==
    \/ f \in timers \cup queuedSet
    \/ loopFile = f /\ loopAt = "checkReady"
    \/ f \in deferred

\* Whoever is about to store an old version of the file, a later save of it
\* still waits for its turn.
OldInv(f) ==
    f \notin dropped =>
        /\ Holding /\ snap[f] # ver[f] => Waiting(f)
        /\ LoopHolds(f) /\ loopScan.seen # ver[f] => f \in timers \cup queuedSet
        /\ ReplayHolds(f) /\ replayScan.seen # ver[f] => Waiting(f)

\* Whoever found the file unchanged still does, unless the file changed.
UnchangedInv(f) ==
    /\ LoopHolds(f) /\ ~loopScan.changed /\ loopScan.seen = ver[f] => db[f] = ver[f]
    /\ ReplayHolds(f) /\ ~replayScan.changed /\ replayScan.seen = ver[f] /\ f \notin mixed
         => db[f] = ver[f]

\* A turn whose scan is still to come.
Turn(f) ==
    \/ f \in timers \cup queuedSet
    \/ loopFile = f /\ loopAt \in {"checkReady", "ensureServer", "scan"}
    \/ f \in deferred /\ indexing
    \/ f \in batch
    \/ replayFile = f /\ fullAt = "replayScan"

\* Somebody will bring the index up to date.
TurnInv(f) ==
    db[f] # ver[f] /\ ~Excused(f) =>
        \/ Turn(f)
        \/ LoopHolds(f) /\ loopScan.seen = ver[f]
        \/ ReplayHolds(f) /\ replayScan.seen = ver[f]

\* The edges are those of the symbols, or about to be appended.
EdgesInv(f) ==
    db[f] = ver[f] /\ ~Excused(f) =>
        IF fullAt = "append" /\ f \in AppendFiles
        THEN edges[f] = {} /\ snap[f] = ver[f]
        ELSE edges[f] = {ver[f]}

FileInv(f) ==
    AgeInv(f) /\ OldInv(f) /\ UnchangedInv(f) /\ TurnInv(f) /\ EdgesInv(f)

IInv ==
    /\ TypeOK /\ QueueConsistent /\ BatchInv /\ DeferInv
    /\ \A f \in Files : FileInv(f)

-----------------------------------------------------------------------------
QueueOf(q, set) ==
    /\ {q[i] : i \in DOMAIN q} = set
    /\ \A i, j \in DOMAIN q : q[i] = q[j] => i = j

\* What Tail and Append make of a queue without duplicates.
LEMMA TailQueue ==
  ASSUME NEW q \in Seq(Files), NEW set, QueueOf(q, set), q # <<>>
  PROVE  /\ Head(q) \in Files /\ Tail(q) \in Seq(Files)
         /\ QueueOf(Tail(q), set \ {Head(q)})
  <1>1. /\ Head(q) \in Files /\ Tail(q) \in Seq(Files)
        /\ Len(q) \in Nat /\ Len(q) >= 1
        /\ Len(Tail(q)) = Len(q) - 1
        /\ \A i \in 1 .. Len(Tail(q)) : Tail(q)[i] = q[i + 1]
        /\ Head(q) = q[1]
        /\ DOMAIN q = 1 .. Len(q) /\ DOMAIN Tail(q) = 1 .. Len(q) - 1
    BY HeadTailProperties, LenProperties, EmptySeq
  <1>2. \A i \in DOMAIN Tail(q) : i + 1 \in DOMAIN q /\ Tail(q)[i] = q[i + 1]
    BY <1>1
  <1>3. \A i, j \in DOMAIN Tail(q) : Tail(q)[i] = Tail(q)[j] => i = j
    BY <1>1, <1>2 DEF QueueOf
  <1>4. {Tail(q)[i] : i \in DOMAIN Tail(q)} \subseteq set \ {Head(q)}
    BY <1>1, <1>2 DEF QueueOf
  <1>5. ASSUME NEW x \in set \ {Head(q)}
        PROVE  x \in {Tail(q)[i] : i \in DOMAIN Tail(q)}
    <2>1. PICK i \in DOMAIN q : q[i] = x  BY DEF QueueOf
    <2>2. i # 1  BY <2>1, <1>1
    <2>3. i - 1 \in DOMAIN Tail(q) /\ (i - 1) + 1 = i  BY <2>2, <1>1
    <2> QED  BY <2>1, <2>3, <1>2
  <1> QED  BY <1>1, <1>3, <1>4, <1>5 DEF QueueOf

LEMMA AppendQueue ==
  ASSUME NEW q \in Seq(Files), NEW set, QueueOf(q, set), NEW f \in Files \ set
  PROVE  /\ Append(q, f) \in Seq(Files) /\ Append(q, f) # <<>>
         /\ QueueOf(Append(q, f), set \cup {f})
  <1> DEFINE a == Append(q, f)
  <1>1. /\ a \in Seq(Files) /\ Len(q) \in Nat /\ Len(a) = Len(q) + 1
        /\ DOMAIN q = 1 .. Len(q) /\ DOMAIN a = 1 .. Len(q) + 1
        /\ a[Len(q) + 1] = f
        /\ \A i \in 1 .. Len(q) : a[i] = q[i]
    BY AppendProperties, LenProperties
  <1>2. a # <<>>  BY <1>1, EmptySeq
  <1>3. \A i \in DOMAIN a : i = Len(q) + 1 \/ i \in DOMAIN q  BY <1>1
  <1>4. \A i \in DOMAIN q : q[i] \in set  BY DEF QueueOf
  <1>5. {a[i] : i \in DOMAIN a} = set \cup {f}
    <2>1. \A i \in DOMAIN a : a[i] \in set \cup {f}  BY <1>1, <1>3, <1>4
    <2>2. ASSUME NEW x \in set PROVE \E i \in DOMAIN a : a[i] = x
      <3>1. PICK i \in DOMAIN q : q[i] = x  BY DEF QueueOf
      <3> QED  BY <3>1, <1>1
    <2>3. \E i \in DOMAIN a : a[i] = f  BY <1>1
    <2> QED  BY <2>1, <2>2, <2>3
  <1>6. \A i, j \in DOMAIN a : a[i] = a[j] => i = j
    BY <1>1, <1>3, <1>4 DEF QueueOf
  <1> QED  BY <1>1, <1>2, <1>5, <1>6 DEF QueueOf

-----------------------------------------------------------------------------
(* What the helpers of the actions do to the state.                        *)

\* The head of the while loop: the queue stays a queue without duplicates,
\* and the only file that leaves it is the next to be checked.
LEMMA IterateQueue ==
  ASSUME NEW q \in Seq(Files), NEW set \in SUBSET Files, QueueOf(q, set),
         loopFile \in Files, Iterate(q, set)
  PROVE  /\ queue' \in Seq(Files) /\ queuedSet' \subseteq set
         /\ QueueOf(queue', queuedSet')
         /\ processing' \in BOOLEAN /\ (processing' <=> loopAt' # "idle")
         /\ loopAt' \in {"idle", "checkReady"} /\ loopFile' \in Files
         /\ \A f \in set : f \in queuedSet' \/ (loopFile' = f /\ loopAt' = "checkReady")
  <1>1. CASE q = <<>>
    <2>1. set = {}  BY <1>1 DEF QueueOf
    <2> QED  BY <1>1, <2>1 DEF Iterate
  <1>2. CASE q # <<>>
    <2>1. /\ Head(q) \in Files /\ Tail(q) \in Seq(Files)
          /\ QueueOf(Tail(q), set \ {Head(q)})
      BY <1>2, TailQueue
    <2> QED  BY <1>2, <2>1 DEF Iterate
  <1> QED  BY <1>1, <1>2

\* The heads of the replay loops: a deferred file or one of the batch stays
\* one of them or is the next to be scanned.
LEMMA ReplayFromBatch ==
  ASSUME NEW left \in SUBSET Files, deferred \subseteq Files, replayFile \in Files,
         indexing, ReplayFrom(left)
  PROVE  /\ deferred' \subseteq deferred /\ batch' \subseteq Files /\ replayFile' \in Files
         /\ indexing' \in BOOLEAN /\ (indexing' <=> fullAt' # "idle")
         /\ fullAt' \in {"idle", "replayScan"}
         /\ batch' # {} => fullAt' = "replayScan"
         /\ fullAt' = "replayScan" => left # {} \/ deferred # {}
         /\ \A f \in left \cup deferred :
              /\ indexing'
              /\ f \in deferred' \/ f \in batch' \/ (replayFile' = f /\ fullAt' = "replayScan")
  BY DEF ReplayFrom, Drain

-----------------------------------------------------------------------------
LEMMA InitIInv == Init => IInv
  <1> SUFFICES ASSUME Init PROVE IInv  OBVIOUS
  <1> USE VersionAssumption DEF Init
  <1>1. TypeOK
    <2>1. 0 \in Versions  BY DEF Versions
    <2>2. /\ ver \in [Files -> Versions] /\ db \in [Files -> Versions]
          /\ snap \in [Files -> Versions] /\ edges \in [Files -> SUBSET Versions]
      BY <2>1
    <2>3. loopScan \in ScanResult /\ replayScan \in ScanResult
      BY <2>1 DEF ScanResult
    <2>4. queue \in Seq(Files)  BY EmptySeq
    <2> QED  BY <2>2, <2>3, <2>4 DEF TypeOK, LoopStates, FullStates
  <1>2. QueueConsistent /\ BatchInv /\ DeferInv
    BY DEF QueueConsistent, BatchInv, DeferInv, ReplayRunning
  <1>3. ASSUME NEW f \in Files PROVE FileInv(f)
    <2>1. ver[f] = 0 /\ db[f] = 0 /\ snap[f] = 0 /\ edges[f] = {0}  OBVIOUS
    <2> QED
      BY <2>1 DEF FileInv, AgeInv, OldInv, UnchangedInv, TurnInv, EdgesInv, Holding,
                  LoopHolds, ReplayHolds
  <1> QED  BY <1>1, <1>2, <1>3 DEF IInv

LEMMA SaveIInv == ASSUME IInv, NEW x \in Files, Save(x) PROVE IInv'
  <1> USE DEF IInv, Save, fullVars, replayVars, historyVars, indexVars, queueVars
  <1>1. TypeOK'
    BY VersionAssumption, EmptySeq, SMTT(30) DEF TypeOK, Lost, LoopStates, FullStates, Versions,
        ScanResult
  <1>2. QueueConsistent'
    BY DEF QueueConsistent, QueueOf
  <1>3. BatchInv' /\ DeferInv'
    BY DEF BatchInv, DeferInv, QueueConsistent, PastTheCheck, ReplayRunning,
        OnSaveRunning
  <1>4. ASSUME NEW f \in Files PROVE FileInv(f)'
    <2> USE VersionAssumption DEF FileInv, LoopHolds, ReplayHolds, PastTheCheck,
        Holding, Excused, Lost, TypeOK, QueueConsistent
    <2>1. AgeInv(f)'  BY SMTT(30) DEF AgeInv, Versions, ScanResult
    <2>2. OldInv(f)'  BY SMTT(30) DEF OldInv, Waiting
    <2>3. UnchangedInv(f)'  BY DEF UnchangedInv, AgeInv, Versions, ScanResult
    <2>4. TurnInv(f)'  BY DEF TurnInv, Turn, OldInv, Waiting, BatchInv, ReplayRunning
    <2>5. EdgesInv(f)'  BY DEF EdgesInv, UnchangedInv, AgeInv, Versions
    <2> QED  BY <2>1, <2>2, <2>3, <2>4, <2>5
  <1> QED  BY <1>1, <1>2, <1>3, <1>4

LEMMA DebounceFiresIInv == ASSUME IInv, NEW x \in Files, DebounceFires(x) PROVE IInv'
  <1> USE DEF IInv, DebounceFires, Enqueue, fullVars, replayVars, historyVars, indexVars
  <1>1. /\ queue' \in Seq(Files) /\ queuedSet' \subseteq Files
        /\ QueueOf(queue', queuedSet')
        /\ processing' \in BOOLEAN /\ (processing' <=> loopAt' # "idle")
        /\ IF loopAt = "idle" THEN loopAt' \in {"idle", "checkReady"}
           ELSE UNCHANGED <<loopAt, loopFile>>
        /\ loopFile' \in Files
        /\ \A f \in queuedSet \cup {x} :
             f \in queuedSet' \/ (loopFile' = f /\ loopAt' = "checkReady")
    <2> USE DEF TypeOK, QueueConsistent
    <2>1. QueueOf(queue, queuedSet)  BY DEF QueueOf
    <2>2. CASE x \in queuedSet  BY <2>1, <2>2
    <2>3. CASE x \notin queuedSet
      <3>1. /\ Append(queue, x) \in Seq(Files) /\ queuedSet \cup {x} \in SUBSET Files
            /\ QueueOf(Append(queue, x), queuedSet \cup {x})
        BY <2>1, <2>3, AppendQueue
      <3>2. CASE processing  BY <2>3, <3>1, <3>2
      <3>3. CASE ~processing
        <4>1. Iterate(Append(queue, x), queuedSet \cup {x})  BY <2>3, <3>3
        <4> QED  BY <3>1, <3>3, <4>1, IterateQueue
      <3> QED  BY <3>2, <3>3
    <2> QED  BY <2>2, <2>3
  <1>2. TypeOK'  BY <1>1 DEF TypeOK, LoopStates
  <1>3. QueueConsistent'  BY <1>1 DEF QueueConsistent, QueueOf
  <1>4. BatchInv' /\ DeferInv'
    BY <1>1 DEF BatchInv, DeferInv, PastTheCheck, ReplayRunning
  <1>5. ASSUME NEW f \in Files PROVE FileInv(f)'
    <2> USE <1>1 DEF FileInv, LoopHolds, ReplayHolds, PastTheCheck, Holding, Excused
    <2>1. AgeInv(f)'  BY DEF AgeInv
    <2>2. OldInv(f)'  BY DEF OldInv, Waiting
    <2>3. UnchangedInv(f)'  BY DEF UnchangedInv
    <2>4. TurnInv(f)'  BY DEF TurnInv, Turn
    <2>5. EdgesInv(f)'  BY DEF EdgesInv
    <2> QED  BY <2>1, <2>2, <2>3, <2>4, <2>5
  <1> QED  BY <1>2, <1>3, <1>4, <1>5

LEMMA ReadyIInv == ASSUME IInv, Ready PROVE IInv'
  <1> USE DEF IInv, Ready, MayProceed, fullVars, replayVars, historyVars, indexVars,
      queueVars
  <1>1. TypeOK'
    BY VersionAssumption, EmptySeq DEF TypeOK, Lost, LoopStates, FullStates, Versions,
        ScanResult
  <1>2. QueueConsistent'
    BY DEF QueueConsistent, QueueOf
  <1>3. BatchInv' /\ DeferInv'
    BY DEF BatchInv, DeferInv, QueueConsistent, PastTheCheck, ReplayRunning,
        OnSaveRunning
  <1>4. ASSUME NEW f \in Files PROVE FileInv(f)'
    <2> USE VersionAssumption DEF FileInv, LoopHolds, ReplayHolds, PastTheCheck,
        Holding, Excused, Lost, TypeOK, QueueConsistent
    <2>1. AgeInv(f)'  BY DEF AgeInv, Versions, ScanResult
    <2>2. OldInv(f)'  BY DEF OldInv, Waiting
    <2>3. UnchangedInv(f)'  BY DEF UnchangedInv, AgeInv, Versions, ScanResult
    <2>4. TurnInv(f)'  BY DEF TurnInv, Turn, OldInv, Waiting, BatchInv, ReplayRunning
    <2>5. EdgesInv(f)'  BY DEF EdgesInv, UnchangedInv, AgeInv, Versions
    <2> QED  BY <2>1, <2>2, <2>3, <2>4, <2>5
  <1> QED  BY <1>1, <1>2, <1>3, <1>4

LEMMA DeferIInv == ASSUME IInv, Defer PROVE IInv'
  <1> USE DEF IInv, Defer, MayProceed, fullVars, replayVars, historyVars, indexVars,
      queueVars
  <1>1. /\ queue' \in Seq(Files) /\ queuedSet' \subseteq queuedSet
        /\ QueueOf(queue', queuedSet')
        /\ processing' \in BOOLEAN /\ (processing' <=> loopAt' # "idle")
        /\ loopAt' \in {"idle", "checkReady"} /\ loopFile' \in Files
        /\ \A f \in queuedSet : f \in queuedSet' \/ (loopFile' = f /\ loopAt' =
            "checkReady")
    BY IterateQueue DEF Continue, TypeOK, QueueConsistent, QueueOf
  <1>2. TypeOK'
    BY <1>1, VersionAssumption, EmptySeq DEF TypeOK, Lost, LoopStates, FullStates,
        Versions, ScanResult
  <1>3. QueueConsistent'
    BY <1>1 DEF QueueConsistent, QueueOf
  <1>4. BatchInv' /\ DeferInv'
    BY <1>1 DEF BatchInv, DeferInv, PastTheCheck, ReplayRunning, OnSaveRunning
  <1>5. ASSUME NEW f \in Files PROVE FileInv(f)'
    <2> USE <1>1, VersionAssumption DEF FileInv, LoopHolds, ReplayHolds, PastTheCheck,
        Holding, Excused, Lost, TypeOK
    <2>1. AgeInv(f)'  BY DEF AgeInv, Versions, ScanResult
    <2>2. OldInv(f)'  BY DEF OldInv, Waiting
    <2>3. UnchangedInv(f)'  BY DEF UnchangedInv, AgeInv, Versions, ScanResult
    <2>4. TurnInv(f)'  BY DEF TurnInv, Turn, OldInv, Waiting, BatchInv, ReplayRunning
    <2>5. EdgesInv(f)'  BY DEF EdgesInv, UnchangedInv, AgeInv, Versions
    <2> QED  BY <2>1, <2>2, <2>3, <2>4, <2>5
  <1> QED  BY <1>2, <1>3, <1>4, <1>5

LEMMA SkipIInv == ASSUME IInv, Skip PROVE IInv'
  <1> USE DEF IInv, Skip, fullVars, replayVars, historyVars, indexVars, queueVars
  <1>1. /\ queue' \in Seq(Files) /\ queuedSet' \subseteq queuedSet
        /\ QueueOf(queue', queuedSet')
        /\ processing' \in BOOLEAN /\ (processing' <=> loopAt' # "idle")
        /\ loopAt' \in {"idle", "checkReady"} /\ loopFile' \in Files
        /\ \A f \in queuedSet : f \in queuedSet' \/ (loopFile' = f /\ loopAt' =
            "checkReady")
    BY IterateQueue DEF Continue, TypeOK, QueueConsistent, QueueOf
  <1>2. TypeOK'
    BY <1>1, VersionAssumption, EmptySeq DEF TypeOK, Lost, LoopStates, FullStates,
        Versions, ScanResult
  <1>3. QueueConsistent'
    BY <1>1 DEF QueueConsistent, QueueOf
  <1>4. BatchInv' /\ DeferInv'
    BY <1>1 DEF BatchInv, DeferInv, PastTheCheck, ReplayRunning, OnSaveRunning
  <1>5. ASSUME NEW f \in Files PROVE FileInv(f)'
    <2> USE <1>1, VersionAssumption DEF FileInv, LoopHolds, ReplayHolds, PastTheCheck,
        Holding, Excused, Lost, TypeOK
    <2>1. AgeInv(f)'  BY DEF AgeInv, Versions, ScanResult
    <2>2. OldInv(f)'  BY DEF OldInv, Waiting
    <2>3. UnchangedInv(f)'  BY DEF UnchangedInv, AgeInv, Versions, ScanResult
    <2>4. TurnInv(f)'  BY DEF TurnInv, Turn, OldInv, Waiting, BatchInv, ReplayRunning
    <2>5. EdgesInv(f)'  BY DEF EdgesInv, UnchangedInv, AgeInv, Versions
    <2> QED  BY <2>1, <2>2, <2>3, <2>4, <2>5
  <1> QED  BY <1>2, <1>3, <1>4, <1>5

LEMMA CheckThrowsIInv == ASSUME IInv, CheckThrows PROVE IInv'
  <1> USE DEF IInv, CheckThrows, fullVars, replayVars, historyVars, indexVars, queueVars
  <1>1. TypeOK'
    BY VersionAssumption, EmptySeq DEF TypeOK, Lost, LoopStates, FullStates, Versions,
        ScanResult
  <1>2. QueueConsistent'
    BY DEF QueueConsistent, QueueOf
  <1>3. BatchInv' /\ DeferInv'
    BY DEF BatchInv, DeferInv, PastTheCheck, ReplayRunning, OnSaveRunning
  <1>4. ASSUME NEW f \in Files PROVE FileInv(f)'
    <2> USE VersionAssumption DEF FileInv, LoopHolds, ReplayHolds, PastTheCheck,
        Holding, Excused, Lost, TypeOK
    <2>1. AgeInv(f)'  BY DEF AgeInv, Versions, ScanResult
    <2>2. OldInv(f)'  BY DEF OldInv, Waiting
    <2>3. UnchangedInv(f)'  BY DEF UnchangedInv, AgeInv, Versions, ScanResult
    <2>4. TurnInv(f)'  BY DEF TurnInv, Turn, OldInv, Waiting, BatchInv, ReplayRunning
    <2>5. EdgesInv(f)'  BY DEF EdgesInv, UnchangedInv, AgeInv, Versions
    <2> QED  BY <2>1, <2>2, <2>3, <2>4, <2>5
  <1> QED  BY <1>1, <1>2, <1>3, <1>4

LEMMA ServerEnsuredIInv == ASSUME IInv, ServerEnsured PROVE IInv'
  <1> USE DEF IInv, ServerEnsured, fullVars, replayVars, historyVars, indexVars,
      queueVars
  <1>1. TypeOK'
    BY VersionAssumption, EmptySeq DEF TypeOK, Lost, LoopStates, FullStates, Versions,
        ScanResult
  <1>2. QueueConsistent'
    BY DEF QueueConsistent, QueueOf
  <1>3. BatchInv' /\ DeferInv'
    BY DEF BatchInv, DeferInv, PastTheCheck, ReplayRunning, OnSaveRunning
  <1>4. ASSUME NEW f \in Files PROVE FileInv(f)'
    <2> USE VersionAssumption DEF FileInv, LoopHolds, ReplayHolds, PastTheCheck,
        Holding, Excused, Lost, TypeOK
    <2>1. AgeInv(f)'  BY DEF AgeInv, Versions, ScanResult
    <2>2. OldInv(f)'  BY DEF OldInv, Waiting
    <2>3. UnchangedInv(f)'  BY DEF UnchangedInv, AgeInv, Versions, ScanResult
    <2>4. TurnInv(f)'  BY DEF TurnInv, Turn, OldInv, Waiting, BatchInv, ReplayRunning
    <2>5. EdgesInv(f)'  BY DEF EdgesInv, UnchangedInv, AgeInv, Versions
    <2> QED  BY <2>1, <2>2, <2>3, <2>4, <2>5
  <1> QED  BY <1>1, <1>2, <1>3, <1>4

LEMMA OnSaveScanIInv == ASSUME IInv, OnSaveScan PROVE IInv'
  <1> USE DEF IInv, OnSaveScan, ScanFile, fullVars, replayVars, historyVars, indexVars,
      queueVars
  <1>1. TypeOK'
    BY VersionAssumption, EmptySeq DEF TypeOK, Lost, LoopStates, FullStates, Versions,
        ScanResult
  <1>2. QueueConsistent'
    BY DEF QueueConsistent, QueueOf
  <1>3. BatchInv' /\ DeferInv'
    BY DEF BatchInv, DeferInv, PastTheCheck, ReplayRunning, OnSaveRunning
  <1>4. ASSUME NEW f \in Files PROVE FileInv(f)'
    <2> USE VersionAssumption DEF FileInv, LoopHolds, ReplayHolds, PastTheCheck,
        Holding, Excused, Lost, TypeOK
    <2>1. AgeInv(f)'  BY DEF AgeInv, Versions, ScanResult
    <2>2. OldInv(f)'  BY DEF OldInv, Waiting
    <2>3. UnchangedInv(f)'  BY DEF UnchangedInv, AgeInv, Versions, ScanResult
    <2>4. TurnInv(f)'  BY DEF TurnInv, Turn, OldInv, Waiting, BatchInv, ReplayRunning
    <2>5. EdgesInv(f)'  BY DEF EdgesInv, UnchangedInv, AgeInv, Versions
    <2> QED  BY <2>1, <2>2, <2>3, <2>4, <2>5
  <1> QED  BY <1>1, <1>2, <1>3, <1>4

LEMMA OnSaveStoreIInv == ASSUME IInv, OnSaveStore PROVE IInv'
  <1> USE DEF IInv, OnSaveStore, StoreFileDelta, Collision, fullVars, replayVars,
      historyVars, indexVars, queueVars
  <1>1. /\ queue' \in Seq(Files) /\ queuedSet' \subseteq queuedSet
        /\ QueueOf(queue', queuedSet')
        /\ processing' \in BOOLEAN /\ (processing' <=> loopAt' # "idle")
        /\ loopAt' \in {"idle", "checkReady"} /\ loopFile' \in Files
        /\ \A f \in queuedSet : f \in queuedSet' \/ (loopFile' = f /\ loopAt' =
            "checkReady")
    BY IterateQueue DEF Continue, TypeOK, QueueConsistent, QueueOf
  <1>2. TypeOK'
    BY <1>1, VersionAssumption, EmptySeq DEF TypeOK, Lost, LoopStates, FullStates,
        Versions, ScanResult
  <1>3. QueueConsistent'
    BY <1>1 DEF QueueConsistent, QueueOf
  <1>4. BatchInv' /\ DeferInv'
    BY <1>1 DEF BatchInv, DeferInv, PastTheCheck, ReplayRunning, OnSaveRunning
  <1>5. ASSUME NEW f \in Files PROVE FileInv(f)'
    <2> USE <1>1, VersionAssumption DEF FileInv, LoopHolds, ReplayHolds, PastTheCheck,
        Holding, Excused, Lost, TypeOK
    <2>1. AgeInv(f)'  BY DEF AgeInv, Versions, ScanResult
    <2>2. OldInv(f)'  BY DEF OldInv, Waiting
    <2>3. UnchangedInv(f)'  BY DEF UnchangedInv, AgeInv, Versions, ScanResult
    <2>4. TurnInv(f)'  BY DEF TurnInv, Turn, OldInv, Waiting, BatchInv, ReplayRunning
    <2>5. EdgesInv(f)'  BY DEF EdgesInv, UnchangedInv, AgeInv, Versions
    <2> QED  BY <2>1, <2>2, <2>3, <2>4, <2>5
  <1> QED  BY <1>2, <1>3, <1>4, <1>5

LEMMA OnSaveFailsIInv == ASSUME IInv, OnSaveFails PROVE IInv'
  <1> USE DEF IInv, fullVars, replayVars, historyVars, indexVars, queueVars
  <1>1. /\ queue' \in Seq(Files) /\ queuedSet' \subseteq queuedSet
        /\ QueueOf(queue', queuedSet')
        /\ processing' \in BOOLEAN /\ (processing' <=> loopAt' # "idle")
        /\ loopAt' \in {"idle", "checkReady"} /\ loopFile' \in Files
        /\ \A f \in queuedSet : f \in queuedSet' \/ (loopFile' = f /\ loopAt' =
            "checkReady")
    BY IterateQueue DEF OnSaveFails, Continue, TypeOK, QueueConsistent, QueueOf
  <1>2. TypeOK'
    <2>1. db' \in [Files -> Versions] /\ edges' \in [Files -> SUBSET Versions]
      BY DEF TypeOK, OnSaveFails, StoreFileDelta, PerhapsStored, Collision,
          OnSaveRunning, ScanResult
    <2> QED
      BY <1>1, <2>1 DEF TypeOK, OnSaveFails, StoreFileDelta, PerhapsStored, Collision,
          OnSaveRunning, Lost, LoopStates, FullStates
  <1>3. QueueConsistent'
    BY <1>1 DEF QueueConsistent, QueueOf, OnSaveFails, StoreFileDelta, PerhapsStored,
        Collision, OnSaveRunning
  <1>4. BatchInv' /\ DeferInv'
    BY <1>1 DEF BatchInv, DeferInv, PastTheCheck, ReplayRunning, OnSaveRunning,
        OnSaveFails, StoreFileDelta, PerhapsStored, Collision, OnSaveRunning
  <1>5. ASSUME NEW f \in Files PROVE FileInv(f)'
    <2> USE <1>1, VersionAssumption DEF OnSaveFails, StoreFileDelta, PerhapsStored,
        Collision, OnSaveRunning, FileInv, LoopHolds, ReplayHolds, PastTheCheck,
        Holding, Excused, Lost, TypeOK
    <2>1. AgeInv(f)'  BY DEF AgeInv, Versions, ScanResult
    <2>2. OldInv(f)'  BY DEF OldInv, Waiting
    <2>3. UnchangedInv(f)'  BY DEF UnchangedInv, AgeInv, Versions, ScanResult
    <2>4. TurnInv(f)'  BY DEF TurnInv, Turn, OldInv, Waiting, BatchInv, ReplayRunning
    <2>5. EdgesInv(f)'
      <3>1. CASE UNCHANGED indexVars  BY <3>1 DEF EdgesInv
      <3>2. CASE loopAt = "store" /\ StoreFileDelta(loopFile, loopScan)
        <4>1. CASE f # loopFile  BY <3>2, <4>1 DEF EdgesInv
        <4>2. CASE f = loopFile
          BY <3>2, <4>2 DEF EdgesInv, UnchangedInv, AgeInv, Versions, ScanResult
        <4> QED  BY <4>1, <4>2
      <3> QED  BY <3>1, <3>2
    <2> QED  BY <2>1, <2>2, <2>3, <2>4, <2>5
  <1> QED  BY <1>2, <1>3, <1>4, <1>5

LEMMA DisposeIInv == ASSUME IInv, Dispose PROVE IInv'
  <1> USE DEF IInv, Dispose, fullVars, replayVars, historyVars, indexVars, queueVars
  <1>1. TypeOK'
    BY VersionAssumption, EmptySeq DEF TypeOK, Lost, LoopStates, FullStates, Versions,
        ScanResult
  <1>2. QueueConsistent'
    BY DEF QueueConsistent, QueueOf
  <1>3. BatchInv' /\ DeferInv'
    BY DEF BatchInv, DeferInv, PastTheCheck, ReplayRunning, OnSaveRunning
  <1>4. ASSUME NEW f \in Files PROVE FileInv(f)'
    <2> USE VersionAssumption DEF FileInv, LoopHolds, ReplayHolds, PastTheCheck,
        Holding, Excused, Lost, TypeOK
    <2>1. AgeInv(f)'  BY DEF AgeInv, Versions, ScanResult
    <2>2. OldInv(f)'  BY DEF OldInv, Waiting
    <2>3. UnchangedInv(f)'  BY DEF UnchangedInv, AgeInv, Versions, ScanResult
    <2>4. TurnInv(f)'  BY DEF TurnInv, Turn, OldInv, Waiting, BatchInv, ReplayRunning
    <2>5. EdgesInv(f)'  BY DEF EdgesInv, UnchangedInv, AgeInv, Versions
    <2> QED  BY <2>1, <2>2, <2>3, <2>4, <2>5
  <1> QED  BY <1>1, <1>2, <1>3, <1>4

LEMMA StartIndexIInv == ASSUME IInv, StartIndex PROVE IInv'
  <1> USE DEF IInv, StartIndex, fullVars, replayVars, historyVars, indexVars, queueVars
  <1>1. TypeOK'
    BY VersionAssumption, EmptySeq DEF TypeOK, Lost, LoopStates, FullStates, Versions,
        ScanResult
  <1>2. QueueConsistent'
    BY DEF QueueConsistent, QueueOf
  <1>3. BatchInv' /\ DeferInv'
    BY DEF BatchInv, DeferInv, QueueConsistent, PastTheCheck, ReplayRunning,
        OnSaveRunning
  <1>4. ASSUME NEW f \in Files PROVE FileInv(f)'
    <2> USE VersionAssumption DEF FileInv, LoopHolds, ReplayHolds, PastTheCheck,
        Holding, Excused, Lost, TypeOK, QueueConsistent
    <2>1. AgeInv(f)'  BY DEF AgeInv, Versions, ScanResult
    <2>2. OldInv(f)'  BY DEF OldInv, Waiting
    <2>3. UnchangedInv(f)'  BY DEF UnchangedInv, AgeInv, Versions, ScanResult
    <2>4. TurnInv(f)'  BY DEF TurnInv, Turn, OldInv, Waiting, BatchInv, ReplayRunning
    <2>5. EdgesInv(f)'  BY DEF EdgesInv, UnchangedInv, AgeInv, Versions
    <2> QED  BY <2>1, <2>2, <2>3, <2>4, <2>5
  <1> QED  BY <1>1, <1>2, <1>3, <1>4

LEMMA CancelIndexIInv == ASSUME IInv, CancelIndex PROVE IInv'
  <1> USE DEF IInv, CancelIndex, fullVars, replayVars, historyVars, indexVars, queueVars
  <1>1. TypeOK'
    BY VersionAssumption, EmptySeq DEF TypeOK, Lost, LoopStates, FullStates, Versions,
        ScanResult
  <1>2. QueueConsistent'
    BY DEF QueueConsistent, QueueOf
  <1>3. BatchInv' /\ DeferInv'
    BY DEF BatchInv, DeferInv, PastTheCheck, ReplayRunning, OnSaveRunning
  <1>4. ASSUME NEW f \in Files PROVE FileInv(f)'
    <2> USE VersionAssumption DEF FileInv, LoopHolds, ReplayHolds, PastTheCheck,
        Holding, Excused, Lost, TypeOK
    <2>1. AgeInv(f)'  BY DEF AgeInv, Versions, ScanResult
    <2>2. OldInv(f)'  BY DEF OldInv, Waiting
    <2>3. UnchangedInv(f)'  BY DEF UnchangedInv, AgeInv, Versions, ScanResult
    <2>4. TurnInv(f)'  BY DEF TurnInv, Turn, OldInv, Waiting, BatchInv, ReplayRunning
    <2>5. EdgesInv(f)'  BY DEF EdgesInv, UnchangedInv, AgeInv, Versions
    <2> QED  BY <2>1, <2>2, <2>3, <2>4, <2>5
  <1> QED  BY <1>1, <1>2, <1>3, <1>4

LEMMA FullScanIInv == ASSUME IInv, FullScan PROVE IInv'
  <1> USE DEF IInv, FullScan, fullVars, replayVars, historyVars, indexVars, queueVars
  <1>1. TypeOK'
    BY VersionAssumption, EmptySeq DEF TypeOK, Lost, LoopStates, FullStates, Versions,
        ScanResult
  <1>2. QueueConsistent'
    BY DEF QueueConsistent, QueueOf
  <1>3. BatchInv' /\ DeferInv'
    BY DEF BatchInv, DeferInv, PastTheCheck, ReplayRunning, OnSaveRunning
  <1>4. ASSUME NEW f \in Files PROVE FileInv(f)'
    <2> USE VersionAssumption DEF FileInv, LoopHolds, ReplayHolds, PastTheCheck,
        Holding, Excused, Lost, TypeOK
    <2>1. AgeInv(f)'  BY DEF AgeInv, Versions, ScanResult
    <2>2. OldInv(f)'  BY DEF OldInv, Waiting
    <2>3. UnchangedInv(f)'  BY DEF UnchangedInv, AgeInv, Versions, ScanResult
    <2>4. TurnInv(f)'  BY DEF TurnInv, Turn, OldInv, Waiting, BatchInv, ReplayRunning
    <2>5. EdgesInv(f)'  BY DEF EdgesInv, UnchangedInv, AgeInv, Versions
    <2> QED  BY <2>1, <2>2, <2>3, <2>4, <2>5
  <1> QED  BY <1>1, <1>2, <1>3, <1>4

LEMMA FullResolveIInv == ASSUME IInv, FullResolve PROVE IInv'
  <1> USE DEF IInv, FullResolve, fullVars, replayVars, historyVars, indexVars, queueVars
  <1>1. TypeOK'
    BY VersionAssumption, EmptySeq DEF TypeOK, Lost, LoopStates, FullStates, Versions,
        ScanResult
  <1>2. QueueConsistent'
    BY DEF QueueConsistent, QueueOf
  <1>3. BatchInv' /\ DeferInv'
    BY DEF BatchInv, DeferInv, PastTheCheck, ReplayRunning, OnSaveRunning
  <1>4. ASSUME NEW f \in Files PROVE FileInv(f)'
    <2> USE VersionAssumption DEF FileInv, LoopHolds, ReplayHolds, PastTheCheck,
        Holding, Excused, Lost, TypeOK
    <2>1. AgeInv(f)'  BY DEF AgeInv, Versions, ScanResult
    <2>2. OldInv(f)'  BY DEF OldInv, Waiting
    <2>3. UnchangedInv(f)'  BY DEF UnchangedInv, AgeInv, Versions, ScanResult
    <2>4. TurnInv(f)'  BY DEF TurnInv, Turn, OldInv, Waiting, BatchInv, ReplayRunning
    <2>5. EdgesInv(f)'  BY DEF EdgesInv, UnchangedInv, AgeInv, Versions
    <2> QED  BY <2>1, <2>2, <2>3, <2>4, <2>5
  <1> QED  BY <1>1, <1>2, <1>3, <1>4

LEMMA FullStoreIInv == ASSUME IInv, FullStore PROVE IInv'
  <1> USE DEF IInv, FullStore, ReplaceIndex, fullVars, replayVars, historyVars,
      indexVars, queueVars
  <1>1. TypeOK'
    BY VersionAssumption, EmptySeq DEF TypeOK, Lost, LoopStates, FullStates, Versions,
        ScanResult
  <1>2. QueueConsistent'
    BY DEF QueueConsistent, QueueOf
  <1>3. BatchInv' /\ DeferInv'
    BY DEF BatchInv, DeferInv, QueueConsistent, PastTheCheck, ReplayRunning,
        OnSaveRunning
  <1>4. ASSUME NEW f \in Files PROVE FileInv(f)'
    <2> USE VersionAssumption DEF FileInv, LoopHolds, ReplayHolds, PastTheCheck,
        Holding, Excused, Lost, TypeOK, QueueConsistent
    <2>1. AgeInv(f)'  BY DEF AgeInv, Versions, ScanResult
    <2>2. OldInv(f)'  BY DEF OldInv, Waiting
    <2>3. UnchangedInv(f)'  BY DEF UnchangedInv, AgeInv, Versions, ScanResult
    <2>4. TurnInv(f)'  BY DEF TurnInv, Turn, OldInv, Waiting, BatchInv, ReplayRunning
    <2>5. EdgesInv(f)'  BY DEF EdgesInv, UnchangedInv, AgeInv, Versions
    <2> QED  BY <2>1, <2>2, <2>3, <2>4, <2>5
  <1> QED  BY <1>1, <1>2, <1>3, <1>4

LEMMA FullAppendIInv == ASSUME IInv, FullAppend PROVE IInv'
  <1> USE DEF IInv, FullAppend, AppendEdges, fullVars, replayVars, historyVars,
      indexVars, queueVars
  <1>1. /\ deferred' \subseteq deferred /\ batch' \subseteq Files
        /\ replayFile' \in Files
        /\ indexing' \in BOOLEAN /\ (indexing' <=> fullAt' # "idle")
        /\ fullAt' \in {"idle", "replayScan"}
        /\ batch' # {} => fullAt' = "replayScan"
        /\ fullAt' = "replayScan" => {} # {} \/ deferred # {}
        /\ \A f \in {} \cup deferred :
             /\ indexing'
             /\ f \in deferred' \/ f \in batch' \/ (replayFile' = f /\ fullAt' =
                 "replayScan")
    BY ReplayFromBatch DEF TypeOK, QueueConsistent
  <1>2. TypeOK'
    BY <1>1, VersionAssumption, EmptySeq DEF TypeOK, Lost, LoopStates, FullStates,
        Versions, ScanResult
  <1>3. QueueConsistent'
    BY <1>1 DEF QueueConsistent, QueueOf
  <1>4. BatchInv' /\ DeferInv'
    BY <1>1 DEF BatchInv, DeferInv, QueueConsistent, PastTheCheck, ReplayRunning,
        OnSaveRunning
  <1>5. ASSUME NEW f \in Files PROVE FileInv(f)'
    <2> USE <1>1, VersionAssumption DEF FileInv, LoopHolds, ReplayHolds, PastTheCheck,
        Holding, Excused, Lost, TypeOK, QueueConsistent
    <2>1. AgeInv(f)'  BY DEF AgeInv, Versions, ScanResult
    <2>2. OldInv(f)'  BY DEF OldInv, Waiting
    <2>3. UnchangedInv(f)'  BY DEF UnchangedInv, AgeInv, Versions, ScanResult
    <2>4. TurnInv(f)'  BY DEF TurnInv, Turn, OldInv, Waiting, BatchInv, ReplayRunning
    <2>5. EdgesInv(f)'  BY DEF EdgesInv, UnchangedInv, AgeInv, Versions
    <2> QED  BY <2>1, <2>2, <2>3, <2>4, <2>5
  <1> QED  BY <1>2, <1>3, <1>4, <1>5

LEMMA FullFailsIInv == ASSUME IInv, FullFails PROVE IInv'
  <1> USE DEF IInv, FullFails, ReplaceIndex, AppendEdges, PerhapsStored,
      IndexingAfterFailure, fullVars, replayVars, historyVars, indexVars, queueVars
  <1>1. TypeOK'
    <2>1. db' \in [Files -> Versions] /\ edges' \in [Files -> SUBSET Versions]
      BY DEF TypeOK, ScanResult
    <2>2. /\ dropped' \subseteq Files /\ endedEarly' \in BOOLEAN
          /\ indexing' \in BOOLEAN /\ fullAt' \in FullStates
      BY AppendAssumption DEF TypeOK, Lost, FullStates
    <2> QED
      BY <2>1, <2>2 DEF TypeOK, LoopStates
  <1>2. QueueConsistent'
    BY DEF QueueConsistent, QueueOf
  <1>3. BatchInv' /\ DeferInv'
    BY DEF BatchInv, DeferInv, QueueConsistent, PastTheCheck, ReplayRunning,
        OnSaveRunning
  <1>4. ASSUME NEW f \in Files PROVE FileInv(f)'
    <2> USE VersionAssumption DEF FileInv, LoopHolds, ReplayHolds, PastTheCheck,
        Holding, Excused, Lost, TypeOK, QueueConsistent
    <2>1. AgeInv(f)'  BY DEF AgeInv, Versions, ScanResult
    <2>2. OldInv(f)'  BY DEF OldInv, Waiting
    <2>3. UnchangedInv(f)'  BY DEF UnchangedInv, AgeInv, Versions, ScanResult
    <2>4. TurnInv(f)'  BY DEF TurnInv, Turn, OldInv, Waiting, BatchInv, ReplayRunning
    <2>5. EdgesInv(f)'  BY DEF EdgesInv, UnchangedInv, AgeInv, Versions
    <2> QED  BY <2>1, <2>2, <2>3, <2>4, <2>5
  <1> QED  BY <1>1, <1>2, <1>3, <1>4

LEMMA ReplayScanIInv == ASSUME IInv, ReplayScan PROVE IInv'
  <1> USE DEF IInv, ReplayScan, ScanFile, fullVars, replayVars, historyVars, indexVars,
      queueVars
  <1>1. TypeOK'
    BY VersionAssumption, EmptySeq DEF TypeOK, Lost, LoopStates, FullStates, Versions,
        ScanResult
  <1>2. QueueConsistent'
    BY DEF QueueConsistent, QueueOf
  <1>3. BatchInv' /\ DeferInv'
    BY DEF BatchInv, DeferInv, PastTheCheck, ReplayRunning, OnSaveRunning
  <1>4. ASSUME NEW f \in Files PROVE FileInv(f)'
    <2> USE VersionAssumption DEF FileInv, LoopHolds, ReplayHolds, PastTheCheck,
        Holding, Excused, Lost, TypeOK
    <2>1. AgeInv(f)'  BY DEF AgeInv, Versions, ScanResult
    <2>2. OldInv(f)'  BY DEF OldInv, Waiting
    <2>3. UnchangedInv(f)'  BY DEF UnchangedInv, AgeInv, Versions, ScanResult
    <2>4. TurnInv(f)'  BY DEF TurnInv, Turn, OldInv, Waiting, BatchInv, ReplayRunning
    <2>5. EdgesInv(f)'  BY DEF EdgesInv, UnchangedInv, AgeInv, Versions
    <2> QED  BY <2>1, <2>2, <2>3, <2>4, <2>5
  <1> QED  BY <1>1, <1>2, <1>3, <1>4

LEMMA ReplayStoreIInv == ASSUME IInv, ReplayStore PROVE IInv'
  <1> USE DEF IInv, ReplayStore, StoreFileDelta, fullVars, replayVars, historyVars,
      indexVars, queueVars
  <1>1. /\ deferred' \subseteq deferred /\ batch' \subseteq Files
        /\ replayFile' \in Files
        /\ indexing' \in BOOLEAN /\ (indexing' <=> fullAt' # "idle")
        /\ fullAt' \in {"idle", "replayScan"}
        /\ batch' # {} => fullAt' = "replayScan"
        /\ fullAt' = "replayScan" => batch # {} \/ deferred # {}
        /\ \A f \in batch \cup deferred :
             /\ indexing'
             /\ f \in deferred' \/ f \in batch' \/ (replayFile' = f /\ fullAt' =
                 "replayScan")
    BY ReplayFromBatch DEF TypeOK, QueueConsistent
  <1>2. TypeOK'
    BY <1>1, VersionAssumption, EmptySeq DEF TypeOK, Lost, LoopStates, FullStates,
        Versions, ScanResult
  <1>3. QueueConsistent'
    BY <1>1 DEF QueueConsistent, QueueOf
  <1>4. BatchInv' /\ DeferInv'
    BY <1>1 DEF BatchInv, DeferInv, PastTheCheck, ReplayRunning, OnSaveRunning
  <1>5. ASSUME NEW f \in Files PROVE FileInv(f)'
    <2> USE <1>1, VersionAssumption DEF FileInv, LoopHolds, ReplayHolds, PastTheCheck,
        Holding, Excused, Lost, TypeOK
    <2>1. AgeInv(f)'  BY DEF AgeInv, Versions, ScanResult
    <2>2. OldInv(f)'  BY DEF OldInv, Waiting
    <2>3. UnchangedInv(f)'  BY DEF UnchangedInv, AgeInv, Versions, ScanResult
    <2>4. TurnInv(f)'  BY DEF TurnInv, Turn, OldInv, Waiting, BatchInv, ReplayRunning
    <2>5. EdgesInv(f)'  BY DEF EdgesInv, UnchangedInv, AgeInv, Versions
    <2> QED  BY <2>1, <2>2, <2>3, <2>4, <2>5
  <1> QED  BY <1>2, <1>3, <1>4, <1>5

LEMMA ReplayFailsIInv == ASSUME IInv, ReplayFails PROVE IInv'
  <1> USE DEF IInv, ReplayFails, StoreFileDelta, PerhapsStored, ReplayRunning, fullVars,
      replayVars, historyVars, indexVars, queueVars
  <1>1. /\ deferred' \subseteq deferred /\ batch' \subseteq Files
        /\ replayFile' \in Files
        /\ indexing' \in BOOLEAN /\ (indexing' <=> fullAt' # "idle")
        /\ fullAt' \in {"idle", "replayScan"}
        /\ batch' # {} => fullAt' = "replayScan"
        /\ fullAt' = "replayScan" => batch # {} \/ deferred # {}
        /\ \A f \in batch \cup deferred :
             /\ indexing'
             /\ f \in deferred' \/ f \in batch' \/ (replayFile' = f /\ fullAt' =
                 "replayScan")
    BY ReplayFromBatch DEF TypeOK, QueueConsistent
  <1>2. TypeOK'
    <2>1. db' \in [Files -> Versions] /\ edges' \in [Files -> SUBSET Versions]
      BY DEF TypeOK, ScanResult
    <2> QED
      BY <1>1, <2>1 DEF TypeOK, Lost, LoopStates, FullStates
  <1>3. QueueConsistent'
    BY <1>1 DEF QueueConsistent, QueueOf
  <1>4. BatchInv' /\ DeferInv'
    BY <1>1 DEF BatchInv, DeferInv, PastTheCheck, OnSaveRunning
  <1>5. ASSUME NEW f \in Files PROVE FileInv(f)'
    <2> USE <1>1, VersionAssumption DEF FileInv, LoopHolds, ReplayHolds, PastTheCheck,
        Holding, Excused, Lost, TypeOK
    <2>1. AgeInv(f)'  BY DEF AgeInv, Versions, ScanResult
    <2>2. OldInv(f)'  BY DEF OldInv, Waiting
    <2>3. UnchangedInv(f)'  BY DEF UnchangedInv, AgeInv, Versions, ScanResult
    <2>4. TurnInv(f)'  BY DEF TurnInv, Turn, OldInv, Waiting, BatchInv
    <2>5. EdgesInv(f)'  BY DEF EdgesInv, UnchangedInv, AgeInv, Versions
    <2> QED  BY <2>1, <2>2, <2>3, <2>4, <2>5
  <1> QED  BY <1>2, <1>3, <1>4, <1>5

-----------------------------------------------------------------------------
LEMMA StutterIInv == ASSUME IInv, UNCHANGED vars PROVE IInv'
  <1> USE DEF IInv, vars, fullVars, replayVars, historyVars, indexVars, queueVars
  <1>1. TypeOK' /\ QueueConsistent' /\ BatchInv' /\ DeferInv'
    BY DEF TypeOK, QueueConsistent, BatchInv, DeferInv, ReplayRunning, PastTheCheck
  <1>2. ASSUME NEW f \in Files PROVE FileInv(f)'
    BY DEF FileInv, AgeInv, OldInv, UnchangedInv, TurnInv, EdgesInv, Waiting, Turn, Excused,
           Holding, LoopHolds, ReplayHolds, PastTheCheck
  <1> QED  BY <1>1, <1>2

LEMMA NextIInv == IInv /\ [Next]_vars => IInv'
  <1> SUFFICES ASSUME IInv, [Next]_vars PROVE IInv'  OBVIOUS
  <1>1. ASSUME NEW f \in Files, Save(f) \/ DebounceFires(f) PROVE IInv'
    BY <1>1, SaveIInv, DebounceFiresIInv
  <1>2. CASE LoopStep
    BY <1>2, DeferIInv, ReadyIInv, SkipIInv, CheckThrowsIInv, ServerEnsuredIInv,
       OnSaveScanIInv, OnSaveStoreIInv, OnSaveFailsIInv DEF LoopStep
  <1>3. CASE Dispose \/ StartIndex \/ CancelIndex
    BY <1>3, DisposeIInv, StartIndexIInv, CancelIndexIInv
  <1>4. CASE FullStep
    BY <1>4, FullScanIInv, FullResolveIInv, FullStoreIInv, FullAppendIInv, FullFailsIInv,
       ReplayScanIInv, ReplayStoreIInv, ReplayFailsIInv DEF FullStep
  <1>5. CASE UNCHANGED vars  BY <1>5, StutterIInv
  <1> QED  BY <1>1, <1>2, <1>3, <1>4, <1>5 DEF Next

LEMMA Inductive == Spec => []IInv
  <1> QED  BY InitIInv, NextIInv, PTL DEF Spec

\* Every variable of the scheduler keeps to its type.
THEOREM TypeCorrect == Spec => []TypeOK
  <1>1. IInv => TypeOK  BY DEF IInv
  <1> QED  BY <1>1, Inductive, PTL

\* queuedFiles and queuedSet never disagree, and the flags that keep a second
\* loop or a second full index from starting are never left behind.
THEOREM QueueStaysConsistent == Spec => []QueueConsistent
  <1>1. IInv => QueueConsistent  BY DEF IInv
  <1> QED  BY <1>1, Inductive, PTL

\* The replay of a full index is the only writer of deltas as long as no full
\* index failed or was cancelled, whatever else is in flight when it starts.
THEOREM ReplayIsSerial == Spec => []ConcurrentDeltasOnlyAfterFailure
  <1>1. IInv => ConcurrentDeltasOnlyAfterFailure
    BY DEF IInv, DeferInv, ConcurrentDeltasOnlyAfterFailure, OnSaveRunning, PastTheCheck
  <1> QED  BY <1>1, Inductive, PTL

\* An index at rest shows the last saved version of every file, however many
\* files and saves there are, but for the two excuses.
THEOREM IndexAtRestIsFresh == Spec => []RestIsFresh
  <1>1. ASSUME IInv, NEW f \in Files, ~Owed(f), ~Excused(f) PROVE Fresh(f)
    <2>1. fullAt = "idle" /\ ~indexing /\ batch = {}
      BY <1>1 DEF IInv, QueueConsistent, BatchInv, ReplayRunning, Owed
    <2>2. ~Turn(f) /\ ~LoopHolds(f) /\ ~ReplayHolds(f)
      BY <1>1, <2>1 DEF Owed, Turn, LoopHolds, ReplayHolds
    <2>3. db[f] = ver[f]  BY <1>1, <2>2 DEF IInv, FileInv, TurnInv
    <2>4. edges[f] = {ver[f]}  BY <1>1, <2>1, <2>3 DEF IInv, FileInv, EdgesInv
    <2> QED  BY <2>3, <2>4 DEF Fresh
  <1>2. IInv => RestIsFresh  BY <1>1 DEF RestIsFresh
  <1> QED  BY <1>2, Inductive, PTL
=============================================================================
