---------------------------- MODULE IndexScheduler ----------------------------
(***************************************************************************)
(* When the extension indexes what: the on-save queue                      *)
(* (build-with-me/src/features/indexing/onSaveIndexer.ts) and the full     *)
(* index with its replay (build-with-me/src/ui/panels/indexPanel.ts), down *)
(* to the requests lspBridge.ts sends to the daemon.                       *)
(*                                                                         *)
(* Both are async functions of one event loop: an action is what runs      *)
(* between two awaits.  A file has a version.  The index holds, for each   *)
(* file, the version its symbols were scanned from and the versions its    *)
(* outgoing call edges were resolved from.                                 *)
(*                                                                         *)
(* Faults: a language server that is not ready or whose check rejects, a   *)
(* daemon that does not start, a request that fails or times out (the      *)
(* daemon may still carry it out), a cancelled index, a deactivation.      *)
(***************************************************************************)
EXTENDS Naturals, Sequences

CONSTANTS
    Files,       \* source files of supported languages
    AppendFiles, \* those whose edges do not fit into the first edge batch
    MaxVersion,  \* bound: how often a file is saved
    Faults       \* which faults happen: a subset of FaultKinds

FaultKinds ==
    {"notReady", "checkThrows", "noServer", "onSave", "full", "cancel", "dispose"}

ASSUME AppendAssumption == AppendFiles \subseteq Files
ASSUME VersionAssumption == MaxVersion \in Nat
ASSUME FaultsAssumption == Faults \subseteq FaultKinds

VARIABLES
    ver,         \* saved version of each file
    db,          \* the version the symbols (and their hashes) of a file are of
    edges,       \* the versions the call edges out of a file are of
    active,      \* the extension was not deactivated
    \* onSaveIndexer.ts
    timers,      \* debounceTimers: files whose debounce runs
    queue,       \* queuedFiles
    queuedSet,   \* queuedSet
    processing,  \* processing
    loopAt,      \* which await of processQueue the loop is at
    loopFile,    \* filePath of the current iteration
    loopScan,    \* what its index.scanFile returned
    \* indexPanel.ts
    indexing,    \* indexing
    cancelled,   \* cancelRequested
    deferred,    \* filesSavedDuringIndex
    fullAt,      \* which await of the startIndex handler it is at
    snap,        \* the versions index.scan returned
    batch,       \* files of the batch that were not replayed yet
    replayFile,  \* the file that is replayed
    replayScan,  \* what its index.scanFile returned
    \* History.
    dropped,     \* files whose last turn a fault took away
    mixed,       \* files whose delta was stored under another run's feet
    endedEarly   \* some full index failed or was cancelled

indexVars == <<db, edges>>
queueVars == <<timers, queue, queuedSet, processing, loopAt, loopFile, loopScan>>
replayVars == <<batch, replayFile, replayScan>>
fullVars == <<indexing, cancelled, fullAt, snap, replayVars>>
historyVars == <<dropped, mixed, endedEarly>>
vars == <<ver, indexVars, active, queueVars, fullVars, deferred, historyVars>>

Versions == 0 .. MaxVersion
ScanResult == [seen : Versions, changed : BOOLEAN]
LoopStates == {"idle", "checkReady", "ensureServer", "scan", "store"}
FullStates == {"idle", "scan", "lsp", "store", "append", "replayScan", "replayStore"}

OnSaveRunning == loopAt \in {"scan", "store"}
ReplayRunning == fullAt \in {"replayScan", "replayStore"}

Init ==
    /\ ver = [f \in Files |-> 0]
    /\ db = [f \in Files |-> 0] /\ edges = [f \in Files |-> {0}]
    /\ active = TRUE
    /\ timers = {} /\ queue = <<>> /\ queuedSet = {} /\ processing = FALSE
    /\ loopAt = "idle" /\ loopFile \in Files
    /\ loopScan = [seen |-> 0, changed |-> FALSE]
    /\ indexing = FALSE /\ cancelled = FALSE /\ deferred = {}
    /\ fullAt = "idle" /\ snap = [f \in Files |-> 0]
    /\ batch = {} /\ replayFile = loopFile /\ replayScan = loopScan
    /\ dropped = {} /\ mixed = {} /\ endedEarly = FALSE

-----------------------------------------------------------------------------
(* The daemon's side of runOnSaveLSPIndex: index.scanFile reads the file   *)
(* and reports what differs from the stored hashes; index.storeFileDelta   *)
(* replaces the symbols, and the edges of what was reported to differ.     *)

ScanFile(f) == [seen |-> ver[f], changed |-> ver[f] # db[f]]

StoreFileDelta(f, scan) ==
    /\ db' = [db EXCEPT ![f] = scan.seen]
    /\ edges' = IF scan.changed THEN [edges EXCEPT ![f] = {scan.seen}] ELSE edges

\* A request that failed was carried out all the same, or it was not.
PerhapsStored(stored) == stored \/ UNCHANGED indexVars

\* A fault took the file's turn; it still gets one if it waits for one.
Lost(files) == files \ (timers \cup queuedSet)

-----------------------------------------------------------------------------
(* onDidSaveTextDocument and processQueue.                                 *)

\* (Re)start the debounce of the file.
Save(f) ==
    /\ active
    /\ ver[f] < MaxVersion
    /\ ver' = [ver EXCEPT ![f] = @ + 1]
    /\ timers' = timers \cup {f}
    /\ dropped' = dropped \ {f} /\ mixed' = mixed \ {f}
    /\ UNCHANGED <<indexVars, active, queue, queuedSet, processing, loopAt, loopFile,
                   loopScan, fullVars, deferred, endedEarly>>

\* The head of the while loop, up to the await of checkReady: take the next
\* file, or leave the loop.  The mutant shifts an empty queue.
IterateUnchecked(q, set) ==
    /\ processing' = TRUE /\ loopAt' = "checkReady"
    /\ IF q = <<>>
       THEN queue' = q /\ queuedSet' = set /\ loopFile' = "undefined"
       ELSE queue' = Tail(q) /\ queuedSet' = set \ {Head(q)} /\ loopFile' = Head(q)
Iterate(q, set) ==
    IF q = <<>>
    THEN /\ queue' = q /\ queuedSet' = set
         /\ processing' = FALSE /\ loopAt' = "idle" /\ UNCHANGED loopFile
    ELSE /\ queue' = Tail(q) /\ queuedSet' = set \ {Head(q)}
         /\ processing' = TRUE /\ loopAt' = "checkReady" /\ loopFile' = Head(q)

Continue == Iterate(queue, queuedSet)

\* enqueueFile, with the processQueue it calls.
Enqueue(f) ==
    IF f \in queuedSet
    THEN UNCHANGED <<queue, queuedSet, processing, loopAt, loopFile>>
    ELSE IF processing
         THEN /\ queue' = Append(queue, f) /\ queuedSet' = queuedSet \cup {f}
              /\ UNCHANGED <<processing, loopAt, loopFile>>
         ELSE Iterate(Append(queue, f), queuedSet \cup {f})

DebounceFires(f) ==
    /\ f \in timers
    /\ timers' = timers \ {f}
    /\ Enqueue(f)
    /\ UNCHANGED <<ver, indexVars, active, loopScan, fullVars, deferred, historyVars>>

MayProceed == ~indexing

\* Ready, and a full index is running: leave the file to its replay.
\* The mutant lacks the continue, and the iteration goes on.
DeferAndProceed ==
    /\ loopAt = "checkReady" /\ ~MayProceed
    /\ deferred' = deferred \cup {loopFile}
    /\ loopAt' = "ensureServer"
    /\ UNCHANGED <<ver, indexVars, active, timers, queue, queuedSet, processing,
                   loopFile, loopScan, fullVars, historyVars>>
Defer ==
    /\ loopAt = "checkReady" /\ ~MayProceed
    /\ deferred' = deferred \cup {loopFile}
    /\ Continue
    /\ UNCHANGED <<ver, indexVars, active, timers, loopScan, fullVars, historyVars>>

\* Ready, and no full index is running.
Ready ==
    /\ loopAt = "checkReady" /\ MayProceed
    /\ loopAt' = "ensureServer"
    /\ UNCHANGED <<ver, indexVars, active, timers, queue, queuedSet, processing,
                   loopFile, loopScan, fullVars, deferred, historyVars>>

\* Switched off meanwhile, not ready, or no daemon: the file is passed over.
Skip ==
    /\ \/ loopAt = "checkReady" /\ "notReady" \in Faults
       \/ loopAt = "ensureServer" /\ "noServer" \in Faults
    /\ dropped' = dropped \cup Lost({loopFile})
    /\ Continue
    /\ UNCHANGED <<ver, indexVars, active, timers, loopScan, fullVars, deferred,
                   mixed, endedEarly>>

\* checkReady rejects: there is a finally and no catch, so the loop ends and
\* what is queued stays queued.
CheckThrows ==
    /\ loopAt = "checkReady" /\ "checkThrows" \in Faults
    /\ processing' = FALSE /\ loopAt' = "idle"
    /\ dropped' = dropped \cup Lost({loopFile})
    /\ UNCHANGED <<ver, indexVars, active, timers, queue, queuedSet, loopFile, loopScan,
                   fullVars, deferred, mixed, endedEarly>>

ServerEnsured ==
    /\ loopAt = "ensureServer"
    /\ loopAt' = "scan"
    /\ UNCHANGED <<ver, indexVars, active, timers, queue, queuedSet, processing,
                   loopFile, loopScan, fullVars, deferred, historyVars>>

OnSaveScan ==
    /\ loopAt = "scan"
    /\ loopScan' = ScanFile(loopFile)
    /\ loopAt' = "store"
    /\ UNCHANGED <<ver, indexVars, active, timers, queue, queuedSet, processing,
                   loopFile, fullVars, deferred, historyVars>>

\* This delta is stored between the two batches of a full index, or between
\* the scan and the store of a replay of the same file.
Collision ==
    IF fullAt = "append" \/ (fullAt = "replayStore" /\ replayFile = loopFile)
    THEN {loopFile} ELSE {}

OnSaveStore ==
    /\ loopAt = "store"
    /\ StoreFileDelta(loopFile, loopScan)
    /\ mixed' = mixed \cup Collision
    /\ Continue
    /\ UNCHANGED <<ver, active, timers, loopScan, fullVars, deferred, dropped, endedEarly>>

\* It throws: logged, and on to the next file.
OnSaveFails ==
    /\ OnSaveRunning /\ "onSave" \in Faults
    /\ IF loopAt = "store"
       THEN PerhapsStored(StoreFileDelta(loopFile, loopScan)) ELSE UNCHANGED indexVars
    /\ mixed' = mixed \cup Collision
    /\ dropped' = dropped \cup Lost({loopFile})
    /\ Continue
    /\ UNCHANGED <<ver, active, timers, loopScan, fullVars, deferred, endedEarly>>

\* The disposable of registerOnSaveIndexing; its listener goes with it.
Dispose ==
    /\ active /\ "dispose" \in Faults
    /\ active' = FALSE
    /\ timers' = {} /\ queue' = <<>> /\ queuedSet' = {}
    /\ dropped' = dropped \cup timers \cup queuedSet
    /\ UNCHANGED <<ver, indexVars, processing, loopAt, loopFile, loopScan, fullVars,
                   deferred, mixed, endedEarly>>

-----------------------------------------------------------------------------
(* The messages of the index panel.                                        *)

StartIndex ==
    /\ active
    /\ ~indexing
    /\ indexing' = TRUE /\ cancelled' = FALSE
    /\ fullAt' = "scan"
    /\ UNCHANGED <<ver, indexVars, active, queueVars, snap, replayVars, deferred, historyVars>>

CancelIndex ==
    /\ active /\ "cancel" \in Faults
    /\ cancelled' = TRUE
    /\ UNCHANGED <<ver, indexVars, active, queueVars, indexing, fullAt, snap, replayVars,
                   deferred, historyVars>>

\* The daemon is there; index.scan reads every file.
FullScan ==
    /\ fullAt = "scan"
    /\ snap' = ver
    /\ fullAt' = "lsp"
    /\ UNCHANGED <<ver, indexVars, active, queueVars, indexing, cancelled, replayVars,
                   deferred, historyVars>>

\* The loop over the symbols and the last look at cancelRequested.
FullResolve ==
    /\ fullAt = "lsp" /\ ~cancelled
    /\ fullAt' = "store"
    /\ UNCHANGED <<ver, indexVars, active, queueVars, indexing, cancelled, snap, replayVars,
                   deferred, historyVars>>

\* index.storeEdges replaces the index by the scanned symbols and the first
\* batch of edges ...
ReplaceIndex ==
    /\ db' = snap
    /\ edges' = [f \in Files |-> IF f \in AppendFiles THEN {} ELSE {snap[f]}]

FullStore ==
    /\ fullAt = "store"
    /\ ReplaceIndex
    /\ mixed' = {}
    /\ fullAt' = "append"
    /\ UNCHANGED <<ver, active, queueVars, indexing, cancelled, snap, replayVars,
                   deferred, dropped, endedEarly>>

\* ... and index.appendEdges adds the others.
AppendEdges ==
    /\ edges' = [f \in Files |->
                   IF f \in AppendFiles THEN edges[f] \cup {snap[f]} ELSE edges[f]]
    /\ UNCHANGED db

\* The head of the replay loops: the next file of the batch, a new batch of
\* what was deferred meanwhile, or the end.  The mutant only ever replays
\* one batch.
DrainOnce(left) ==
    IF left # {} THEN left ELSE IF ReplayRunning THEN {} ELSE deferred
Drain(left) == IF left # {} THEN left ELSE deferred

ReplayFrom(left) ==
    /\ deferred' = IF left = {} THEN {} ELSE deferred
    /\ IF Drain(left) = {}
       THEN /\ indexing' = FALSE /\ fullAt' = "idle" /\ batch' = {}
            /\ UNCHANGED replayFile
       ELSE /\ fullAt' = "replayScan" /\ UNCHANGED indexing
            /\ replayFile' \in Drain(left)
            /\ batch' = Drain(left) \ {replayFile'}

FullAppend ==
    /\ fullAt = "append"
    /\ AppendEdges
    /\ ReplayFrom({})
    /\ UNCHANGED <<ver, active, queueVars, cancelled, snap, replayScan, historyVars>>

\* The handler's catch and finally: what was deferred stays where it is.
\* The mutant has no finally.
IndexingUnlessReset == indexing
IndexingAfterFailure == FALSE

FullFails ==
    /\ \/ fullAt \in {"scan", "lsp", "store", "append"} /\ "full" \in Faults
       \/ fullAt = "lsp" /\ cancelled
    /\ CASE fullAt = "store" -> PerhapsStored(ReplaceIndex)
         [] fullAt = "append" -> PerhapsStored(AppendEdges)
         [] OTHER -> UNCHANGED indexVars
    /\ indexing' = IndexingAfterFailure /\ fullAt' = "idle"
    /\ endedEarly' = TRUE
    /\ dropped' = dropped \cup Lost(deferred)
                    \cup (IF fullAt \in {"store", "append"} THEN AppendFiles ELSE {})
    /\ UNCHANGED <<ver, active, queueVars, cancelled, snap, replayVars, deferred, mixed>>

ReplayScan ==
    /\ fullAt = "replayScan"
    /\ replayScan' = ScanFile(replayFile)
    /\ fullAt' = "replayStore"
    /\ UNCHANGED <<ver, indexVars, active, queueVars, indexing, cancelled, snap, batch,
                   replayFile, deferred, historyVars>>

ReplayStore ==
    /\ fullAt = "replayStore"
    /\ StoreFileDelta(replayFile, replayScan)
    /\ ReplayFrom(batch)
    /\ UNCHANGED <<ver, active, queueVars, cancelled, snap, replayScan, historyVars>>

\* It throws: logged, and on to the next file.
ReplayFails ==
    /\ ReplayRunning /\ "onSave" \in Faults
    /\ IF fullAt = "replayStore"
       THEN PerhapsStored(StoreFileDelta(replayFile, replayScan)) ELSE UNCHANGED indexVars
    /\ dropped' = dropped \cup Lost({replayFile})
    /\ ReplayFrom(batch)
    /\ UNCHANGED <<ver, active, queueVars, cancelled, snap, replayScan, mixed, endedEarly>>

-----------------------------------------------------------------------------
LoopStep ==
    \/ Defer \/ Ready \/ Skip \/ CheckThrows \/ ServerEnsured
    \/ OnSaveScan \/ OnSaveStore \/ OnSaveFails

FullStep ==
    \/ FullScan \/ FullResolve \/ FullStore \/ FullAppend \/ FullFails
    \/ ReplayScan \/ ReplayStore \/ ReplayFails

Next ==
    \/ \E f \in Files : Save(f) \/ DebounceFires(f)
    \/ LoopStep
    \/ Dispose
    \/ StartIndex \/ CancelIndex
    \/ FullStep

Spec == Init /\ [][Next]_vars

\* Timers fire, and every await ends: a request at the latest by its timeout.
FairSpec ==
    /\ Spec
    /\ \A f \in Files : WF_vars(DebounceFires(f))
    /\ WF_vars(LoopStep)
    /\ WF_vars(FullStep)

-----------------------------------------------------------------------------
TypeOK ==
    /\ ver \in [Files -> Versions] /\ db \in [Files -> Versions]
    /\ edges \in [Files -> SUBSET Versions]
    /\ active \in BOOLEAN
    /\ timers \subseteq Files
    /\ queue \in Seq(Files) /\ queuedSet \subseteq Files /\ processing \in BOOLEAN
    /\ loopAt \in LoopStates /\ loopFile \in Files /\ loopScan \in ScanResult
    /\ indexing \in BOOLEAN /\ cancelled \in BOOLEAN
    /\ deferred \subseteq Files
    /\ fullAt \in FullStates
    /\ snap \in [Files -> Versions]
    /\ batch \subseteq Files /\ replayFile \in Files /\ replayScan \in ScanResult
    /\ dropped \subseteq Files /\ mixed \subseteq Files /\ endedEarly \in BOOLEAN

\* queuedFiles and queuedSet hold the same files, each once, so that a save
\* is never turned away by enqueueFile without being queued, and the flags
\* processing and indexing are raised exactly while their function runs.
QueueConsistent ==
    /\ {queue[i] : i \in DOMAIN queue} = queuedSet
    /\ \A i, j \in DOMAIN queue : queue[i] = queue[j] => i = j
    /\ processing <=> loopAt # "idle"
    /\ indexing <=> fullAt # "idle"

\* The on-save loop and the replay of a full index store deltas at the same
\* time only after some earlier full index failed or was cancelled and left
\* files in filesSavedDuringIndex.
ConcurrentDeltasOnlyAfterFailure ==
    OnSaveRunning /\ ReplayRunning => endedEarly

\* The comment at the check of isFullIndexRunning in onSaveIndexer.ts:
\* "suppress on-save during full index to avoid overwriting stale data".
OnSaveSuppressedDuringFull == ~(OnSaveRunning /\ indexing)

\* The index shows the saved version of the file and its edges only.
Fresh(f) == db[f] = ver[f] /\ edges[f] = {ver[f]}

\* The file waits in a queue whose loop a rejected check ended.
Stalled(f) == f \in queuedSet /\ ~processing

\* The extension still owes the file a turn, or is taking it.
Owed(f) ==
    \/ f \in timers \cup queuedSet
    \/ f = loopFile /\ loopAt # "idle"
    \/ indexing

\* What excuses the index: since the file was saved last, a fault took its
\* turn, or a delta of it collided with a full index or its replay.
Excused(f) == f \in dropped \cup mixed

\* However saves, on-save runs and full indexes interleaved, an index that
\* owes the file nothing shows its last saved version and edges of no other,
\* unless it is excused.
RestIsFresh == \A f \in Files : Owed(f) \/ Fresh(f) \/ Excused(f)

\* When the saves stop, the index comes to show the last saved version of
\* every file (time and again, as each full index empties it first), unless
\* it is excused or the file was left in the queue.
SettlesFresh ==
    \A f \in Files : []<>(Fresh(f) \/ Excused(f) \/ Stalled(f))
=============================================================================
