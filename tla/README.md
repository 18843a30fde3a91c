# Verification of Build-With-Me

Build-With-Me is a VS Code extension (`build-with-me/`), a graph view that runs
in one of its webviews (`graph-viz/`), and a Go daemon (`server/`) that keeps a
SQLite database of the symbols and calls of a workspace, of what the user drew
on top of them, and of mask sessions. This directory holds TLA+ models of its
core, the TLC runs that check them, and TLAPS proofs about them.

Paths below are relative to the repository. `PROJECT.json` maps every modelled
definition to its lines, lists the hazards, and pairs each property with a
mutation of the modelled code that breaks it.

## 1. The system

```
 graph-viz webview --postMessage--> extension host --stdin/stdout JSON lines--> fypd -> SQLite
   (webviewTransport)   (graphPanel)  |  apiStdioServer (one connection)        |
                                      |  onSaveIndexer, indexPanel, lspBridge   |
                                      |  language servers (call hierarchy)      |
 AI assistant ---- MCP over stdio ----------------------------> fyp MCP server -+
```

| Component | State | Operations | What makes it correct |
|---|---|---|---|
| API client, `apiStdioServer.ts` | one process handle, one id counter, one map of pending requests and one line buffer, shared by all processes ever spawned | start, send, response, timeout, write error, exit, stop | every call is settled, by its own response or an error; none is lost or mixed up across restarts |
| Daemon loop, `stdio_server.go` | the store it serves from | read, dispatch, answer; `db.refresh` | one answer per line, in order; never serves from a closed store |
| On-save indexer, `onSaveIndexer.ts` | debounce timers, queue and its set, `processing` | save, debounce, loop, dispose | each save is indexed in the end; runs do not overlap a full index |
| Index panel, `indexPanel.ts` | `indexing`, `cancelRequested`, `filesSavedDuringIndex` | startIndex, cancelIndex, replay | what is saved during a full index is replayed after it |
| LSP bridge, `lspBridge.ts` | locals across awaits: scanned symbols, collected calls, edges | full run, on-save run | the stored edges are the calls of the saved text |
| Index tables, `store.go`, `store_incremental.go`, `handlers_index_lsp.go` | `symbols`, `method_calls`, `file_cache` | scan, scanFile, resolve, storeEdges, appendEdges, storeFileDelta, clearSymbols | no stale symbols or edges; edges the user drew survive |
| Virtual graph, `virtual_nodes.go`, `virtual_containers.go`, `annotations.go`, `callgraph.go`, `handlers_{node,edge,virtual,graph}.go` | virtual nodes and directories, annotations, manual edges | create, update, delete, clear, annotate, query | no annotation or edge outlives its ends; queries show existing nodes |
| Snapshots, `snapshots.go`, `handlers_snapshot.go` | saved JSON of a graph | create, load, list, delete, prompt | load after clear gives back what was saved; loading twice adds nothing |
| Mask sessions, `mask_sessions.go`, `mcp/handlers.go`, `handlers_validation.go` | one row per masked method, written by two processes | mask, fill, validate | `validated` says something about the code that is stored |
| Masking in the extension, `maskCodeLensProvider.ts`, `validationClient.ts` | the sessions seen in a file, diagnostics | show lenses, validate, forget | no session is forgotten before it passed; a validation ends |
| Graph panel and transport, `graphPanel.ts`, `webviewTransport.ts` | the panel that is open; per webview an id counter and pending requests | open, close, request, respond, time out | every request is settled, by its own response or an error |
| Graph view, `useGraph.ts`, `App.tsx`, `snapshotDisplay.ts`, `SnapshotsDropdown.tsx` | the graph, what of it is displayed, requests in flight | fetch, expand, create, delete, load | an answer is merged into the state it is about; what is displayed exists |
| Canvas, `GraphCanvas.tsx` | Cytoscape's elements, layers, overlay, a click that waits | render, tap, expand, select, switch layers, draw | the canvas is the graph it was given; a double click is not a click |
| Forms, `InfoPanel.tsx`, `PromptPreviewModal.tsx`, `useSelection.ts` | a copy of what is edited, save under way | select, edit, save, cancel, reset | what was asked is stored, where it was asked; buttons come back |
| Parsers, segmenters, maskers, validators | none (functions of a syntax tree) | | |
| File tree, settings, status, MCP configuration, index lock | which nodes are unfolded; configuration files; the lock is not called by anything | | |

The hard behaviours: the extension's async functions interleave at every
`await`, with saves and messages of the user in between; every request may time
out in the extension and still be carried out by the daemon; the daemon may
crash and be started anew under the same module state; a language server may
not be ready, throw, or answer about a text that is newer than the scan; a full
index is not one transaction but several requests; the same request passes two
clients with the same timeout, and its webview may be closed and opened anew
meanwhile; React shows event handlers the state of the last render; two processes
write mask sessions; a form is filled once and outlives the graph it was filled
from.

## 2. Modules

| Module | Models |
|---|---|
| `Rpc` | what a caller of the daemon may rely on, whoever it is |
| `ApiClient` | `apiStdioServer.ts` and the request loop of the daemon; implements `Rpc` |
| `WebviewTransport` | `webviewTransport.ts` and `graphPanel.ts` over a client that is `Rpc`; implements `Rpc` |
| `IndexScheduler` | when `onSaveIndexer.ts` and `indexPanel.ts` run what, at the level of versions of files |
| `IndexStore` | the transactions on `symbols` and `method_calls`, and position to symbol resolution, as pure operators |
| `Indexing` | what the runs of `lspBridge.ts` compute on those tables; extends `IndexStore` |
| `DaemonGraph` | the daemon's graph as its users may take it to be |
| `GraphStore` | virtual nodes, manual edges, annotations and snapshots in the daemon; implements `DaemonGraph` |
| `GraphView` | the graph and what is displayed of it: `useGraph.ts` and `App.tsx` around their awaits, over a daemon that is `DaemonGraph` |
| `GraphCanvas` | `GraphCanvas.tsx`: Cytoscape changed by differences, and what the user does there |
| `Editor` | the forms of `InfoPanel.tsx` and `PromptPreviewModal.tsx` |
| `Masking` | `maskCodeLensProvider.ts`, `validationClient.ts` and both writers of `mask_sessions` |
| `ApiClientProofs`, `WebviewTransportProofs`, `IndexSchedulerProofs`, `IndexingProofs`, `GraphStoreProofs`, `EditorProofs`, `MaskingProofs` | theorems about the module they are named after |
| `ViewProofs` | theorems about `GraphCanvas` and `GraphView` |
| `MC...` | instances for TLC |

How they fit together: `WebviewTransport` uses the API client as `Rpc` only, and
`ApiClient` is shown to implement `Rpc`, so the two compose. `GraphView` and
`Editor` rely on what follows for a panel: requests are answered in order, once,
or fail and may have been carried out. `GraphView` has of the daemon which nodes and
edges exist, as one graph that a request changes at once. Both this graph and the
tables of `GraphStore` are shown to implement `DaemonGraph`: what the view counts on is
what the handlers do. What the index does beneath is a `Reindex` in all three: symbols
and indexed edges become any others, and the drawn edges stay or, when the index is
rebuilt, all go. `Indexing` has the same in full; its `ManualKept` names the rebuild as
well.
`IndexScheduler` and `Indexing` are two views of one subsystem: the first has all
interleavings of the two loops and abstracts a file to its version, the second
has one run at a time and the data in full.

### Rpc

A call is unsent, waiting, answered, failed or refused; `done` are the calls the
daemon carried out. An answer needs the call to be in `done`, or in `confused`:
calls whose id was given to another one as well. Nothing is promised of a call
that failed, which may be carried out before or afterwards; `CarryOut` says so.

### ApiClient

`current`, `requestId`, `pending` and `buffer` are the module variables of
`apiStdioServer.ts`; `timers`, `writing`, `outcome` and `idOf` the closure of
each `sendApiRequest`. A process has its two pipes, and may be cut in the middle
of a line. `Start`, `StartFails`, `Send`, `SendRefused`, `TimeoutFires`,
`WriteFails`, `DataPart`, `DataLine`, `ExitEvent` and `Stop` are the functions
and event handlers; `Serve` is one turn of the daemon, `Crash` its end. A handler
runs to its end without being interrupted, so each is one action.

What is assumed of Node: the `exit` event may come before the last data of the
process' stdout, and the callback of a failed write after both. A request
that is in flight when its process dies is answered or not, and its write fails
or not. Payloads and notifications are left out: no property depends on them.

### IndexScheduler

A file has a version, `ver`, which a save increments; `db` is the version its
symbols in the daemon are of and `edges` the set of versions its outgoing edges
were resolved from. An action is what runs between two awaits; `loopAt` and
`fullAt` say at which await the on-save loop and the startIndex handler are.

- `Save`, `DebounceFires`, `Enqueue`, `Iterate`: the listener, its debounce, the
  queue and the head of the loop. `Defer`, `Ready`, `Skip` and `CheckThrows` are
  the outcomes of the await of `checkReady`, `ServerEnsured` that of
  `ensureApiServer`. `OnSaveScan`, `OnSaveStore` and `OnSaveFails` are the
  requests of `runOnSaveLSPIndex`.
- `StartIndex` to `FullAppend` are the phases of a full index, `FullFails` the
  catch and finally of the handler, `ReplayFrom`, `ReplayScan`, `ReplayStore` and
  `ReplayFails` the replay loops. Edges are stored in two requests: files in
  `AppendFiles` get theirs in the second.
- `Faults` says which failures happen. A request that failed was carried out all
  the same, or it was not (`PerhapsStored`).
- `dropped`, `mixed` and `endedEarly` are history: they name the files whose last
  turn a fault took, those whose delta was stored between two steps of another
  run, and whether a full index ended early. No guard reads them.

`changed` of a scan stands for methods and constructors, whose body hashes are
compared. `index.scanFile` reports plain functions as changed each time, which
only makes more edges fresh.

### IndexStore and Indexing

A row has an id, its first and last line, and a body: the set of symbols its
text calls. Two bodies with equal sets have equal `body_hash`. Contents of files
come from `Contents`, so a save replaces the rows of a file by another version.
Lines of calls and time stamps are left out; `method_calls` is therefore a set
where the table is a bag, and how often an edge is listed is not modelled.
Each Go method of the store is one transaction, hence one operator from tables
to tables. `table` and `calls` are the two tables; the other variables are the
locals of the run in progress.

`CalleesNow` is the language server: asked about the position a symbol was
scanned at, it shows the calls of what now stands there, on disk, and reports
callees by the line they now stand at. A full run turns these lines into symbols
by the intervals of its own scan (`ResolveByInterval`), an on-save run by the
table of before its delta (`ResolveByQuery`).

`taken` and `suspect` are history. The first has the files that waited for a run and that
the run in progress has scanned but not stored; when the run fails they wait again. The
second has the callers whose edges the code cannot vouch for:
the file of the caller changed between scan and collection, the file of a callee
was laid out differently from the rows positions are resolved by, the language
server threw, a batch was not stored, or a callee appeared in or (as a plain
function) vanished from a file while the body of the caller stayed as it was.
Each of these is decided where it happens, and a later run that resolves the
caller again clears it.

### WebviewTransport

`requestId`, `pending` and `timers` belong to each webview, `currentPanel` to
`graphPanel.ts`; `handling`, `callOf` and `target` are the arguments and the
closure of each `handleApiRequest` that is under way. `Request`, `Timeout` and
`HandleResponse` are the transport's methods, `Open`, `Started` and `Dispose` the
panel's (`Started` is what follows `await ensureApiServer`), `Receive` and `Post`
the two halves of `handleApiRequest`. `CallGoesOn` is any step `Rpc` allows of the
calls meanwhile. The messages between extension and webview keep their order and
are dropped with the webview.

### DaemonGraph

Nodes, indexed edges, drawn edges and the graphs of saved snapshots. A request is one
step on the four, or none: `Create`, `Delete`, `Draw`, `Erase`, `Clear`, `Capture`,
`Forget`, `Load`; `Reindex` changes symbols and indexed edges, and keeps the drawn edges
or takes all of them. At first there is whatever earlier sessions left. For
`GraphStore` a drawn edge is a pair with at least one manual row, and annotations,
classes and ids are not seen; for `GraphView` a snapshot that is deleted or not yet
captured is none.

### GraphStore

The variables are the columns of the tables that matter; `manual` counts the rows
of a manual edge, since `method_calls` has no key on the pair. Each handler of the
API is one action, with every statement it executes and those whose error it
ignores. Requests name any id that was given out at some time. A snapshot captures
what the panel displays, any nodes and any edges of known ids: it may be older than the
tables, and `GraphView` has executions in which an edge is displayed without its ends.
`Reindex` is `ReplaceIndexData` (or a delta): symbols and indexed calls become any others;
a rebuild deletes the manual rows too and keeps their remarks. `late`, `free`, `dangling`
and `loaded` are history: nodes annotated after they were deleted, remarks written where
no edge was drawn or left by a deletion that failed or by a rebuild, edges captured while
a virtual end of theirs was not displayed, and what the state was loaded from.

### GraphView

A handler is cut at each await. A request carries what its closure keeps (`arg`,
`closure`) and the name of what follows its answer (`then`); `Serve` is the daemon,
one action per continuation is the rest of the handler. `ref` and `shown` are what
event handlers see, `next` and `display` the newest values; `Render` makes them
equal, at any time. History: `behind` and `canvasBehind` (the daemon changed, or a
request failed, since the graph or canvas was last refreshed), `lost` (a callback
computed the graph from a `ref` that was not the newest), `raced` (the canvas
changed while clear or load were between two requests) and `given` (the ids the daemon
ever gave to virtual nodes, which are UUIDs and do not come back). A snapshot that was
deleted is `Dropped`, which a request on its way may still ask for. `Earlier` is what the
daemon may hold when the panel is opened.

Placeholders of files and directories are nodes of the view only. `Places` are those a
graph lists: the files of its symbols and their directories. A directory that holds only
directories is in no such list; the view makes it up when the user adds it
(`AddToCanvas`), and marks it stale when it is loaded with a snapshot (`SnapshotStale`). A
refresh keeps what is displayed of type directory (`Synthetic`), be it virtual and gone;
the placeholder of a file is of type class and goes. A stale mark goes with its node and,
of a directory, stays through a refresh.

### GraphCanvas

`cy` is the Cytoscape instance and `prev` `prevElementIdsRef`. `Differ` is the batch of
the graph effect in its order: edges go, nodes come, kept nodes are refreshed and
moved, children leave parents that go, nodes go, edges come. The other actions are
the listeners and effects: taps with their timer, selection, overlay, layers, keys and
edge drawing. Cytoscape is modelled by what the component relies on, named in the
module's head.

### Editor

`panel` is the component state of `NodeInfo` or `EdgeInfo`, `modal` that of the prompt
modal. A form is filled when it is mounted or its effect runs; the actions are the user's
steps and what follows each answer; closing the dropdown takes the modal along, with its
requests in flight. `NoLabel` is a label that was cleared. As nobody else writes these
documents, a request counts as carried out when it is answered. `asked` is what the user
wants to be stored; `moved`, `spoiled` and `odd` record the cases of section 4 in which the
code does otherwise.

### Masking

Of the text of the file its markers matter and whether it parses. `Validate`,
`Proceed`, `Decline`, `ValidateNext`, `Answered`, `Timeout` and `Finish` are
`validateMasksInDocument` cut at its awaits; `attached` says that the loop still goes
over the provider's own set, which grows under it. The daemon writes code and status
in two statements (`StoreFilledCode`, `StoreStatus`), either of which may fail; the MCP
server in one (`ValidateFilledCode`), with code Copilot read before. `torn` is
history: sessions whose status was written over other code.

## 3. Runs

| Run | Instance | Shows |
|---|---|---|
| `api_client` | 3 calls, 2 processes | `TypeOK`, `PendingOfCurrent`, `AnswersOfOneProcess`, `NoLostCall`, `EveryCallSettles`, `ImplementsRpc` |
| `api_restart` | 2 calls, 2 processes, no deactivation | `RestartStartsClean` is violated |
| `webview` | 2 requests, 2 panels | `TypeOK`, `EveryRequestSettles`, `ImplementsRpc` |
| `index_faults` | 2 files, one of them in the second batch, one save each, all faults | `TypeOK`, `QueueConsistent`, `ConcurrentDeltasOnlyAfterFailure`, `RestIsFresh`, `SettlesFresh` |
| `index_suppressed` | 2 files, no faults | `OnSaveSuppressedDuringFull` is violated |
| `indexing` | 2 files with 3 versions each, 2 methods and a function, 2 saves, batches of one edge, one drawn edge | `TypeOK`, `SymbolsMatch`, `CallsMatchSource`, `NoOrphans`, `ManualKept` |
| `indexing_extract` | 2 files, one save, no failures, one run after the other | `CallGraphIsExact` is violated |
| `graph_store` | 2 symbols, 2 virtual nodes, an edge of each kind, 1 snapshot | `ManualEdgesHaveEnds`, `NotesOfLiveNodes`, `NoLeakedRemarks`, `RoundTrip`, `ImplementsDaemonGraph` |
| `graph_view` | 2 symbols, a virtual directory, placeholders of a file and a directory, nothing or a snapshot of an earlier session; 4 events, 1 failure | `GraphDataInSync`, `CanvasInSync`, `SnapshotIsLive`, `ImplementsDaemonGraph` |
| `graph_canvas` | a directory, a file and a method in several small graphs; 2 renders, 2 inputs | `CanvasTypeOK`, `CanvasIsGraph`, `KeptBesideFollows`, `NoClickAfterExpansion` |
| `editor` | a virtual node, a method, an edge and 2 snapshots; 9 steps, 1 failure | `TypeOK`, `DisabledOnlyWhileAwaited`, `AskedIsStored`, `ShownIsStored` |
| `masking` | 2 sessions, 2 validations at a time, 5 events, 1 failure | `ValidatedParses`, `ForgetsOnlyValidated`, `ValidationEnds` |

The properties, in words:

- `PendingOfCurrent`: nobody is kept waiting on a process the extension let go
  of. This is what makes the `new Map()` of `startApiStdioServer` harmless.
- `AnswersOfOneProcess`: a response settles its own call or one that was given
  the same id by a later process; within one process nothing is mixed up,
  whatever times out, fails or arrives in parts.
- `NoLostCall`, `EveryCallSettles`: a waiting call is in the map with its timeout
  armed, and is settled in the end, unless its id was used twice.
- `ImplementsRpc` (twice): every step of the client, and every step of the webviews
  over that client, is a step of `Rpc` or changes nothing a caller sees. A request
  is settled at most once, and answered only when the daemon carried out this
  request and no other; for the view, unless two panels were open at a time.
  `EveryRequestSettles`: and it is settled, by the webview's timer at the latest.
- `QueueConsistent`: queue and set agree, so no save is turned away without being
  queued, and the flags are up exactly while their functions run.
- `ConcurrentDeltasOnlyAfterFailure`: a replay and the on-save loop run side by
  side only after a full index that ended early.
- `RestIsFresh`: an index that owes a file nothing shows the version saved last and
  edges of no other, unless a fault or a collision since that save is on record.
  `SettlesFresh`: and it gets there.
- `SymbolsMatch`: the symbols of a file are those saved last, unless the file still
  waits for its run. `CallsMatchSource`: the indexed edges out of a symbol are
  the calls of its body to known symbols, unless it is suspect. `NoOrphans`: no
  indexed edge starts at a method that is gone. `ManualKept`: only erasing,
  rebuilding or clearing removes a drawn edge.
- `ManualEdgesHaveEnds`, `NotesOfLiveNodes`, `NoLeakedRemarks`: no drawn edge without
  its virtual ends, no description of a node that is gone, no remark that outlives
  the edge it was written on, whichever request takes the edge (a rebuild of the index
  is no such request, and leaves it). `RoundTrip`: clear and load show what the snapshot
  captured, once, also when it is loaded again or the workspace was indexed in between.
- `ImplementsDaemonGraph` (twice): every request to the tables, and every one the view
  sends, is a step of `DaemonGraph` or none. In the tables: the rows a request writes
  in several of them agree afterwards, deleting takes every row of an edge however
  often it was drawn, and loading adds a row where the graph lacks the edge and no other.
- `GraphDataInSync`, `CanvasInSync`: when everything is answered and rendered, the view's
  graph is the daemon's, and nothing is displayed that is not there or marked so.
  `SnapshotIsLive`: of a loaded snapshot only symbols that are gone, edges without their
  ends and places the graph does not list are marked stale. All three up to the recorded
  excuses.
- `CanvasIsGraph`: after any sequence of differences, Cytoscape has what building it
  anew would give. `KeptBesideFollows`: hidden nodes and overlay follow.
  `NoClickAfterExpansion`: the second tap of a double tap is no click.
- `DisabledOnlyWhileAwaited`: a button that waits belongs to a request that will bring
  it back. `AskedIsStored`: once answered, a document holds what the user typed for it,
  and the fields he did not touch are as they were. `ShownIsStored`: and the forms show it.
- `ValidatedParses`: `validated` is said only of code that parses, between the two
  statements as well. `ForgetsOnlyValidated`: a validation whose requests were answered
  forgets only sessions that passed. `ValidationEnds`: it does end, although the set it
  goes over grows.

### Bounds

Two processes are the least with which a restart happens, and ids of the third
would collide like those of the second. Three calls allow two in one process
beside one in the other, which the mutants of `NextId` need. Likewise two panels
and two requests are the least with which a new transport reuses an id (167 564
states).

In `index_faults` two files are needed for a queue, a batch that does not fit and
a replay of another file than the loop's. One file saved three times matters too:
deferred, left behind by a failed index and replayed by the next while the loop
stores an older scan of it. The replay disjunct of `Collision` is for that case; the
attempt to prove `RestIsFresh` found it, and the proof now covers every number of
files and saves.

In `indexing` the versions were chosen so that methods move (lines of one version
resolve to another symbol in the next), vanish and come back, a function calls
and is called across files, and a file becomes empty. Two saves suffice for
leaving a version and returning to it, and give 1 769 232 states.

`graph_store` bounds the requests other than clear and the snapshots' by three
(869 591 states): creating a node, drawing an edge of it, and deleting the node or
re-indexing the other end, on either side of a capture and a load. `MaxRows` 2 lets an edge be
drawn twice. The theorems about it need no bound.

`graph_view` has three requests in flight: a flow of clear, load and fetch, another handler
in the middle of it, and a message of the extension. Four events are two of these after a
node was put on the canvas; with the snapshot of an earlier session, loading it and three
events after or meanwhile (3 602 012 states). `graph_canvas` needs two differences, as the
first starts from an empty canvas; the graphs of `MCGraphCanvas` move a method between
containers, lose the container, and change a node's kind (71 620 states). `editor` needs
selecting, editing, typing, saving, and selecting and editing something else before the
answer (1 650 725 states). `masking` needs five events for a session, its marker, a
validation, a second session and its marker while that validation goes on (131 066 states);
that the sessions an overlapping validation forgot (`attached`) are followed by others takes
six and is left to the proof.

`CHECK_DEADLOCK FALSE` appears where the system may stop: where a bound on events,
steps or renders ends a run, once the extension is deactivated, and when the user
closes the panel for good; in `indexing_extract` the environment is quiet on purpose.

### Fairness

`ApiClient` assumes of timers only that they fire. The daemon may hang and no
process needs to be read or to report its exit: a call is settled by its timeout
at the latest. `WebviewTransport` assumes the same of the webview's timers and
nothing of extension and daemon. `Masking` assumes that the loop's own code runs on
and that the timer of a request fires; nothing of the daemon, the user, who may leave
the dialog open, or VS Code, which may never ask for lenses. `IndexScheduler` assumes
that debounce timers fire and that every await of the two handlers ends; requests do
so by the timeout of `sendApiRequest`, which is what `EveryCallSettles` says. Nothing
is assumed of the user: saves, full indexes, cancellations and deactivation may or may
not happen. A full index may be started again and again, so `SettlesFresh` says "time
and again" rather than "from some point on".

## 4. What the code does not keep

Each of these is a run in which TLC finds a short execution that contradicts a
comment or document of the repository.

1. `api_restart`: ids start at 1 again after a crash, while the listener on the
   old process' stdout stays. A late response of the old process settles the call
   that has the same id now. ("so a restart after a crash starts clean",
   `apiStdioServer.ts:88`.)
2. `index_suppressed`: the on-save loop looks at `isFullIndexRunning` once, before
   two awaits; a full index that starts meanwhile runs beside it.
   ("suppress on-save during full index", `onSaveIndexer.ts:56`.)
3. `indexing_extract`: an on-save run resolves callees by the table of before the
   save. After extracting a method the call to it has no row to resolve to; the
   edge is dropped and, as the caller does not change again, stays missing.
   (`docs/INDEXING.md:23` and `:104`.)

The other deviations are excuses in the properties: history variables name the
executions in which they occur, and without the excuse the property does not hold.

- **Scheduler** (`endedEarly`). A full index that fails or is cancelled skips the
  replay; files saved meanwhile wait for the next successful one, which may then
  replay a file while the on-save loop, past its check, stores the same file
  (`indexPanel.ts:221`).
- **Panels** (`doubled`). Two calls of `openGraphPanel` while the server starts create
  two panels (`graphPanel.ts:32`, `:40`, `:71`); requests of the first are answered to
  the second, whose ids are the same, and closing either forgets the other (`:95`).
- **Nodes** (`moved`). `handleSave` sends only the fields that differ
  (`InfoPanel.tsx:646`), `nodes.update` writes the missing ones as empty strings
  (`handlers_node.go:98`, though `API_DOCS.md:90` calls them optional): renaming a
  virtual node wipes its directory. The form is filled with the file path
  (`graph_queries.go:14`) as directory, which a later save writes back; cancelling
  does not take back what was typed there (`InfoPanel.tsx:670`).
- **Forms** (`spoiled`, `odd`). A save that ends after another node was selected closes that
  node's form (`InfoPanel.tsx:658`); a refresh discards an unsaved remark of an edge
  (`:855`); a label that was cleared is left out of the save without a word (`:648`), the
  form closes and the old one is shown; a form may be filled from a graph older than the
  last save. In the prompt modal a load that overlaps another, or fails, leaves one
  snapshot's prompt on screen, to be saved as the other's (`PromptPreviewModal.tsx:32`).
- **Graph** (`lost`, `behind`, `raced`). `graphDataRef` is the graph of the last render
  (`useGraph.ts:24`): of two answers in one tick the first is written over. A failed
  refresh empties the canvas (`:36`); a failure between clear and load of a snapshot
  leaves an empty graph or marks everything stale (`App.tsx:143`). A file put on the
  canvas goes at the next refresh, a directory stays (`App.tsx:95`), a virtual one
  also when it was deleted, by a request that timed out but was carried out. A directory
  that holds no file is never listed (`shared.go:29`): loaded with a snapshot it is marked
  stale though it is there, and stays so through refreshes.
- **Store** (`late`, `free`, `dangling`). An edge whose creation is answered after the
  canvas was emptied is displayed without its ends (`App.tsx:275`; a failed refresh in
  between does it). `snapshots.load` restores an edge when one virtual end is in the
  snapshot (`snapshots.go:337`): of a snapshot captured then, it restores a manual edge
  to a virtual node that does not exist. `nodes.annotation.update` does not look whether
  the node exists; what is written after its deletion comes back with the next snapshot
  that restores the id.
  `edges.delete` ignores the errors of its two statements (`handlers_edge.go:179`,
  `:183`), and takes the remark of a pair that is indexed as well.
  Rebuilding the index deletes every drawn edge (`store.go:307`) and none of their
  remarks: if the index finds the same call it is shown with the user's remark, and a
  load after a clear shows it where the snapshot had none. `ClearAllVirtualState` takes
  care of this case (`virtual_nodes.go:231`: "so real-real manual edges don't leak remarks
  onto future indexed edges").
- **Masking** (`torn`, `failed`, `attached`). A status may be written over code of the
  other process, or when the code could not be stored (`handlers_validation.go:96`,
  `:104`). "No parse errors found" is shown, and all sessions are forgotten, although
  requests failed (`maskCodeLensProvider.ts:254`). Of two overlapping validations
  the first to end forgets the sessions of the other. The text that is validated is that
  of before the dialog (`:177`).
- **Canvas** (`retyped`). A node that changes its kind in a render that adds nothing keeps
  the visibility of its old layer (`GraphCanvas.tsx:798`). Kept edges are not refreshed
  (`:703`). A pending click survives a tap on the background or on an edge (`:442`,
  `:561`); it waits 220 ms, the comment above it says 250.

`db.refresh` closes the store before it opens another one (`stdio_server.go:347`); if
that fails, every later request meets a closed store. The only caller,
`refreshDatabase` (`apiStdioServer.ts:388`), is not called by anything.

## 5. Proofs

The theorems hold for any sets of calls, files, nodes or sessions and any bounds. Their
assumptions are those named in the modules: bounds are natural numbers, and the values that
stand for "none" are none of the others (`CallsAssumption`, `RequestsAssumption`,
`NamesAssumption`); `EarlierAssumption` says that what earlier sessions left is of its type,
and that no snapshot is empty; `IdsAssumption` and `PairsAssumption` say that symbols and
virtual nodes differ and edges are drawn between these; `ContentsAssumption` says that in
one version of a file an id names one row and no two rows start in the same line,
`NestingAssumption` that rows nest, `HomesAssumption` that a container is of a higher kind
than what is in it. TLC evaluates each of them in a run.

**ApiClient** (`ApiClientProofs`). None of the properties is inductive alone. `IInv` adds
`SentInv` (what the closures hold belongs to calls that were sent), `FreshIds` (the
process at hand is the last one spawned and has seen no id above `requestId`),
`UniqueIds` (within a process an id names one call) and `WireInv` (every line on a
pipe carries the id of a call written to that process). That a response settles
the right call follows from `WireInv`, `UniqueIds` and `PendingOfCurrent`;
the last also shows that a restart drops nobody, because the map is empty
whenever there is no process. Theorems: `TypeCorrect`, `NothingDroppedByRestart`,
`NoMixUpInOneProcess`, `WaitingCallsAreAccountedFor`.

**ApiClient implements Rpc** (`ApiClientProofs`). The status of a call is its
promise, `done` what some process has read, `confused` the calls whose id was given out
twice. Beyond `IInv` this needs `TimersWait` (a timer that is armed belongs to a waiting
call, so a timeout fails it), `WrittenOnce` (a call is on one pipe once, so it is carried
out at most once) and `AnsweredIsRead` (a line on stdout answers a request that was read,
so an answered call is in `done`). Each action is one step of `Rpc` or a stutter; the end
of a process fails all its calls at once. Theorem: `ClientImplementsRpc`.

**WebviewTransport implements Rpc** (`WebviewTransportProofs`). From `Rpc` below to `Rpc`
above. `ViewInv` says that what a webview waits for it was asked by itself, under an id of
its own; `CallInv` keeps of the client below that an answered call was carried out or
confused, and that only requested calls are made. The heart is `SingleInv`: while one
panel at most was open at a time, among all entries that belong to a panel (pending,
on their way out, held by a handler that will post to it, on their way back) an id
names one request. So a response settles the request it answers, and a late one, of
the panel before, has no webview to arrive at. Theorems: `TypeCorrect`,
`ViewIsPromisedRpc`.

**IndexScheduler** (`IndexSchedulerProofs`). `QueueConsistent` and
`ConcurrentDeltasOnlyAfterFailure` need `BatchInv` and `DeferInv`. `RestIsFresh` needs, for
each file,

- `AgeInv`: nothing held by a run is newer than the file, and what was stored while
  the loop is past its check is not newer than what the full index holds;
- `OldInv`: whoever holds an old version, a later save still waits for its turn;
- `UnchangedInv`: whoever found the file unchanged still does;
- `TurnInv`: if the symbols are old, a scan or a store of the present version is to
  come;
- `EdgesInv`: the edges are those of the symbols, or about to be appended.

One lemma per action shows that `IInv` is preserved. Theorems: `TypeCorrect`,
`QueueStaysConsistent`, `ReplayIsSerial`, `IndexAtRestIsFresh`.

**Indexing** (`IndexingProofs`). `ScanInv` relates the run in progress to files and tables:
what was scanned is what is on disk unless the file was saved since (then it is in `dirty`),
what the run took from `dirty` is in `taken` until it is stored, `removed` is what the table
has and the scan has not, and resolved edges start at symbols that are, or will be, in the
table. `DeltaOfOneFile` is the lemma about `DeltaSymbols`: the rows of one file become the
scanned ones, all others stay.

`CallsMatchSource` needs `ExactInv`. Of the table (`StoredInv`) it says that the edges of a
symbol that is not suspect are exactly its calls to symbols of the table, counting while
a full run appends the edges not stored yet. Of a run it says the same of each symbol that
is collected and not risky, against the symbols its edges will be stored with (`FullInv`),
or against the table as it is, with no callee that the delta removes (`OnSaveInv`). An
on-save run then has to show that the callers it does not touch stay exact: their callees
neither go (`changed` and `suspect` have those that lose one) nor come back. The lemmas
about positions are the other half: where a file is laid out as the rows it is looked up
in, the narrowest interval around the first line of a symbol is that symbol (`FirstLine`).
That needs `NestingAssumption`. Rows come from one syntax tree, so they nest as texts; the
assumption excludes that a symbol starts in the line in which another one ends (`} void
g() {`), which the code would resolve to the other one. The instance of `indexing` has a
method inside a method. Theorems: `TypeCorrect`, `SymbolsFollowTheFiles`,
`NoEdgeOfAGoneMethod`, `DrawnEdgesStay`, `CallsFollowTheSource`.

**GraphStore** (`GraphStoreProofs`). `ManualEdgesHaveEnds` needs that a snapshot is closed
(the virtual ends of its edges are among its nodes, but for `dangling`: `SnapshotsClosed`).
That remarks do not leak needs no more: what a rebuild leaves is in `free` from that step
on. `RoundTrip` needs that a clear left nothing (`LoadedFromEmpty`); a load on top of the
same load is a case of its own, in which `RoundTrip` of now is used. Theorems:
`TypeCorrect`, `EdgesHaveEnds`, `NotesAreOfLiveNodes`, `RemarksDoNotLeak`,
`SnapshotRoundTrip`.

**GraphStore implements DaemonGraph** (`GraphStoreProofs`). One lemma per handler names
the step it is; only `nodes.update` and the annotations are stutters, as are deleting an
edge nobody drew and a snapshot that another one equals. A rebuild is one step that takes
the drawn edges with the indexed ones. A load needs `SymbolCalls`: the
index has no edge of a virtual node, so a row that is added because of a virtual end is
never one of an indexed edge. Theorem: `StoreIsDaemonGraph`.

**GraphCanvas** (`ViewProofs`). `CanvasIsGraph` rests on `InstanceInv`: `prevElementIdsRef`
is what Cytoscape has, edges have their ends and nodes their parents there.
`DifferMakesTheGraph` then follows the batch: when the nodes that go are removed
(`NothingElseWithin`), no node that stays is inside them, because kept nodes were moved to
their new parents and promoted before; so what Cytoscape takes along by itself is nothing
but what was to go. `Within` is the least set closed under "is inside", not a recursion.
`BesideInv` relates selection, hidden nodes and overlay to the elements, `UnmountedInv` says
that nothing is left of a canvas that is gone, `TapInv` that the second tap of a double tap
leaves no click pending. `HomesAssumption` is what `computeNodeParentIDs` and the placement
of files in directories give: without it a new parent could be inside its child. Theorems:
`CanvasTypeCorrect`, `CanvasIsTheGraph`, `BesideFollows`, `NoLateClick`.

**GraphView** (`ViewProofs`). What the view shows is wrong most of the time: it lags behind
the daemon by the requests in flight. `ViewIInv` says that it is wrong by those only. A
request that was carried out *takes* nodes and edges (clear, the deletions) or *makes* them
(the creations) until its handler has run. `Holds(d, q, i, g)` says that all of the graph
`g` is in the daemon's graph `d`, except what a request after the `i`-th of the queue `q`
takes, `Complete` that all of `d` is in `g`, except what such a request makes. Then

- `AnswersInv`: an answer is true up to the requests behind it, since the daemon serves
  them in order (`FifoInv`); `TakenInv`: what was taken is gone, or was made again by a
  request still in the queue;
- `NextInv`: the newest graph holds and is complete up to the whole queue, unless it is
  `behind`, `lost`, or a handler in the queue loads it anew (`Rebuilt`);
- `ShownInv`: the same of what is displayed, up to placeholders and stale marks;
  `StaleInv`: what is marked stale is a symbol that is gone, an edge of one, or a
  placeholder;
- `OldInv`, `CurrentInv`: an answer older than the index is followed by a handler that
  empties the canvas, or the canvas is recorded as behind;
- `FlowInv`, for a snapshot on its way (clear, load, get, detail): what the load restored
  is in the daemon (`Back`), then in the answer (`Fetched`), then in the graph the
  handler holds (`Found`), up to what is taken meanwhile;
- `IdsInv`: an id whose node is not created yet is in no graph and in no other request,
  so a creation cannot bring back what a deletion took.

With an empty queue `NextInv` is `GraphDataInSync` and `ShownInv` with `StaleInv` is
`CanvasInSync`; `SnapshotIsLive` is `FlowInv` at the moment the snapshot arrives.
`FollowsKeeps` and the lemmas named `...Carries` are about the queue alone: whatever
followed a request still follows it when one is sent, served or settled. `SendKeeps`,
`ServeKeeps` and `PopKeeps` use them for the three ways in which the queue changes, and each
handler then shows only what it does to graph and canvas. The attempt to prove it showed
that the model let a virtual id be given out twice, and that `CurrentInv` is needed. A
refresh that keeps a virtual directory that is gone sets `canvasBehind`: without that excuse
`ShownInv` fails there. Theorems: `ViewTypeCorrect`, `DataInSync`, `CanvasIsInSync`,
`SnapshotStaysLive`.

**The daemon of GraphView is DaemonGraph** (`ViewProofs`). Only `Capture`, `Reindex` and
`Serve` reach the daemon; `ServeServes` says which request is served and what it changes
(`Effected`), and each case is one step or a stutter. `ProperInv` gives the request its
kind of argument. Theorem: `ViewDaemonIsDaemonGraph`. With `StoreIsDaemonGraph` the view
and the tables are two refinements of one graph.

**Editor** (`EditorProofs`). The invariant looks ahead: `TextBecomes`, `LabelBecomes` and
`DirBecomes` say what a field of a document will be once the requests about it are
carried out. `AskInv`: of a document that is not spoiled at most one write is under way,
and it will be what was asked. `FormInv`: what was not typed in a form will be what the form
shows. `GraphInv`: where the view's graph is old, a write or a refresh is still to be
answered. For prompts, `LivesInv` orders the requests of modals that are gone before those
of the modal that is there, `OrderInv` says which snapshot the last prompt asked for
belongs to (a prompt saved before its own arrived spoils the snapshot), and `ModalInv`
what the modal shows then. `DisabledOnlyWhileAwaited` is part of the induction: a form
that is saving has its request, so no second save of it can start. Proving `AskedIsStored`
showed that a directory typed to be the one shown asks for nothing (`Asks`): the code
compares with the file path and leaves it out. Theorems: `TypeCorrect`,
`ButtonsComeBack`, `WhatIsAskedIsStored`, `WhatIsShownIsStored`.

**Masking** (`MaskingProofs`). `ForgetsOnlyValidated` needs `SeenPassed` (what a validation
without failure has seen and the daemon has not passed is the one it waits for) and
`OneAwaited` (it waits for one request at a time, which is why an answer is about that one).
Theorems: `TypeCorrect`, `ValidatedCodeParses`, `OnlyValidatedAreForgotten`.

Only model-checked: the liveness properties `EveryCallSettles`, `EveryRequestSettles`,
`SettlesFresh` and `ValidationEnds`, which are beyond the prover. Every other property of
a passing run is stated by a theorem. The type invariants of `GraphStore`, `GraphView` and
`Masking` are proved and checked by no run.

## 6. Not modelled

- Parsers, symbol extraction, segmentation, masking and validation rules: functions
  of syntax trees built by tree-sitter. So is the choice of the methods that
  `kg.maskCode` finds changed.
- Geometry of the canvas: positions, sizes, dragging, resizing, layouts, styles.
- The file tree of the view: a function of the graph, and which nodes are unfolded.
- Settings, status, MCP configuration, activation: they read and write configuration
  files and show them. Of the MCP server only the writes to `mask_sessions` are
  modelled; its snapshot tools read.
- The requests `virtual.directories.*`, which nothing sends, and `graph.search` with the
  functions of `useGraph.ts` nobody uses.
- `db.refresh`, which nothing calls, `indexer/lock.go`, and store methods nothing calls.
- `file_cache`, which is written by indexing and read by nothing in it.
- Schema migrations, path and key handling, build scripts, prompt optimizer: I/O.

## 7. Plan

1. An abstract index ("the index of a file is the file as of some save, and catches
   up") implemented by `IndexScheduler` under a refinement mapping.
2. Pure algorithms against reference definitions over bounded inputs: interval
   resolution against lexical nesting, choice of decision points.
