# Formal verification of AToMPM's back end

AToMPM is a web modelling tool. A model has an abstract syntax, kept by an *asworker* process, and
any number of concrete syntaxes (the icons on a canvas), each kept by a *csworker* process that
follows the asworker. Several people, each with a csworker or sharing one, edit the same model.
These TLA+ modules model the processes that make this work, TLC checks them on small instances, and
TLAPS proves some of what is checked for instances of every size. All sources are in `src/`.

## 1. Inventory

### Components and how they interact

```
  browser client --HTTP/websocket--> httpwsd / session_manager --IPC--> csworker --HTTP--> asworker
        ^                                     |    ^                        ^                 |
        +--------- csworker changelogs -------+    +---- asworker changelogs (send_to_all) ---+
  model transformation engine (mt/*.py) <--- HTTP ---> asworker
```

| Component | State | Operations | What is hard |
|---|---|---|---|
| Request scheduling, `__worker.js` | `__reqQueue`, `__numReaders`, `__numWriters`, `__rLocks`, `__reqs2lockInfo`, `__backstagePass`, `__nextSequenceNumber` | arrival of a request, `__canProceed`, `__queueRequest`, `__runQueuedRequests`, `__postMessage`, `POST_batchedit`, `POST_GET_batchread` | handlers that answer in a later turn, requests a handler sends to its own worker, recursion from a response into queued handlers |
| Modelling kernel, `mmmk.js` | `model`, `metamodels`, `next_id`, `journal`, `journalIndex`, `undoredoJournal` | `create`, `connect`, `update`, `delete`, `loadModel`, `loadMetamodel`, `unloadMetamodel`, `undo`, `redo`, `setUserCheckpoint` | nested `__crudOp`s with designer code in them, failure at any depth, checkpoints that may be reused |
| Changelog propagation, `csworker.js`, `session_manager.js` | `__nextASWSequenceNumber`, `__pendingChangelogs`, `__hitchhikerJournal`, `workerIds2socketIds` | `__sequenceNumber`, `send_to_all`, `__applyASWChanges`, `__applyPendingASWChanges`, `__aswSubscribe`, `__clone` | order of delivery, application that takes several turns, joining while changelogs are on their way |
| Undo and redo, `csworker.js`, `asworker.js` | `__handledSeqNums`, user-checkpoints in both journals | `POST /undo`, `POST /redo`, `__undoredo`, `__checkpointUserOperation`, `POST /batchCheckpoint` | two journals with different checkpoints, operations that fail, batches |
| asworker handlers, `asworker.js` | `__wtype`, the kernel | `POST *.type`, `PUT *.instance`, `DELETE *.instance`, loading of models and metamodels, `/__mt/` relay | errors after part of the work, console messages sent to itself |
| csworker handlers, `csworker.js` | `__asid2csid`, `__asmm2csmm`, the kernel | icon creation and regeneration, `PUT *.cs`, `PUT *.model` (save), layout | mappers are evaluated later than the changelog they belong to, and again when the request fails; a switch of concrete syntax answers before it is done; saves from two workers must agree |
| Session manager, `session_manager.js` | `workers`, `workerIds2socketIds`, `clientIDs2csids`, `clientIDs2asids`, `responses` | `createSession`, `joinSession`, `changeListener`, `disconnect`, fork and kill of workers, `send_to_all`, HTTP requests to workers and their answers | listeners that leave, workers killed while in use, links into sessions that end |
| Browser client, `client/*.js` | `__icons`, `__edges`, `__selection`, statecharts of canvas and dialogs, `__dialog_stack`, the next number and the pending changelogs of two streams | gestures, dialogs, `__handleChangelog`, `__handleState` | changelogs of others in the middle of a gesture; a guest's state and its first changelogs by different connections |
| Transformation engine, `mt/` | `_execmode`, `_changelogs`, `_aswNextSequenceNumber`, `_lock`, the context's `_lastStep` | `play`, `pause`, `step`, `stop`, `onchangelog`, `_handleChangelogs`, `_step` | a thread for each command and each timer; a step waits for its own console line to come back |
| Event handlers (`libeventhandler.js`), continuations (`___do.js`), HTTP (`httpwsd.js`), compilers (`libcompile.js`), plugins | none or a file system | | not protocol state |

What makes each correct, in a sentence:

- *Scheduling*: writes exclude each other, nobody waits for a place nobody holds, every request is
  answered, and a batch reads or edits without others in between.
- *Kernel*: an operation happens entirely or not at all; journal, model and changelog say the same
  thing; the graph never has a dangling edge or a node whose metamodel is not loaded.
- *Propagation*: a csworker applies each changelog once, in order, and eventually; one that joins
  gets the same model as one that was there.
- *Undo and redo*: a csworker and its asworker have the same operations in effect; a batch is atomic.
- *Icons and saving*: at rest an icon shows its node as it is, in the current syntax, and the tables lead
  to it; the saved pair of models is consistent.
- *Sessions*: no message to a worker or socket that is gone, workers run while somebody needs them and end
  afterwards.
- *Client*: a window shows what its csworker did, in its order, and all of it in the end; what is selected
  is there; dialogs and gestures do not take each other's events.
- *Transformation*: every step tells its end, so that a play goes on and a stop comes to its end.

`PROJECT.json` lists the hazards, with the line where each bites and the property that covers it or
the reason there is none.

## 2. Plan

Written, in this order (the most shared mechanism first):

1. `WorkerLocks`, `WorkerLocksProofs`, `MCWorkerLocks` - every request goes through it.
2. `Journal` (operators only), `Mmmk`, `MCMmmk` - every change goes through it. `MmmkProofs` has
   the lemmas on the journal and on the kernel's entries, and its theorems.
3. `ReplicaLog` (abstract), `ChangelogSync` (implements it), `MCChangelogSync`.
4. `UndoRedo`, `MCUndoRedo` - composes the operators of `Journal` with the protocol.

5. `IconSync`, `MCIconSync` - icons and their redrawing, switches of concrete syntax, undo of both,
   and saving, which shares their state.
6. `Sessions`, `MCSessions` - who may send to whom at all.
7. `ClientSync`, `MCClientSync` - the second implementation of an ordered log, in the browser.
8. `Canvas`, `MCCanvas` - what a changelog meets in the browser.
9. `Transformation`, `MCTransformation` - the engine that edits a model beside its users.
10. `ChangelogSyncProofs` - the propagation protocol for any csworkers.
11. `TransformationProofs` - the engine's steps for any number of threads.
12. `SessionsProofs` - the server's lists and processes for any clients and workers.
13. `CanvasProofs` - what a client shows, selects and asks, for any icons and links.
14. `UndoRedoProofs` - names, journal and batches of a csworker through any edits, undos and redos, and
    its agreement with the asworker.
15. `ClientSyncProofs` - the windows of a csworker, for any clients and changelogs.

Next:

- `UndoRedo` with several csworkers, with clients that do not wait for their changelogs, and with batches after
  a hasty rollback: look for the strongest property that still holds, and turn the hazards that have only a
  note into properties.
- Theorems to come: `ShowsItsChangelogs` of `IconSync`, from which `IconsCurrent` is one more step.
- The csworker handlers that load and unload metamodels: what the kernel does for them is in `Mmmk`.

## 3. The modules

### WorkerLocks

One worker process. JavaScript runs a turn to completion, but a turn has inner order that matters:
`__postMessage` first calls `__onRequestResponse`, which starts queued requests (whose handlers may
answer, recursively) and only then `process.send`s its own message. So the state has `stack`, the
calls of the turn in progress, and events occur when it is empty.

| Code | Model |
|---|---|
| `process.on('message')`, with a pass, granted, queued | `ArriveWithPass`, `ArriveAndProceed`, `ArriveAndQueue` |
| `__canProceed` and the counters it moves | `CanProceed`, `Grant` |
| `__runQueuedRequests` | `RunHead` (start the head, recurse), `RunStops` |
| `__postMessage`, `__onRequestResponse` | `PostMessage` (`Release`, then a `run` call), `Send` |
| a handler that answers at once / later | `HandleNow` / `HandleLater` then `Respond` |
| `POST_batchedit`, `POST_GET_batchread`, the console message of `/__mt/` requests | `HandleBatch`, `HandleNestedBatch`, `BatchGoesOn`, `BatchSucceeds`, `BatchUndoes`, `BatchFails` |

A request is a model value with a `Kind` and, for those that send requests to their own worker, the
sequence `Subs` of them. `Init` chooses which of the clients' requests are sent: any of them, or none. A pass is named by the request it was minted for: `Math.random()` never gives
the same one twice. `__wLocked` is left out because no request write-locks. `__needsLock` is kept: its
regular expression `^batch` matches no uri, since all begin with `/`, so the read lock that NOTES 3 of
`__worker.js` describes is never taken.

### Journal and Mmmk

`Journal` has what each journalling function of `mmmk.js` makes of a journal `[log, index]`. `Mmmk` is the
kernel. A user operation is a *program* of kernel calls:

| Code | Model |
|---|---|
| `create`, `connect`, `update`, `delete`: checks, step-checkpoint | `Create`, `ConnectNN`, `ConnectCN`, `Update`, `Delete` (`Start`), or `Refuse` |
| what they ask of the kernel | `Crud`, `ConnectNNCalls`, `DeleteCalls`, `DeleteConnectorCalls` |
| `__crudOp` begins, runs constraints and actions, ends, fails | `OpenCrudOp`, `Handlers`, `CloseCrudOp`, `RestoreCrudOp` |
| `__mknode__`, `__mkedge__`, `__chattr__`, `__rmedge__`, `__rmnode__` | `Perform`: `MkNode`, `MkEdge`, `ChAttr`, `RmEdges`, `RmNodes` |
| `__delete` of a node that has connectors | `Cascade`, which puts the deletion of the next one in front |
| `loadModel`, `loadMetamodel`, without a `__crudOp` | `LoadModel`, `InsertModel`, `LoadMetamodel` (`AtOnce`) |
| `unloadMetamodel`, without a `__crudOp` | `UnloadMetamodel` (`UnloadCalls`), `RmEdges`, `RmNodes`, `DumpMetamodel` |
| `undo`, `redo` | `UndoStep`, `RedoStep` |

Calls are executed one a step, so that a handler, a constraint or a check may fail at any of them and `open`
counts the nested `__crudOp`s. `Handlers` is the designer code of the metamodel: it changes an attribute or does
nothing. Edges and nodes that a call removes go one by one, each edge at the position it has when those before
it are gone. What replays and takes back a sequence of entries (`RedoAll`, `UndoAll`) are recursive functions.
`Resetm` keeps what `__resetm__` does last: whatever is loaded is listed in the new model. `UndoStep` and `RedoStep` are guarded by what csworkers know: they ask only for
operations they were told of.

### ReplicaLog and ChangelogSync

`ReplicaLog` says: changelogs 1, 2, 3, ... are issued, and every replica applies each once, in order, and
eventually. `ChangelogSync` has the asworker's outbox (`unsent`, sent last first because of the order in
`__postMessage` that `WorkerLocks` shows), a FIFO socket per csworker, `__applyASWChanges` in two parts
(`Receive` begins, `Finish` ends and begins the next pending one; between them the csworker waits for the
asworker's mappings), and `Join`, `InternalState`, `Clone` for a csworker that joins a shared model.
`ImplementsReplicaLog` is the refinement: `applied` is `next - 1`.

### UndoRedo

The asworker's journal and each csworker's, as values of `Journal`; `names` and `cursor` are
`__handledSeqNums`; a model is the set of operations in effect. A handler that awaits the asworker is
`request`, a batchEdit in progress is `batch`. `Undo` and `Redo` take the three kinds of name apart, as
`__undoredo` does; `AswUndo` and `AswRedo` are the asworker's side, which goes by step or, with
`undoUntil`, by name; `ApplyUndo` and `ApplyRedo` go by the name in the hitchhiker. A handler that throws
sets `crashed`.

`POST_batchedit` goes on from the answer to a request, whether its changelog is applied or not: `NextEdit`,
`LastEditDone`, `EndBatch` and `Rollback` wait for `GotReply` and for nothing else, so that changelogs of a batch are
in `chan` while its later edits, its local edits and its rollback are made. `chan` is the socket and
`__pendingChangelogs` together. An application that takes several turns (`csworker.js:310-545`) is one step:
`__checkpointUserOperation` is called in its first turn, what the later ones log comes before the next changelog of the
asworker, and if clients wait only a local edit of the same batch can come between, which is undone with it. `Patient` is about clients alone: they ask for nothing
more until the changelogs of what they asked for are applied. `early` remembers that a batch overtook its own
changelogs: `"rollback"`, one was rolled back while some of its changelogs were pending, `"edit"`, a local edit of it
was made while its start checkpoint was.

### IconSync

One csworker and the part of its asworker that it depends on. A value of a node is named by the number of
the changelog that announced it, so that "this icon shows the model as of changelog 3" can be said.

| Code | Model |
|---|---|
| a changelog step of a node made, changed, removed; an undo | `ApplyMknode`, `ApplyChattr`, `ApplyRmnode`, `ApplyUndo`, begun when `Takes` |
| `__regenIcon`: `POST *.mappings` to the asworker, answer, `_mmmk.update` | `AskMappings`, `Evaluate` (on the model as it is *then*), `Redraw` |
| an answer `$err`, an icon that is gone | `ApplyThrows`, `SwitchThrows` |
| `PUT /current.metamodels` with a CS switch, `__transformIcons` | `SwitchStart`, `SwitchNext` for each old icon, `SwitchEnd` |
| `POST /undo` of a changelog or of a switch | `UndoAsworker`, `UndoSwitch`, with `handled` for `__handledSeqNums` |
| `PUT *.model` | `SaveAsk`, `SaveRead`, `SaveWrite`; `MinusOne` is the subtraction from a string |

`chan` is the socket and `__pendingChangelogs` together: `ChangelogSync` shows that they deliver in order. A
switch when there are no icons does nothing between its beginning and its end and is left out.
`ahead`, `undone` and `disturbed` remember the circumstances the properties except.

### Sessions

The session manager with its clients and its workers. Messages of a socket and of a worker's IPC channel
are sequences; HTTP requests are a set, since each has its own connection.

| Code | Model |
|---|---|
| `client/init.js`: connect, `createSession` or `joinSession`, `changeListener`, first state | `OpenNew`, `Follow` (a link to screenshare or modelshare), `SetUp` |
| `socket.on('message')` of the server | `CreateSession`, `JoinScreen`, `JoinModel`, `Listen` |
| `disconnect`, `unregister`, the kill of a worker | `Disconnect`, `DisconnectOther`, `Kill` |
| `handle_http_message`, `worker.on('message')`, `send_to_all` | `Forward`, `Relay` |
| the csworker's `PUT /aswSubscription` (`__aswSubscribe`) | `Subscribe`, `AskAsworker`, `Subscribed`, `Refused` |

A worker that was killed is `live = FALSE`: `workers[wid]` is undefined, and a handler that uses it throws,
which nothing catches, so `up` becomes `FALSE`. An edit and its changelog are one request and one message.
`early` and `rough` remember uses that the code does not withstand (section *Divergences*).

### Transformation

One mtworker. `thread[t]` is what each thread is about to do: the four commands, the polling of
`_doWhenLastStepFeedbackReceived`, a step from the choice of its rule to the printing of its result, and a
stop. `ctx` is the MoTif context: `_lastStep` is a dictionary that belongs to its rule, so that what was
written in it is found again when the rule comes back (`fed`, `told`). `_mtContexts` is a stack: `ctx` is the last of it,
`below` the others. `_stop` empties it (`ForgetContexts`) and loads the transformation anew (`LoadContext`); in
between (`emptied`) another thread that asks for `_mtContexts[-1]` raises, and two stops that overlap leave two
contexts, of which the upper one's end is told to the lower one (`ContextDone`). `queue` is what the asworker emitted and
the engine has not handled, of which the first `arrived` have come; since numbers are consecutive and
`_changelogs` is sorted, this is all that the order of arrival amounts to. `HandleChangelogs` takes `_lock` and raises
with it on a number that is out of date, or on a feedback when there is no context (`Unheard`,
`ptcal.py:244`): it is then never released (`locked`). What a rule does is its outcome:
success, failure, exception, and a number of batchEdits that are accepted or refused.

### Canvas

One browser. `state` and `chart` are the two statecharts; an action is what a handler of an event does in
a state, its `T` included: `PressRight`, `ReleaseLasso`, `Drop`, `EditConnectionPaths`, `ReleaseControlPoint`,
`OpenDialog`, `PressEnter`, `ClickOk` and others. `HandleChangelog` applies a changelog's steps one after
the other (`ApplyStep`: node and edge made or removed, attribute changed, segments, reset) to a *view*, the
part of the state it works on, and stops where the code would throw: `stuck`. `timer` is the `setTimeout` of
5 ms that draws a selection again: its array may be the selected one (`same`) and is then changed in place.

### ClientSync

A csworker and the windows that show it. `log` is what the csworker did, changelogs of the asworker (named
by their number) and its own; `turn` and `ipc` are the order in which `__postMessage` lets them leave;
`Relay` is `send_to_all`; `Postpone`, `Refuse`, `Handle` and `HandleThrows` are `__handleChangelog`, with two
numbers and two pending lists; `ReadState` and `HandleState` are the state of a guest. `Cloned` is the
csworker of a modelshare guest, whose own number is lost in cloning. `upset` says how a guest and its first
changelogs got across each other, if they did.

## 4. Runs

Every property has at least one mutant of the code that violates it under the same configuration.

| Run | Instance | Shows |
|---|---|---|
| `locks` | any of a batchEdit (start, one edit, end, and its rollback), a batchRead, a batchEdit containing another, two writes; every order of arrival and answer, success or error of each | counters are exact, edits are serial even with passes, passes are never stale, no lost wakeup, bursts of numbers have no gap, everything is answered, until a nested batchEdit is refused if one is sent |
| `mmmk` | 2 metamodels loaded or unloaded twice, 3 ids, 2 values, 3 further operations, undos or redos, handlers that set an attribute, failures anywhere | failures are atomic and leave the checkpoints of the calls around them (`FailureIsAtomic`); changelog and undo are exactly the last operation (`StepIsLastOperation`); the journal explains the model and the future can be redone (`JournalIsComplete`); no dangling edge, no node without its metamodel (`WellFormed`); the last two as long as the journal begins with a marker (`Anchored`) |
| `sync` | one csworker from the start, one that joins, 3 changelogs | applied in order and once, nothing lost, never rejected, refinement of `ReplicaLog` with liveness |
| `undo` | one csworker, 4 client requests, batches of two edits that go on while their changelogs are pending, local edits, refusals | names and journal agree until a rollback overtakes its batch's changelogs; batches that overtake nothing are atomic; the workers agree while nothing was refused or redone as a batch |
| `icons` | 2 nodes, 2 syntaxes, 4 changelogs, 1 switch, 2 undos, 1 save | at rest one current icon for each node; icons are never behind the changelogs they claim; every changelog is applied |
| `sessions` | 2 clients, 3 workers, 1 edit or save | careful use never brings the server down, lists match processes, workers end, subscriptions are answered |
| `mt` | 2 rules, 2 threads at a time, up to 3 commands, 1 edit; 5 events, commands counted twice | nobody waits for a feedback that cannot come but for an exception, contexts changed under a step or changelogs that hang; a stop ends when it is fed |
| `canvas` | 2 icons, 1 link, 2 changes of the model, 2 dialogs | selection and overlays are of what is shown, the view follows the model, dialogs have the events, only a selected edge's removal stops the client |
| `clients` | a window from the start and a guest, 2 changelogs of the asworker, 3 of the csworker | every canvas shows a beginning of what the csworker did, in its order, and all of it in the end |
| `reload`, `save`, `cloned` | small instances of `Mmmk`, `IconSync`, `ClientSync` | a statement of a comment that the code does not meet: see *Divergences* |

*Why the bounds are enough.* In `locks` (128 692 states), five independent clients and batches of up to three requests
contain every pair of request kinds that interact: a queued request behind a queued one, a pass while a queue
is there, a rollback while a read runs. Half of its initial states have no nested batchEdit, and there
`EventuallyAnswered` says that every request is answered: what it excepts needs a request that is `lost`. In `mmmk` (333 000 states up to a permutation of the metamodels), two loads
and three further steps allow operation, operation, undo, undo or failure, redo or new operation, which is
the shortest history where a journal is truncated with a future behind a failure; 3 ids are two nodes and
their connector, which may be of the other metamodel, so that unloading takes some of them. With one
metamodel and five operations, undos and redos (`MCMmmk_undo`, 147 000 states) `JournalIsComplete` and
`WellFormed` held too; with one metamodel, one id and thirteen operations, undos and redos (`MCMmmk_long`, 301 524 states),
which reach histories whose journal begins without a marker, all five did. Three changelogs are the least that can
arrive in an order with a gap in it while one is applied. In `undo`, four requests are a batch, an edit and
two undos, or an edit, undo, batch with a rollback, and undo (745 000 states); what comes after a batch that overtook its
changelogs is followed up to two requests (`TwoRequestsIfEarly`), since of `BatchIsAtomic` nothing is left then and
of `NamesAreMarked` nothing after a rollback; `TypeOK`, which is left, is proved for any number. In `icons` (1.09 million states), four
changelogs are the making of two nodes and an edit or removal of one while the mappers of the other are
evaluated, with a switch that has two icons to replace. In `sessions` (32 129 states), three workers are a
session and a second csworker on its asworker; with four workers and two requests (557 000 states) and with three
clients (2.28 million) the properties held too. In `mt` (296 000 states), two threads are a play loop and the
stop, pause or second play that meets it. A command counts for two of the five events: two commands and a step, one and
two rules with an edit, which may be refused and then stops by itself; the way to the end of the
transformation is not counted. With six events (1.53 million states), which is three commands, the properties held too. In `canvas` (854 000 states), one link and its ends are a whole connection, and two
changes make and remove it in the middle of a gesture; two dialogs are one that opens from the other's
callback. In `clients` (111 000 states), three writes of the csworker are a turn of two, which leaves in the
wrong order, before or after another; with three changelogs of the asworker (559 000) it held too.

*Deadlock* is not checked: requests, operations, changelogs, commands and workers are bounded, and the system
then rests.

*Configurations kept beside the runs.* `MCMmmk_undo` and `MCMmmk_long` hold. Each of the others has TLC find a state or behaviour described under *Divergences*
and is run by hand, `tlc -config MCSessions_leak.cfg MCSessions.tla`: `MCWorkerLocks_mtw`,
`MCWorkerLocks_nested_live`, `MCWorkerLocks_isolation`, `MCMmmk_zombie`, `MCChangelogSync_catchup`,
`MCUndoRedo_hurry`, `MCUndoRedo_refused`, `MCUndoRedo_rebatch`, `MCSessions_leak`, `MCTransformation_stop`,
`MCTransformation_stale`, `MCCanvas_stuck`, `MCCanvas_source`, `MCClientSync_guests`.

### Fairness

`WorkerLocks!Fairness` is weak fairness of `Next`: the worker does not stop while a turn can go on
(JavaScript runs it to completion), a request that was sent can arrive (one local session manager), or a
handler can be called back (its HTTP request or file operation completes, perhaps with an error). Nothing
is assumed of the *order*. No request takes the same step twice, so every behaviour comes to an end and
this is as much as fairness to each of these steps.

The others are weakly fair to what is under way and to nothing that somebody must want: no edit, command,
undo, switch, save, join or departure is assumed.

- `ChangelogSync`: sockets deliver, the csworker's requests for mappings and for `internal.state` are
  answered (a request for mappings that fails is sent again after a delay, `csworker.js:895-904`).
- `IconSync`: a changelog that came is applied, mappers are evaluated, a switch goes on (`Apply`, `Evaluate`,
  `Switch`).
- `Sessions`: messages and requests are delivered, one by one, and a worker that runs handles what it got.
- `Transformation`: threads are scheduled, timers fire, requests are answered and changelogs arrive.
- `ClientSync`: turns end, mappers are evaluated, what is sent arrives, a read that was asked for is done.

`Mmmk`, `UndoRedo` and `Canvas` have no fairness: nothing in them has to happen.

### Divergences

Three are runs:

- `reload`: a metamodel may be loaded again (`client/data_utils.js:357-359`), `LOADMM` does not say that one was there
  (`mmmk.js:895-907`), and undoing it unloads the metamodel under its nodes. `MayReload` is `FALSE` in `mmmk`.
- `save`: `PUT *.model` subtracts one from a string (`csworker.js:1939`); the difference is `NaN`, both
  comparisons are false, and models of different numbers are bundled.
- `cloned`: `get__nextSequenceNumber` returns itself (`__worker.js:874`), so a cloned csworker numbers its
  changelogs `NaN`, and windows apply them in the order they arrive.

Found by the configurations kept beside the runs:

- `mtw`: a model transformation request waits for a console message to its own worker; a write between
  the two queues first, and blocks both.
- `nested_live`: the refusal of a nested batchEdit forgets `respIndex`, and the writer's place with it.
- `isolation`: the read lock of batchReads is never taken.
- `zombie`: a step-checkpoint left by a failed operation is reused though the index is below it.
  `StepIsLastOperation` excepts these operations (`zombie`). If the index is 0 the journal then begins with an
  entry instead of a marker, and a later `redo` skips that entry as if it were one: load, undo, a refused
  operation, redo, undo, load, create, undo, undo, redo twice leave a node without its metamodel.
  `JournalIsComplete` and `WellFormed` except journals without a marker at their beginning (`Anchored`); without that,
  TLC finds this history in the instance of `MCMmmk_long`. It is also what the proofs' hypothesis
  `UndoesToMarkers` excludes.
- `catchup`: cloning replaces the pending changelogs of the joining csworker by older ones.
- `hurry`: `POST_batchedit` goes on with the answers to its requests (`__worker.js:794-846`), though the csworker may still
  be applying their changelogs. A local edit then falls before the start checkpoint of its batch and survives the
  undo. A rollback that comes before that checkpoint finds nothing to undo and does nothing, or finds no such name
  and throws (`csworker.js:2076-2079`); if it finds it, it moves the cursor in front of it, and a changelog that
  was pending then cuts the list there (`csworker.js:2187-2191`) and the undo takes back what the list still has, so
  that names and journal differ. The comment of `POST_batchedit` says that "if any of the requests fail,
  every preceding request is undone". `BatchIsAtomic` and `NamesAreMarked` except these runs (`early`).
- `refused`: undo after a refused operation takes effect on csworkers only.
- `rebatch`: redo of a batch also redoes, on the asworker only, what followed it. These two are why
  `WorkersAgree` is not an invariant, and `AgreeWhileSmooth`, which has them in its hypothesis, is.
- `leak`: an asworker whose csworker was killed before it subscribed has no socket that could leave, and
  runs for ever (the comment `session_manager.js:84-85` says that a worker without sockets is terminated).
- `stop`: a rule that raises an exception prints a line that does not count as feedback
  (`ptcal.py:239-243`, `1095-1096`), so a stop waits for ever and the engine stays `STOPPING`.
- `stale`: a success notes its feedback without waiting for the changelog (`ptcal.py:1106`, against the
  note at 975-976), so the next rule may be matched on a graph without the last one's edits.
- `stuck`: a changelog that removes a selected edge uses an undefined `edgeId`
  (`client/query_response.js:116`), and the client then keeps every later changelog pending for ever.
- `source`: a short right click leaves the connection path (`behavioursc_canvas.js:342-347`,
  `connection_utils.js:139-141`), and the next connection starts from that icon.
- `guests`: a guest may be overtaken by changelogs, be given a state that is half of a changelog, or have
  `__clearObsoleteChangelogs` throw on its undefined variable (`client/query_response.js:13`).

Seen in the code while it was modelled, and in the models' behaviours: a request to a killed worker is answered
400 and then sent to it all the same, which throws (`session_manager.js:401-410`); play, pause and play again make
two loops on one context (`ptcal.py:699-703`); `_handleChangelogs` raises with its lock held on a changelog
that the loaded model includes (`ptcal.py:247-257`), and on a feedback that it handles while a stop has emptied
`_mtContexts` (`ptcal.py:244`, `1152-1155`), after which the engine handles nothing, and a step that raised there is
never told (`FeedbackComes` and `StopEndsIfFed` except it: `locked`); two stops that overlap load the transformation
twice, one context over the other; Enter in a dialog
answers twice; a `RESETM` in the middle of a gesture leaves its path and the disabled dock behind; a guest is
shown 'invalid changelog sequence#' for a changelog that its state already has.

## 5. What is proved

`WorkerLocksProofs`, for every finite set of requests, every assignment of kinds and every forest of
batches (`ConstantsAssumption`, the only assumption):

- `TypeCorrect`: `Spec => []TypeOK`;
- `CountersAreExact`: `__numWriters` and `__numReaders` are the numbers of granted, unanswered requests;
- `WritersExcluded`: at most one of them is a writer;
- `NoWakeupLost`: no turn ends with a request at the head of the queue that may run;
- `BurstsAreComplete`: between two turns, the sequence numbers on the wire are 1 .. n.

`CountersExact` is not inductive: a response that was posted twice would decrement twice, and nothing in the
code that counts prevents it. What prevents it is where calls and requests are, so the invariant is

    IInv == TypeOK /\ Shape /\ Places /\ WakeupPending

`Shape` says that a request that is idle, on its way or queued holds no place and has sent nothing
(`Fresh`), that the stack has at most one call for each request and that call says where the request is
(`CallsOnStack`), that the queue holds a request once (`QueueOfWaiting`), and that a batch's later requests,
and its rollback, are idle until it sends them (`UnsentIdle`). `Places` adds `numWriters <= 1` to the counters.
`WakeupPending` is the form of `NoLostWakeup` that holds inside a turn: a head that may run has a call of
`__runQueuedRequests` on the stack to run it. The proof has one lemma for each conjunct (`NextTypes`, `NextShape`,
`NextPlaces`, `NextWakeup`), each with one step for each action; `PostMessage`, which five actions share, has
its own lemma for each. `BurstsComplete` needs an invariant besides (`BurstInv`): a message that was posted has
its `process.send` on the stack, the numbers given out are 1 .. n, and those of sent messages are on the wire.

The same module, on the passes of batches:

- `EditsNeverOverlap`: two edits of a model are never in progress at once, those a pass lets past the
  queue included;
- `PassesAreCurrent`: a request of a batch never arrives with a pass that was replaced or cleared.

`__numWriters` says nothing of a request that a pass let in, so `IInv` does not imply either. `BatchInv`
adds what makes them true: a request in progress without a pass is counted as what it is (`CountedAsIs`), a
batchEdit that contains another has sent nothing (`RefusedSendsNothing`), a request with a pass that has
been sent and is not answered is the one that a batchEdit in progress waits for (`OneOut`), and that
batchEdit's pass is the current one (`PassKept`). The batchEdit holds the writer's place, so by
`WriterExclusion` there is one, so one request with a pass and no plain edit beside it. That a batch's
rollback is a write is in `ConstantsAssumption`: it is the POST of `undo` that `POST_batchEdit` sends.

`ChangelogSyncProofs`, for any founders and joiners and any number of changelogs. `MaxMade` bounds what the
asworker makes and may be anything; of `ChangelogSyncAssumption` nothing is needed:

- `OnePlaceEach`: `Spec => []IInv`;
- `InOrderAlways`: `Spec => []AppliedInOrder`;
- `NothingLostEver`: `Spec => []NothingLost`;
- `FounderNeverRejects`: no founder throws 'invalid changelog sequence#';
- `TypesKept`: `Spec => []TypeOK`, joiners included: what a csworker clones of another's pending changelogs, and
  keeps of them, are numbers that the asworker gave (`After`, the filter, keeps no other and keeps their order);
- `KeepsReplicaLog`: `Spec => Log!Init /\ [][Log!Next]_<<made, [c \in Founder |-> next[c] - 1]>>`, the safety
  half of the refinement that the run `sync` checks.

`AppliedInOrder` is not inductive: if a second copy of the changelog being applied could arrive, it would
be begun again. The invariant says for each founder `c` where each changelog is:

    Good(c) == Numbers(c) /\ Whereabouts(c) /\ Contents(c)

`Whereabouts` says that the numbers in the asworker's outbox, in the csworker's socket and in
`__pendingChangelogs` are together exactly those from the next one to the last one made, without the one being
applied, that no two of the three places share a number, and that the next one is not pending unless one
is being applied. `Numbers` has the types, says that a sequence holds no number twice and that the pending
ones are sorted; `Contents` is `AppliedInOrder`. Lemmas on sequences of different numbers (`AppendNumber`,
`DropLast`, `DropHead`, `LaterNumber`) say what each queue operation does to the set of its numbers; then there is
one lemma for each action. The joiners' actions keep the invariant because a founder is never `cloning`.

`MmmkProofs`, for any metamodels, values, number of ids, operations and loads, and
any set of well-formed models that can be loaded (`MmmkAssumption`):

- `TypesKept`, `FailuresAtomic`, `StepsAreOperations`, `JournalsComplete`, `ModelsWellFormed`:
  `Spec /\ UndoesToMarkers => []P` for `TypeOK`, `FailureIsAtomic`, `StepIsLastOperation`, `JournalIsComplete` and
  `WellFormed`;
- `OwnCheckpointsAnchor`: `UndoesToMarkers` holds in every behaviour in which no operation begins with a
  step-checkpoint that is beyond the index;
- `WithoutUndo`: if nobody undoes, the five hold of every behaviour, with no hypothesis.

They assume `~MayReload`, as the run `mmmk` does: the run `reload` shows why. `UndoesToMarkers` says that when an
undo takes a step, the journal's first entry is a marker; *Divergences*, `zombie`, has a history in
which it is not, and a node is left without its metamodel. `JournalIsComplete` and `WellFormed` say the same of
the state they speak of (`Anchored`), but the invariant below needs it at each undo that came before.

None of the five is inductive: an undo may give any model unless the journal's entries are known to fit it. The
invariant says that there is a *trail* `S`, one model `S[k]` for each length `0 .. Len(log)` of the journal, the
first one empty and the present one at `journalIndex`:

    TrailInv(S) == Trail(S, journal, model) /\ FreshInv(S) /\ CheckpointInv(S) /\ StepInv(S)
    IInv == TypeOK /\ ProgramInv /\ FailureIsAtomic /\ \E S : TrailInv(S)

`Trail` has every model of `S` well formed and every entry lead from its model to the next *and
back*: an edge is made inside the list, a node where there was none, and so on. The lemmas on trails show what follows of it:
`RedoAll` of a part of the journal goes forward on the trail and `UndoAll` goes back (`TrailBetween`), a logged
entry cuts the trail and adds a model, a removed marker takes one out. This is an induction over the length of the
part; it is in reach because the recursion is a function and the induction is over a set
(`NatSetInduction`). Lemmas at the beginning of the module say for each journalling function where its index and its
markers are afterwards; `UndoRedoProofs` has, for its own journals, the few of them that it needs.

`ProgramInv` says what the calls still to be made will find. `Flow(calls, depth)` follows the open crudOps to
the end of the program, with what each call needs (`Makes`: a node to be made has a free id and the ends of an
edge will be there; `Removes`: a node goes when no edge touches it any more). `FreshInv` says that ids from
`next_id` on are in no model of the trail, `CheckpointInv` that the model at the outermost checkpoint is
`before`, `StepInv` that the last step-checkpoint's is. There is one lemma for each action, and lemmas for
each program (`CreateFlows`, `DeleteFlows` and others) that it is one.

`TransformationProofs`, for any rules and any number of threads, commands, steps and edits
(`TransformationAssumption`: the names of the context's own states are not names of rules):

- `TypesKept`: `Spec => []TypeOK`;
- `FeedbackAlwaysComes`: `Spec => []FeedbackComes`.

`FeedbackComes` is about the moment when no thread is left that would tell the end of the last step, and is not
inductive: that the step was told has to be known while the thread is still on its way. The invariant is

    IInv == TypeOK /\ BeforeLoad /\ Stacked /\ Told
    Told == EndsAreFed /\ NoStepYet /\ ExceptionsNoted /\ FeedbackComes

`EndsAreFed` says that where the context's last step is not that of a rule, its feedback is there, about to be
printed, or in the queue, or a thread goes on without it (`Pending`); `NoStepYet` that a context without a last step has
no step under way but one that was begun before a reload; `ExceptionsNoted` that a thread with an exception has been
counted; `Stacked` that the contexts under the present one meet what `EndsAreFed` says of it, and that one that is
not there is like a new one; `BeforeLoad` that nothing happens before the model is loaded. The attempt to
prove it without `locked` failed at the step that handles an outdated changelog, and TLC then found the behaviour
(*Divergences*).

`SessionsProofs`, for any clients and any number of workers and requests (`SessionsAssumption`: no socket of a
client has the name of a worker, and none is 0, the undefined id):

- `TypesKept`: `Spec => []TypeOK`;
- `StaysUpWithCare`: `Spec => []StaysUp`;
- `ListsMatch`: `Spec => []ListsMatchProcesses`, whether sessions are used with care or not.

Neither is inductive. Whether a worker is there when something reaches it depends on who is registered to it, on
what is still on the wire of each socket and on how far each subscription has come. The invariant is

    IInv == TypeOK /\ StaysUp /\ (up => Structure /\ Calm)
    Structure == Clients /\ Workers /\ SubscribesOnce /\ ListsAlive /\ RunnersListed

`Clients` has what a client's socket has sent at each point of its progress (`ClientWire`), and that it is
registered to its csworker, and to no other, from its hello to its disconnect (`ClientListed`). `Workers` has the
same of a csworker's own socket: it is registered to the asworker of its subscription alone, and its disconnect is
the last thing it sends (`SocketListed`); an asworker runs with an empty list only until its first csworker's
`changeListener` has been read (`FoundedBy`). That needs `SubscribesOnce`, the hardest part: a csworker is asked to
subscribe once, by the server that made it with its asworker or by the guest that has it alone, so it never asks to
listen to a second asworker. `unregister` may therefore stop at the first list it finds, which is otherwise the weak
point of `session_manager.js:247-253`.

`Calm` is what care gives: while somebody leaves nothing but disconnects is on its way (`OnlyByes`, so that a step is
the server's and ends at most one worker), and whatever else is on its way is `Addressed` to workers that run and
names such workers. The proof has one lemma for each action and for each of the two parts.

`UndoRedoProofs`, for any number of requests and any length of batches (`UndoRedoAssumption`):

- `TypesKept`: `Spec => []TypeOK`, for any csworkers, patient or not: no interleaving of changelogs, undos and
  rollbacks takes an index out of its list;
- `NamesMatchJournal`: `Spec => []NamesAreMarked`, for one csworker whose clients wait (`Patient`), however long its
  changelogs are pending while a batchEdit goes on. With several, or with clients that do not wait, it is
  false of the code: two hazards with notes;
- `BatchesAreAtomic`: `Spec => []BatchIsAtomic`, under the same two assumptions;
- `SmoothWorkersAgree`: `Spec => []AgreeWhileSmooth`, under the same two.

While an undo is on its way the cursor has moved and the journal has not, and an end of a batch may be undone by
the name of its start, far before it; while a batch goes on, its checkpoints and edits are in the asworker's journal and
in a queue of changelogs, and not in the csworker's. So the invariant says of each csworker

    IInv == TypeOK /\ ("rollback" \notin early => \A c \in CSWorker : Story(c))
    Story(c) == MovesAlone(c) /\ NamesInOrder(c) /\ NewsIsNew(c) /\ BatchIsMarked(c) /\ JournalFollows(c)

`MovesAlone` says that an undo or redo is under way with nothing else, as a request or as the changelog that came
of it: this is what clients that wait, one csworker and a rollback that overtakes nothing give, and changelogs that
bring names may be several. `JournalFollows` says that the journal matches the names at the cursor or, when what
the csworker comes to next (`News`) is an undo or redo, at another place `k`, such that carrying it out by name
leads from `k` to the cursor (`UndoComes`, `RedoComes`). `NamesInOrder` says that an end has its start
before it, for the names that a new one cuts off are those of whole batches or of a batch's end; `NewsIsNew` that a name that
is on its way is in no list and comes once, so that no checkpoint is ambiguous; `BatchIsMarked` that a batch has its
start in the list or on its way. The lemmas on `Marked` say what a new name, `UndoneUntil` and `RedoneUntil` do to it
(`NewMark`, `MarksUndone`, `MarksRedone`); then there is one lemma for each kind of action.

`BatchIsAtomic` speaks of the moment when a batch has been taken back. That it can be is kept while the batch goes
on: `Recalls(content, j, b, was)` says that journal `j` has one start checkpoint of `b`, in its applied part, and that
the content without the operations logged after it is `was`. The invariant is

    AInv == IInv /\ ("rollback" \notin early => \A c \in CSWorker : AllGiven(c))
                 /\ (early = {} => \A c \in CSWorker : AtomicStory(c))

`AllGiven` says that names in journals and contents have been given before, so that what comes next is in neither: a new
operation is not in `was`, and undoing it takes nothing away that was there. `AtomicStory` says at each
step of the batch that the asworker recalls what it had, and that the csworker does or has its start checkpoint next
(`GoesBack`), and after it, when the request concerned a batch, that they still do, that the undo is under way and has
reached one of them, or that it is over (`Returns`). The edits that are refused or change nothing log a checkpoint and
keep `Recalls` like the others (`RecallsLogged`).

`AgreeWhileSmooth` compares contents, which follow the journals of two workers that are never in step: the
csworker undoes its own operations by name, the asworker one step at a time, and is ahead by what is on its way.
What both follow is the csworker's list of names *as it will be*: `Ahead(c)` and `CursorAhead(c)` are list and cursor
when every changelog on its way is recorded. The invariant is

    SInv == AInv /\ ("rollback" \notin early => \A c \in CSWorker : MarksAreNew(c))
                 /\ (smooth => /\ "rollback" \notin early
                                /\ \A c \in CSWorker : batch[c].reply # "error" /\ SmoothStory(c))
    SmoothStory(c) == CsShape(csContent[c], csJournal[c]) /\ AsShape(asContent, asJournal)
                      /\ AsFollows(c) /\ ComesSmooth(c)

`CsShape` and `AsShape` say what a journal looks like (an operation after its checkpoint; a step checkpoint before
each operation) and that the content is what its applied part did. `Told(list, k, j)` says that the asworker's
journal `j` tells the first `k` names of the list: the shared ones in their order (`TellsAll`, `TellsInOrder`),
those up to `k` before its index (`TellsUpTo`), and after it only what the list has undone (`OthersUndone`).
`AsFollows` has this of the list and cursor ahead or, when an undo or redo is asked for, at the place where the cursor
was. Then a step undone or redone is that of the next shared name (`AsStepUndone`, `AsStepRedone`), and at rest, where
`Ahead` is the list, both contents are the operations of the same names. A smooth run never rolls back, for that takes a
refused edit; `MarksAreNew` says that the asworker has not yet marked what a batch will ask it to mark.

`CanvasProofs`, for any nodes, any finite set of links and any number of changes and dialogs
(`CanvasAssumption`: a link has its two ends among the icons, and no edge has the id of a node, which is what
`id1--id2` gives):

- `TypesKept`: `Spec => []TypeOK`;
- `SelectionAlwaysShown`: `Spec => []SelectionShown`;
- `DialogsAlwaysHear`: `Spec => []DialogsHaveEvents`;
- `FreezesOnlyOnSelectedEdges`: `Spec => OnlySelectedEdgesFreeze`;
- `ViewsFollow`: `Spec => []ViewFollowsModel`.

A changelog is right only for the model it was made from: a step that removes an edge is harmless because the edge
is there, and a client that has applied some changelogs and not others shows neither the model nor the one
before it. So the invariant has a model for each place on the wire:

    IInv == Served /\ Viewed /\ Follows /\ Gestured /\ Talks
    Follows == \E M : Between(M)

`Between(M)` says that `M[0]` is what the client shows, unless it is stuck, that the last one is the csworker's
model, and that each changelog leads from one to the next. `Leads(ns, c, ns2)` is said of every good view, not of
the client's: whatever is selected and drawn on it, a view that shows `ns` shows `ns2` after `c`, or `c` removes an edge
that is selected (`Outcome`, `Hits`). It is proved for what each handler sends (`Create`, `Connect`, `RemoveNode`, `Update`,
`Load`) when it is sent, from the csworker's model alone, and used when the client gets to it, with
whatever gesture it is in the middle of. Inside a changelog edges may have only one end left; `Viewed` says that between
changelogs links are whole, what is selected is shown and a connection is selected as a whole, which every
`__select` keeps because `Complete` of a set is complete (`CompleteWhole`). `Gestured` says which states of the
statechart have a selection, an overlay or a path; `Talks` is `DialogsHaveEvents` with the kinds of dialogs.

`ClientSyncProofs`, for any owners and guests and any number of changelogs (`ClientSyncAssumption`: no owner is a
guest):

- `TypesKept`: `Spec => []TypeOK`, for clones too;
- `CanvasShowsABeginning`: `~Cloned => (Spec => []ShowsABeginning)`. For a clone it is false of the code, as the run
  `cloned` shows.

A window orders two streams, each with numbers and a pending list of its own, and a guest begins in the middle of
both; what it has yet to show is in its socket, in what the session manager has not read, in the turn of the csworker and
in the two lists. That the canvas keeps the order *between* the streams, which no number tells, follows from what
may overtake what:

    IInv == TypeInv /\ LogInv /\ \A c \in Client : Window(c)
    Window(c) == Lined(c) /\ OneAnswer(c) /\ StatesFit(c) /\ InTouch(c)

`LogInv` says that each changelog of the log has its number in its stream and that the first is the asworker's. `Lined`
says that what is on its way is of the log, each changelog at one place, and in an order that may be: if one comes before
another that is earlier in the log, all from the one to the other are the csworker's own (`Apart`), for those of one
turn leave in reverse and an asworker changelog begins and ends with an empty turn. `OneAnswer` has
a guest wait for one state at most. `InTouch` is about a window that nothing upset: what is pending has arrived
(`Kept`), and it is either in step with the log (`InSync`: it shows a beginning, its numbers go on from there, the rest is
on its way or pending, and nothing of the asworker's is pending), or it has missed the first changelog and shows
nothing until its state comes (`Behind`). `StatesFit` says that the state on its way brings such a guest up to date: what
is not in it is still coming, pending, or was lost, which `Overtaken` tells. The lemmas on `Apart`, on counts and on
sorted lists come first, then one lemma for each action. TLC checked the invariant on the instance of `clients`
and on a smaller one with two guests before it was proved.

Only model-checked:

- `IconSync`: an icon is current or will be redrawn by something that is under way, a continuation, a request for a
  mapping or a pending changelog, and undo takes whole sets of icons back; its invariant was not found;
- `StopEndsIfFed`, because it is a liveness property;
- all liveness, that of the refinement included: fairness and `ENABLED` are outside what the prover can do.

`MayReload` and a journal without a marker at its beginning stay with TLC, which finds what goes wrong.

## 6. What is not modelled, and why

- Types, cardinalities and constraints of metamodels: a refused operation is `Refuse` or a failure; which
  operations are refused is a function of the metamodel and does not change the protocol.
- The csworkers' part in loading models and metamodels, `PUT *.cs` and `*.vobject`, layout: of the csworker
  handlers only those that `IconSync` and `ClientSync` name are modelled.
- The content of icons, mappers and parsers: designer code.
- `UndoRedo` is checked with one csworker whose clients wait for their changelogs, its batchEdits not. With two
  csworkers, or a client that undoes before a changelog is applied, the workers diverge (hazards with notes);
  `CSWorker` and `Patient` are constants so that the weaker properties can be looked for.
- A csworker's local edit between two turns of the application of one asworker changelog, but for the order in
  which windows see the two (`ClientSync`).
- `Sessions`: `DELETE /changeListener` and `POST /csworker`, which nothing in the client's set-up calls;
  `/collabReq` as a request (links are read from the tables); a socket that connects again; the
  transformation engine's socket.
- `Transformation`: debugging pauses, transformations that a rule nests, a transformation that cannot be loaded
  (`_mtContexts[-1]` then raises for every command and a stop leaves the mode `STOPPING`), data that
  `_handleChangelog` raises on (line 260, with the lock held), edits sent at the end (`incUpdates` false), the other
  formalisms of transformation, the window API, the HTTP and websocket threads; matching and rewriting.
- `Canvas`: geometry, containers (nothing is selected along with another icon), toolbars, the fields of the
  entity editor. `ClientSync`: switches of concrete syntax, clients that leave.
- Compilers, file server, plugins: functions of documents, without protocol state that another part
  depends on.

More than half of the client's code is vendored: `d3.js` and `raphael.js` have 24 106 of the lines under
`src/` that can be counted as implementation, and are not AToMPM's own. Drawing, geometry, menus and
exporters are most of the rest.
