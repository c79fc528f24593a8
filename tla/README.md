# Busman in TLA+

Busman is a desktop client for Azure Service Bus: it browses, sends, drains,
moves and replays the messages of queues and subscriptions. This directory
holds TLA+ modules of its core logic, the TLC configurations that check them on
small instances, and theorems about them whose proofs TLAPS checks.

The program has three layers, and every destructive operation passes through
all of them:

```
 React/TypeScript interface      src/hooks, src/store, src/utils
   | Tauri command  ^ response, completion event, progress events
   v                |
 Rust bridge                     src-tauri/src/commands
   | JSON lines on the worker's stdin  ^ JSON lines on its stdout
   v                                   |
 Go worker                       src-tauri/worker-go
   | azservicebus SDK (AMQP)    ^ acknowledgments, messages
   v                            |
 Service Bus                     external
```

The question that runs through the whole system is *what really happened at the
broker*, and whether the user is told the truth about it. Any link of the chain
may fail after the effect took place, so the program distinguishes "done", "not
done" and "not known", and must not let the user start conflicting work while
something is not known. One group of modules is about the links of that chain.
The other group is about the interface above it: what is on display, and what
is about to be changed, must belong to the connection and the queue the user
sees, although answers come late and in any order.

## Inventory

### Bulk drain and transfer (Go worker)

* Code: `handlers_drain.go`, `handlers_move.go`, `handlers_transfer.go`,
  `completeReceivedMessages` in `handlers.go`.
* State: per source subqueue the position of its loop, the batch received under
  lock, the chunk in transit, the channel between the scheduler and the
  settlement goroutines; per run the outcome tracker; at the broker the locks,
  the messages, the destination.
* Operations: receive a batch, cut it into chunks the destination takes, send a
  chunk, remove every message of an accepted chunk, stop.
* Interactions: called by the dispatcher with a request context (ended by Stop)
  and a work context (not ended by Stop); writes the outcome tracker.
* Hard: up to two sources at once, a pool of settlement goroutines per source,
  Stop at any moment, sends and removals whose acknowledgment is lost and which
  the broker executes later, locks that expire.
* Correct when: the report bounds the truth at every moment; nothing is removed
  from the source before the destination has it; nothing is sent twice by one
  run; a status other than *unknown* is exact; Stop ends the intake; nothing
  happens after the report; every run ends.

### Operation outcome contract

* Code: `operation_outcome.go`, `operation_outcome.rs`,
  `contracts/operation-outcome.json`.
* State: four counters per source. Operations: record, snapshot, finish.
* Correct when the status and error code follow from the counters and the error
  as the contract says.

### Request dispatch, run registry and slots (Go worker)

* Code: `main.go`.
* State: the requests being handled, the registry of cancellable runs, the pool
  of handler slots, the answers written.
* Operations: read a request, register, wait for a slot, run, answer, give back
  the slot, unregister; cancel a run.
* Hard: Stop races with registration, with the wait for a slot, with the return
  of the handler and with a second run of the same id; deferred calls run in an
  order of their own; scans wait for each other while they hold slots.
* Correct when: every request is answered exactly once; a failed cancel means
  that nothing of that id is under way; Stop gets through with every slot taken;
  nobody waits in a circle.

### Source gate of single-message operations (Go worker)

* Code: `single_message_sources.go`.
* State: a map from source to a reference-counted entry with a one-place channel.
* Operations: acquire (look up, wait, re-check the context), release, forget.
* Hard: entries are deleted and created anew under a mutex while the wait
  itself is outside of it; select picks at random when both cases are ready.
* Correct when: scans of one source never overlap; nobody is left behind by a
  deleted entry or a stranded token.

### Single-message scan, lock renewal and completion (Go worker)

* Code: `handlers_single.go`.
* State: the locks retained during a scan, the renewer's table, the scan budget.
* Operations: scan for the target, retain the locks of other messages, renew
  them in a goroutine, act on the target, release the rest.
* Hard: the renewer runs beside the scan and the completion.

### Sessions (Go worker)

* Code: `handlers_session_state.go`, `consumeAvailableSessions` in `handlers.go`.
* Operations: accept the next session, drain it, go on until none is left; get,
  set and clear a session's state.

### Browse, search, send, administration (Go worker)

* Code: `handlers_browse.go`, `handlers_send.go`, `handlers_admin.go`.
* One or a few broker calls each, without shared state; browsing peeks pages in
  the order of sequence numbers. They appear in the interface's modules as calls
  the broker carries out, or not, some time before they are answered.

### Worker process and pending responses (Rust bridge)

* Code: `commands/worker.rs`.
* State: the current worker under an asynchronous mutex, the pending map from
  request id to response channel, the reader task.
* Operations: call, write, wait with or without a timeout, route a response,
  drain the map when the output ends, start and replace worker processes.
* Hard: the reader, the callers and their timeouts share the pending map; a
  caller acts on a failure it saw before it got the mutex.
* Correct when: one worker process at a time; no call waits for ever; no
  channel outlives its call; a failure hits only the calls of the worker that
  failed.

### Operation commands (Rust bridge)

* Code: `commands/operations.rs`. Validates, resolves the connection, calls the
  worker without a timeout, turns a transport failure into the outcome
  *unknown*, and emits the completion event beside the response.

### Destructive operations in the interface

* Code: `hooks/useScript.ts`, `store/operationSlice.ts`,
  `store/operationJournal.ts`, the event log of `store/appStore.ts`,
  `utils/exitCode.ts`.
* State: the phase of every active run, the bulk lock, the event log and its
  saved copy.
* Operations: guard and start a run, take either terminal message, watchdog,
  Stop and its answer, review, clear, restart.
* Hard: two terminal messages, either lost or late; a rejected Stop after the
  run has ended; a restart in between.
* Correct when: conflicting operations never overlap; the lock is kept until a
  terminal result; the log never says more than is known; an unknown outcome
  blocks its connection until it is reviewed.

### Message list, cursors and operations on messages (interface)

* Code: `Toolbar.tsx`, `MessageGrid.tsx`, `MessageContextMenu.tsx`,
  `PropertiesPanel.tsx`, `MoveMessagesModal.tsx`, `store/messageSlice.ts`,
  `store/peekCursors.ts`, `utils/messageOperation.ts`.
* State: the selected queue, the list and its cap (5000 messages, 64 MiB), a
  cursor for each of the two sources, the open menu, the move dialog and what it
  captured, the operations in flight and the log entries they will settle.
* Operations: select a queue, Browse, Load More, open the menu, delete, replay,
  move, the bulk operations; each of their answers.
* Hard: sequence numbers repeat in every queue, so an answer that is applied to
  the wrong list does so silently; the menu and the dialog outlive a selection;
  a replayed message may be back in the list before its replay is recorded.
* Correct when: the list is the selected queue's; Load More passes nothing over;
  a message leaves the list only for its own operation; a message that came back
  is reported.

### Entity tree, counts and automatic refresh (interface)

* Code: `hooks/useEntityList.ts`, `hooks/useAutoRefresh.ts`, `Sidebar.tsx`,
  `SidebarTree.tsx`, `CreateEntityModal.tsx`, `DeleteEntityDialog.tsx`.
* State: the tree, its loading flag and error; for each entity a count, the
  request it is waiting for and a mark for a count that could not be refreshed;
  how many common requests are in flight; the timer's own flag.
* Operations: list, count all, count one, the timer's tick, create, delete.
* Hard: the hook has two users that share flags; requests for all counts and for
  one overlap; every answer may come after the connection has changed.
* Correct when: the tree is the active connection's; a count is never replaced by
  an older one; a stale count is marked; loading ends and the timer goes on.

### Connections in the interface

* Code: `hooks/useConnections.ts`, `ConnectionsPanel.tsx`, `ToolbarControls.tsx`,
  the export and import dialogs.
* State: the list, the connection in use, the form that is open, the commands in
  flight.
* Hard: the commands run in order but what is mounted when their answers arrive
  is another matter; an answer to a save replaces the list only, one to a
  deletion the connection in use too.
* Correct when: the connection in use is always one that is listed, and when all
  is answered list and store agree.

### Properties, send window and rules editor (interface)

* Code: `hooks/useEntityProperties.ts`, `SendMessageModal.tsx`,
  `SubscriptionRulesModal.tsx`, `utils/subscriptionRules.ts`.
* State: the properties on display; the window's messages on their way; the
  rules, the selected one, the draft, three flags.
* Hard: the two windows do not keep the focus, so selection and connection change
  beneath them; the rules' loads carry no request number.
* Correct when: what is on display is the selection's; a message to a queue with
  sessions has one; a rule is overwritten only with its own draft.

### Alerts on dead letters (interface)

* Code: `hooks/useDlqAlerts.ts`. A set of names already notified, compared with
  the counts on display.

### Connection store (Rust bridge)

* Code: `store.rs`, `commands/connections.rs`.
* State: a configuration file and its backup, a file set aside while it is
  replaced on Windows, files left by old versions; the master key in the
  operating system's credential store and its cache; two locks.
* Operations: load (with recovery and migration of two old formats), save a
  connection, delete one, choose the active one; the staged commit of backup and
  primary, and its rollback.
* Hard: a kill or a failing call between any two renames; a new key that must
  outlive every file sealed with it and no more; a migration from text that is
  cut short; a load and a save of one command with another command in between.
* Correct when: the file the next load chooses opens; it holds what the user was
  told it holds; no text of a migrated file stays behind; the active connection
  exists.

### The rest

Encryption (`crypto.rs`), windows, menus, logging and file dialogs (`lib.rs`,
`commands/files.rs`, `commands/logging.rs`), React components, translations.
None of it keeps state whose order matters.

## Modules

| Module | Models | Proofs |
|---|---|---|
| `OperationOutcome` | the outcome tracker and the mapping to a status | used by the next |
| `BulkTransfer` | one drain or transfer run over one or two sources, and the broker | `BulkTransferProofs` |
| `SingleMessage` | one single-message operation: search, lock renewal, action, cleanup, and the broker | `SingleMessageProofs` |
| `SourceGate` | the gate map of single-message scans | `WorkerProofs` |
| `WorkerDispatch` | the worker's request loop, registry and slots | `WorkerProofs` |
| `WorkerBridge` | the bridge's calls, reader task and worker processes | `WorkerProofs` |
| `OperationLifecycle` | destructive operations in the interface, with journal and restarts | `OperationLifecycleProofs` |
| `ConfigStore` | the connection store: files, backup, master key, migrations, recovery | `ConnectionStoreProofs` |
| `EntityTree` | the entity tree, its counts, automatic refresh, creation and deletion | `EntityTreeProofs` |
| `LatestAnswers` | abstract: a value on display answers the latest request for it | implemented by `EntityTree` |
| `MessageView` | the message list, its cursors, and operations on what is listed | `MessageViewProofs` |
| `Connections` | the connection panel, selector, export and import with their commands | `ConnectionStoreProofs` |
| `ActiveConnection` | abstract: the connection in use is a listed one | implemented by `Connections` |
| `EntityDialogs` | properties, send window and rules editor, composed with `ActiveConnection` | `EntityDialogsProofs` |

`MC*` modules give the constants their values. Definitions whose comment begins
with "Mutant:" are never part of a specification: each is a plausible mistake in
the definition that follows it, and putting it in that definition's place makes
TLC find a violation, which shows that the property depends on the code.

The modules follow the links of the chain. Each one treats its neighbour as the
environment that the code really faces: `BulkTransfer` and `SingleMessage` have
the broker inside, with acknowledgments that fail and effects that come late;
`WorkerDispatch` has handlers that run and return; `WorkerBridge` has a worker
that answers, is silent or dies; `OperationLifecycle` has a bridge whose response
and event may each be lost. `OperationOutcome` is the only module two others
share as a definition: both kinds of handler report through it.

In the interface the connection is what everything else hangs on, and it is
where modules are composed. `Connections` has all of the panel, the commands and
their answers; `ActiveConnection` keeps of it what the other views see: a list,
and the connection in use, which is one of the list at every moment and changes
in one step together with everything that is reset by it. `Connections`
implements `ActiveConnection` under the mapping `listed <- IdsOf(list)`, and
`EntityDialogs` extends `ActiveConnection` with its own variables: each of its
steps that changes the connection is a step `ActiveConnection` allows, with the
reset of the store's `setActiveConnectionId` conjoined. What `EntityDialogs`
proves of the views therefore holds for whatever order of commands and answers
`Connections` can produce. `EntityTree` and `MessageView` change the connection
in the same way, with the generation number the code compares late answers with.

### OperationOutcome

Pure operators, no state of its own. `Record` adds four deltas to the counters of
one source, `Snapshot` adds up the sources, `Finish` is `finish`: without an
error the status is "success"; with one it is "unknown" if a send or a removal is
unconfirmed or an accepted message is still at its source, else "stopped" for a
cancellation and "error" for anything else. The error code keeps "cancelled" even
where the status is "unknown".

### BulkTransfer

| Code | Model |
|---|---|
| `runOne`'s loop over one source | `pc[s]`, `batch[s]`, `chunk[s]`, `result[s]`; `BeginReceive`, `Receive`, `ReceiveNothing` |
| chunks a transfer cuts out of a batch | `NextChunk` (any set of messages of one affinity), `BatchRefused` |
| `sendAndCompleteMessages` | `DispatchSend`, `SendAcked`, `SendFailed`: unconfirmed is counted before the send, confirmed after its acknowledgment |
| `completeReceivedMessages`: channel, scheduling context, goroutines | `todo`, `closed`, `schedStop`, `wpc`, `wmsg`; `HandOut`, `CloseJobs`, `CheckSchedule`, `DispatchComplete`, `CompleteAcked`, `CompleteFailed`, `WorkerExit`, `SettleReturn` |
| Stop (`run.stop`) | `Stop`, at most once, at any time before the response |
| the terminal response, once every source has returned | `Respond` |
| the broker (external) | `avail`, `locked`, `removed`, `accepted`; `wire` holds sends it may still accept; `BrokerAccepts`, `BrokerRemoves`, `LockExpires`, `DeadLetter` at any time, also after the worker gave up or the run is over |

Redelivery is in the model: a lock may expire and a message come back to the
same run. So is dead-lettering by the broker: at any time, whatever the worker
has done with it, a message of `DOMAIN DeadForm` may leave its subqueue and be in
the dead-letter one as `DeadForm[m]`, where the other source of the same run
receives it (`handlers_move.go:325`). The two are one message of the user's and
two receipts of the worker's, which is why they have two names. Sessions are not
in the model (see below).

### SingleMessage

One call of the handler of a single message, with the renewer goroutine beside
it. The search has three ways (peek and deferred receive, active receive, scan
with held locks), in the order of the code; held messages are renewed by the
goroutine and released at the end; the action is a removal, or a send followed
by a removal; the cleanup runs on every path out. The scan's budget, its batch
and the number of empty polls are constants, as in the code, with small values.

### SourceGate

`acquire` is four steps (look up under the mutex, wait, re-check the context,
give up), `release` two (return the token, forget the entry). Entries are
identities, since the hazard is that a goroutine waits at an entry that is no
longer the one in the map.

### WorkerDispatch

The reading loop, one goroutine per request, the registry under its mutex, the
regular and the control pool of slots, and the deferred calls in the order Go
runs them. A second run may reuse the id of an earlier one. Handlers are
abstract: they return, with or without an error, or hold their slot.

### WorkerBridge

Callers with and without a timeout, the asynchronous mutex around the current
worker, the pending map of each worker process, the reader task and its drain of
the map. Worker processes are numbered so that "a worker" and "my worker" are
told apart.

### OperationLifecycle

The interface's guards, its listeners, the two terminal messages of a run, the
watchdog, Stop and its rejection, the event log, the saved journal, review,
clear, restart. The bridge side is the queue of messages on their way to the
interface.

| Code | Model |
|---|---|
| `eventLog`, cut at 500 entries (`appStore.ts:608-614`) | `log`, at most `MaxLog`: `Push` |
| the subscriber that saves each change (`appStore.ts:897-901`, `saveOperationJournal`) | `saved`, in `Store`; a save that fails (2 MB, storage) keeps an earlier text, at most `MaxFailures` times in a row |
| `loadOperationJournal`, `journalMetadata` | `Restart`: the first `n` saved entries are read back, for any `n`. The entries are in order of time, so the 30-day filter leaves a prefix; `n = 0` is a journal that is too long or cannot be parsed |
| nothing: a history variable | `forgotten`: the runs whose entry was pushed out or not read back |

### ConfigStore

| Code | Model |
|---|---|
| `connections.json`, its backup, files set aside or left by old versions | `primary`, `backup`, `side` |
| the credential store and `MASTER_KEY_CACHE` | `vault`, `cache` |
| `STORE_LOCK` (every function of `store.rs`) | `run`: the one call under way, a step at a time |
| `CONFIG_LOCK` (load, change, save of one command) | `lock`, `caller` |
| loading, recovery from the backup, both migrations | the load steps |
| staged commit of backup and primary, its rollback, the key's rollback | the save steps |
| killing the program | `Crash`, between any two steps: `cache`, `lock`, `run` and callers are gone, files and vault stay |

On Windows a rename over an existing file is two steps with the old file set
aside; the model chooses the platform in `Init`. Three ghost variables serve the
properties: `fate` (what the user was last told of each connection), `told` (an
error reported that a rollback failed) and `sanitised` (a full load succeeded).

### EntityTree and LatestAnswers

| Code | Model |
|---|---|
| `activeConnectionId`, `connectionGeneration` | `conn`, `gen`; `SetActive` with everything the store resets, and the listing its effects begin |
| `entities` with its flags; `fetchingConnRef` of each mounted hook | `tree`, `treeLoading`, `treeError`, `fetching[u]` |
| `countRequestSequence`, `countRefresh`, the two tables of counts | `last`, `latest`, `marked`, `shown` |
| calls in flight | `lists`, `counting`, `admin`, answered in any order or failing, carried out or not |
| `useAutoRefresh`: the timer and `refreshInFlightRef` | `polling`, `waiting`; `Tick`, and `RefreshDetected` for the effect on the loading flag |
| the create and delete dialogs | `dialog`, `target`, `deleting`; `Create`, `Delete` and their answers |

A count is represented by the number of the request that brought it, which is all
the properties tell apart. `LatestAnswers` has only these numbers: ask, answer
with the latest, forget, reset. The refinement `LatestWins` says that the tree
does nothing else to what it displays.

### MessageView

| Code | Model |
|---|---|
| selection of a connection and a queue | `conn`, `gen`, `sel`; `SetActive`, `Select`, `EntityGone` |
| `peekMessages`, the two cursors, the budget, the selected message | `list`, `cursor`, `full`, `selected`; `Browse`, `LoadMore`, `PeekAnswered`, `PeekFails`, `ClearLoaded`, `SelectMessage` |
| one peek call in flight, in mode *both* two pages one after the other | `request`; `PeekAtBroker` reads a page some time before the answer arrives |
| the context menu, and the move dialog with what it captured | `menu`, `move` |
| `pendingMessageOperations`, `activeOperationRuns`, the event log | `pending`, `runs`, `log`; `Begin`, `Finish`, `Review` |
| the broker | `world`, `stamp`; `WorkerActs`, `WorkerTakes`, `DeadLetter` |

The mode is a parameter of `Browse` and `LoadMore`, since the select box may be
changed at any time. The size limit of 64 MiB is a free choice between cutting
and not cutting. The menu stays open across a selection made with the keyboard.
`EntityGone` deselects whatever is selected when a deletion ends, which is not
always what was deleted (`DeleteEntityDialog.tsx:46-62`). A refused operation is
a log entry with status *error*; the watchdog is `OperationLifecycle`'s. Sequence
numbers are given from one counter, but messages of different sources and queues
share numbers from the start, which is what the properties need.

### Connections and ActiveConnection

The Tauri commands on connections are synchronous functions behind one mutex:
`Run` carries the oldest one out that has not been, and `Answered` takes the
answers in the same order. That a command which fails leaves the configuration
as it was is what `ConfigStore` shows. Each call knows which parts of the panel
are waiting for it (`views`); unmounting takes them away, which is how the code's
ignored promises and its `setState` on what is no longer there are told from
answers that still count. Labels stand for name, environment and colour; a
credential is one of a set of keys. Searching, grouping by environment and the
test of a connection are left out.

### EntityDialogs

`Refetch` is the effect of `useEntityProperties`: it marks the calls made before
as stale and makes another. The name in the send window is an input of `Submit`,
since it may be typed, chosen or come with a message that is sent again; the kind
is that of the selection at that moment, as in the code. Whether a session is
needed is read from the properties on display only if they are this queue's, and
asked for otherwise; the worker checks once more (`handlers_send.go:27`), which
the model leaves out so that the property rests on the window alone. Messages to
a topic are not checked, by the code and by the model. In the rules editor a
draft is its name and the rule it was made from; filters and actions are left
out. `Orphans` are the calls of an editor that was closed.

## Runs

Every run is exhaustive at its bounds and passes. Where the code does not keep what
a document says of it, the models show that under "Observed behaviour".

| Run | Question | Properties | Instance |
|---|---|---|---|
| `bulk_move_both` | Does a transfer of both sources tell the truth and keep every message? | `NoMessageLost`, `StopEndsIntake`, `ReportHolds`, `NoSilentDuplicate` | 3 messages of 2 affinities in 2 sources, one of which the broker may dead-letter at any time, batches of 2, 2 settlement goroutines |
| `bulk_drain` | Does every drain end, whatever fails and whenever Stop comes? | `RunEnds` | 3 messages in one source, batches of 3, 2 goroutines, fairness |
| `single_message` | Is the action on one message exactly reported, and its neighbours left alone? | `SuccessMeansDone`, `WrongMessageUntouched`, `TransferIsWhole`, `ReportHolds`, `HandlerEnds` | the target and one other message, budget 2, batches of 2, one empty poll |
| `source_gate` | Do scans of a source exclude each other, and is nobody left behind? | `MutualExclusion`, `WaitersGetOn` | 3 goroutines, 2 sources, 3 entries |
| `worker_dispatch` | One answer per request, Stop honest and never starved, no circle of waits? | `AnsweredOnce`, `StopIsReported`, `FailedCancelMeansOver`, `NobodyStuck` | 3 runs, two with one id and two of them scans of one source, a plain request, a Stop, two slots |
| `worker_bridge` | One process, no call for ever? | `OneProcess`, `NoCallHangs` | a timed call and two untimed, 3 worker processes |
| `lifecycle` | No conflicting work, an honest log and a lasting block, across lost messages, a full log, failed saves and a restart? | `LockHolds`, `HonestLog`, `UnknownBlocks`, `EitherMessageEndsRun` | a single-message and a bulk operation on one connection, another logged operation, a log of 2, one Stop in flight for each run, one restart that reads any number of entries back, a save that fails |
| `config_store` | Does every file the store may fall back to open, and does it hold what the user was told? | `Openable`, `AsReported`, `NoTextLeft` | 2 connections, one secret, 2 keys, 2 threads, 2 failing calls in a store call, crashes at any step |
| `entity_tree` | Is what the tree shows the connection's, the latest, or marked, and does loading end? | `TreeOfConnection`, `PollingGoesOn`, `StaleIsMarked`, `LatestWins`, `LoadingEnds` | 2 namespaces with the same names: a queue, a topic, a subscription; 2 choices of a connection, 2 actions |
| `message_view` | Is the list the selected queue's and whole, whatever arrives late? | `ListOfSelection`, `NothingPassedOver`, `ReturnSeen`, `RemovedWereDone` | 2 namespaces, 2 queues with the same names and numbers, at most 3 messages in one; 2 choices of a connection, any number of selections, 2 peek calls, one operation, pages of 1, a cap of 3 |
| `connections` | Do list, store and connection in use agree, and is the connection in use always listed? | `ListFollowsStore`, `ImplementsView` | 2 labels, one credential, one connection at the start, 3 ever made, 4 commands, 2 at a time |
| `dialogs` | Are properties, messages and rules those of the selection beneath the windows? | `SessionNamed`, `PropertiesOfSelection`, `RulesOfSelection`, `DraftOfRule` | 2 queues, a subscription with 2 rules, 2 connections of which each requires sessions for another queue, 4 requests |

A property may join two statements about one hazard: `ReportHolds` of
`BulkTransfer` is "the counters bound the truth" and "a status other than unknown
is exact"; `TransferIsWhole` is "removed only if accepted" and "accepted is
settled"; `WaitersGetOn`, `NobodyStuck` and `NoCallHangs` each join the two ways
in which a waiter gets on; `LockHolds` is exclusion and the lock's duration.

Why the bounds are enough:

* *Messages.* The bulk properties are about one message and its relation to the
  counters. Three messages give two in one chunk, a chunk left over because of
  its affinity, and one in the other source, which are the ways the code treats
  messages differently. In `bulk_move_both` the broker may dead-letter one of
  those two besides: then both sources may have received it, and the other source
  has two messages in a batch. Two settlement goroutines are enough for one to have
  taken a message while the other is told to stop.
* *Goroutines and entries of the gate.* Three goroutines make one holder, one
  that waits and one that comes when the entry is being deleted. As many entries
  as goroutines: an entry in use has a goroutine (`EntryIffUsed`, proved), which
  leaves one free for whoever creates one.
* *Runs and slots.* Two slots: both scans of one source can hold one, so that the
  second waits at the source gate with its slot in hand while the plain request
  and the third run wait for a slot. With one slot no scan would ever wait for its
  source. Two runs of one id and a third are needed for a Stop that meets the
  successor of the run it was meant for.
* *Calls and workers.* A worker that fails, one that replaces it, and a late
  caller that meets the replacement: three calls, three processes.
* *The event log.* `MaxLog` (500 in the code) is 2, less than the three operations
  that are logged, so that entries are pushed out in every lifecycle run, also by
  the very operation that an entry was to block. The journal may fall behind by one
  change (`MaxFailures` bounds the failures in a row, not their number), and the
  restart reads all, some or none of it back. After the last restart of a
  behaviour saves do not fail, since nobody reads them. The theorems are about any
  number of restarts and failures.
* *Failing calls of the store.* Two in one call: one that starts a rollback, one
  that makes the rollback fail. After an error which reports that a rollback
  failed no further command begins (`told`): what the files hold then is what
  the error says is not known. With a third failing call the undoing of a failed
  undoing may lose a file, which the code does not claim to survive.
* *The tree.* Two namespaces with the same names make every answer that is
  applied to the wrong one invisible, which is the hazard. Two choices of a
  connection make an answer of a connection that was left and one of the same
  connection from before; two actions give a common and a single count, or a
  creation and a deletion, in flight together.
* *The message list.* Queues with equal sequence numbers in one namespace and in
  two, and two peek calls, let an answer or an outcome meet a list it does not
  belong to. Selections are not counted: the shortest behaviour in which an
  operation ends in another queue's list goes back to the first queue in between,
  and longer ones are covered as well. One operation is enough for every relation
  between an operation, its outcome and a list. A page of one and a cap of three
  make Load More and the cap happen.
* *Connections.* Three identifiers allow for a creation and an import beside the
  connection there was; four commands for the load at the start and three more, of
  which each may overlap with the next. Commands run and are answered in order,
  so that a third one in flight waits for the first two.
* *Dialogs.* Four requests: one that loads, one that changes, the load that
  follows it, and one that meets them. Two connections with the queues' session
  requirement swapped make a requirement that is read from the wrong place wrong.

The deadlock check is off in `config_store`, `entity_tree`, `message_view`,
`connections` and `dialogs`: all calls may be answered, and the user may stop.

### Fairness

* `BulkTransfer`: weak fairness of each source's steps, each settlement
  goroutine's steps and the response. These are steps of running goroutines;
  broker calls have deadlines in the code (the completion and send timeouts), so
  each of them returns. Stop, lock expiry and late effects have no fairness.
* `SingleMessage`: weak fairness of the handler and of the renewer; strong
  fairness of the renewer's exit, since its `select` picks at random among the
  ready cases and the exit stays ready.
* `SourceGate`: strong fairness of entering (Go's channels serve waiters in
  order), weak fairness of giving up, re-checking and forgetting. That a scan
  ends is a premise within `WaitersGetOn`, not an assumption of the module: the
  gate does not make scans end.
* `WorkerDispatch`: strong fairness of taking a slot and entering a source, for
  the same reason; weak fairness of a goroutine's own steps. That handlers return
  is a premise of `AllAnswered`; `StopGetsThrough` (both in `NobodyStuck`) is to
  hold without it, with every regular slot taken. That no circle of slot waits and
  source waits can form is the safety core of it, `NoCircle`, and is proved for
  any number of slots (`WaitsAreOrdered`); that each wait ends is TLC's.
* `WorkerBridge`: weak fairness of a call's own steps and of the reader. A
  worker answers what it has read, as long as it lives (`WorkerDispatch`'s
  `AllAnswered`).
* `OperationLifecycle`: the bridge gets to send; a message is delivered or lost.
* `EntityTree`: weak fairness of the answers to listings and counts: every call
  of the bridge returns or fails (`safeInvoke`, and `NoCallHangs` below it).
  Nothing is assumed of the user, the timer or the order of answers.
* `MessageView`, `Connections` and `EntityDialogs` have safety properties only.

## Theorems

| Module | Theorem | States |
|---|---|---|
| `WorkerProofs` (gate) | `GateTypeCorrect`, `MutuallyExclusive`, `NoLeakedEntry`, `SharedGate`, `TokenOwned` | two scans of a source exclude each other for any number of goroutines, sources and entries; an entry is in the map iff it is used; all users of a source share one entry |
| `WorkerProofs` (dispatch) | `DispatchTypeCorrect`, `OneAnswer`, `NoSlotLost`, `UniqueRun`, `StopReported`, `RefusedStop`, `WaitsAreOrdered` | for any number of runs, requests, Stops and slots |
| `WorkerProofs` (bridge) | `BridgeTypeCorrect`, `SingleProcess`, `NothingLeftOver` | for any number of calls and workers |
| `OperationLifecycleProofs` | `TypeCorrect`, `ConflictsExcluded`, `LockKept`, `OperationsLocked`, `LogIsHonest`, `UnreviewedBlocks` | for any number of operations, connections, messages, restarts and failed saves and any capacity of the log, which may be full at every moment |
| `BulkTransferProofs` | `TypeCorrect`, `NothingLost`, `DuplicatesAreReported`, `ReportIsBound`, `ReportIsExact`, `ReportIsRight`, `StopEndsWork`, `NothingAfterReport` | for any messages, sources, batch size and pool |
| `SingleMessageProofs` | `TypeCorrect`, `WrongMessageKept`, `RemovalFollowsSend`, `TransferIsFinished`, `TransferKeptWhole`, `ReportIsHonest`, `SuccessIsTrue`, `RenewerIsQuiet`, `NothingCaught` | for any other messages in the source, any scan budget, batch size and number of retries |
| `EntityTreeProofs` | `TypeCorrect`, `TreeMatchesConnection`, `StaleCountsMarked`, `RefreshNeverStuck`, `CountsAreLatestAnswers` | for any connections, names and number of actions: the invariants of `entity_tree`, and that the tree implements `LatestAnswers` |
| `EntityDialogsProofs` | `TypeCorrect`, `SessionsAreNamed`, `PropertiesFollowSelection`, `RulesFollowSelection`, `DraftsAreOwn` | for any entities, rules, connections and number of requests: all invariants of `dialogs` |
| `MessageViewProofs` | `ViewTypeCorrect`, `ListShowsSelection`, `LoadMoreIsGapless`, `ReturnsAreSeen`, `RemovalsWereDone` | for any connections, queues, messages, page, cap and number of selections, peek calls and operations: all properties of `message_view` |
| `ConnectionStoreProofs` (interface) | `ConnectionTypeCorrect`, `ListIsStored`, `ConnectionsImplementView` | for any labels, credentials and number of connections and commands: the invariant of `connections`, and that it implements `ActiveConnection` |
| `ConnectionStoreProofs` (store) | `ConfigTypeCorrect`, `FilesCanBeOpened`, `ReportsHold`, `TextIsGone` | for any connections, secrets, keys, threads and number of failing calls: all invariants of `config_store` |

Some theorems state more than any run checks: `EntryIffUsed` (no leaked gate),
`SlotsAccounted`, `OneRunPerId` and `NoCircle` of the dispatcher, `NoLeftoverChannel` of the
bridge, `FinalReport` of a bulk run (nothing happens after its report),
`RenewerQuiet` and `NoStrayCapture` of a single-message run. They are parts of the
inductive invariants, or follow from them.

Assumptions are those the modules name (`ASSUME`): finite pools and positive
bounds, "no such thing" values outside of the sets they complete, finitely many
messages at the broker at the start, that a message which the broker dead-letters
has a form of its own in the dead-letter source (`DeadForm`), and that no connection has the identifier
"active" (they are UUIDs), under which `ConfigStore` keeps what the user was told
of the active one. TLC evaluates all of them.

The invariants are not inductive as the properties state them. What is added,
and why:

* `SourceGate`: `Referring` (whoever uses an entry found it in the map, and it is
  still there), `Mapped` (an entry stands for one source), `Counted` (its count
  is the number of its users), `Tokens` (its channel is full iff one of them is
  inside). Exclusion follows: two scans of one source have one entry, and its
  channel has one place.
* `WorkerDispatch`: `Registry` (an id in the registry is that of a run between
  its registration and its removal), `StageKinds`, `SlotsAccounted`,
  `AnswerStages` (what has been answered, by stage of the goroutine), `StopSeen`
  (a run whose context is cancelled was in the registry when Stop came).
* `WorkerBridge`: `OneProcess` and `NoLeftoverChannel` need `Answered` (an answer
  on its way has a caller that waits for it) and `Unentered` (a call has no
  channel before it registers).
* `OperationLifecycle`: `LockStage` and `BulkHeld` (which stages of a run hold
  the lock), `Command` (what the bridge may have been asked and have answered, by
  stage) and `ReviewIsLater` (only a run that has ended or was lost is to be
  reviewed) carry `LockHolds`. Of the entries, `SavedEntries` and `LogEntries` say
  that whatever one claims of its run is true, however old the text is from which
  it was read back, which is why it cannot depend on the run's present stage;
  `LogIsCurrent` that an entry in the log says "running" only of a run under way;
  `Remembered` that a run under way or to be reviewed is in the log unless its
  entry was pushed out or not read back (`forgotten`). `HonestLog` and
  `UnknownBlocks` follow. Nothing is assumed of the log's capacity.

* `BulkTransfer`: `PlacesAt` (where a message is that its source works on, by
  stage of the loop), `ProgressAt` and `PoolProgress` (what its send and its
  removal can be in that place), `CountsAt` (each of the four counters is the
  size of the set of messages it counts), `Requests` and `Wire` (what has been
  asked of the broker against what the broker did) and `Response` (a response is
  the outcome of counters nobody will touch again). The counters alone say
  nothing of the broker; the sets do, and `CountsAt` carries it over. Stop has an
  invariant of its own, `LateInv`: what a source may still dispatch, by stage.
  `Forms` (a message and its dead-letter form are never both at the broker) keeps
  what is counted for the one from being counted for the other when the broker
  moves it; `NoSend` (a drain sends nothing).
* `SingleMessage`: `Ledger` (the tracker, the requests and what the broker did are
  in one of five shapes, and which of them is possible in each phase), `Locks`
  (every lock of ours belongs to a receipt that is still held or acted on, or the
  handler knows that giving it back failed), `RenewerStage` (where the renewer's
  goroutine can stand in each phase, and why its context was cancelled),
  `CreditStage` (a receive for a target known to exist uses up its credit) and
  `Start`. That at most one copy is accepted is a type here, and needs `Ledger`.

* `EntityTree`: `Generations` (a call in flight with the present generation is
  for the present connection), `Numbered` (a request has a number up to `last`, a failure
  one up to the latest of its entity), `OneRunning` (the loading counter is the number of common
  requests of the present generation, at most one, and one while the timer
  waits) and `MarkKept` (`StaleIsMarked` per entity). The refinement's step
  simulation has one step per action: a common or a single request is *Ask*,
  whatever part of an answer is still wanted is *Answer*, a deletion is *Forget*,
  a change of the connection is *Reset*, everything else stutters.
* `EntityDialogs`: `FetchInv` (the one call of the properties hook that is not
  stale is about the selection) and `ShownInv` (what is displayed says of
  sessions what is so) carry `SessionNamed`; `EditorPlace` and `AskInv` (a call
  whose answer can still reach the editor was made for the selection, and the
  editor is open) carry `RulesOfSelection`; `DraftInv` (the draft is made from the
  rule that is selected, and is empty for none or a new one) carries
  `DraftOfRule`.

* `MessageView`: `AnswerIsWhole` (the call in flight passes over nothing between
  where it began and the last message it has found), `GoesOn` (a Load More began
  where the list ends, unless the list was emptied since) and `Gapless` (the list
  is whole up to its cursors) carry `NothingPassedOver`, which speaks of the list
  alone. `KnownMessages` says that an old sequence number belongs to a message of
  the start, wherever it is shown, captured or logged, and `Operations` that what
  is done has taken its message: otherwise a message whose removal is still to be
  shown could be missed by the list without being missed at the broker.
* `Connections`: `InOrder` (the answered calls come first) and `CommandInv`, which
  has one part for each thing that outlives an answer: `UseStored` and `UseListed`
  (the connection in use is stored, and is listed), `LatestList` and `LatestUse`
  (what the list and the connection in use will be once the answers on their way
  are taken is what is stored). `ListFollowsStore` is the case of no call left.
  The simulation has one step per command: an answer that changes both the list
  and the connection in use is one step of `ActiveConnection`.
* `ConfigStore`: the three invariants are about the files; a call under way has to
  be known to end well. `Position` says which of the old and the new files are in
  place at each step of the call, `Content` that the new file says what the
  command was given and was told before, `Verdict` which of the user's verdicts
  are open meanwhile, `Unlocking` that the old files and the new one open, and
  that a key just made is needed by no old one (so that taking it back is safe),
  `Cleaning` where text may still be. `FilesAgree`, `FilesOpen` and `FilesSealed`
  say the same of the files in place, and also of the empty configuration that
  stands for two missing ones; `CommandsOK` that a command has `CONFIG_LOCK` from
  its load to its save, which keeps what it has loaded true until then. A crash
  leaves only the part about the files, which is why it has to hold at every step.

TLC found the inductive invariants of `BulkTransfer`, `SingleMessage`,
`MessageView`, `ConfigStore` and `OperationLifecycle` to hold on the instances of
their runs, or on smaller ones, before they were proved.

Only model-checked: the liveness properties `RunEnds`, `HandlerEnds`,
`WaitersGetOn`, `NobodyStuck`, `NoCallHangs`, `EitherMessageEndsRun` and
`LoadingEnds`, since fairness and ENABLED are out of the prover's reach. Every
other property of a run is a theorem.

## Observed behaviour

What the models reproduce although a document, a comment or the evident intent of
the code says otherwise. No property claims the contrary.

* `docs/operations.md:41` says that after an unknown outcome "New destructive message
  operations against that connection remain blocked until acknowledgment". The code
  looks the block up in the event log alone (`useScript.ts:27`), which is cut at 500
  entries whatever they say (`appStore.ts:611`). With a log of two: a run on one
  message ends unknown, another operation is logged, and a bulk run on the same
  connection enters its own entry, which pushes the unknown one out, before
  `runOperation` looks for it; the bulk run starts. Neither a lost message nor a
  restart is needed. A restart may lose the entry, too: a journal longer than 2 MB or
  unreadable is not read at all, and entries older than 30 days are dropped
  (`operationJournal.ts:24`, `:35`, `:42`). `UnknownBlocks` says what the code does
  keep: the block lasts until the review or until the entry is gone (`forgotten`),
  and nothing else (a failed save, clearing the log, Stop, a late message, a further
  restart) lifts it.
* The block on new destructive operations while one is out of sight looks for the
  phase *unknown* (`useScript.ts:24`); Stop replaces that phase before it is
  confirmed (`useScript.ts:148`), and the block is gone, though the watchdog's
  message tells the user to stop "and wait for confirmation" (`useScript.ts:65`).
* After a transport failure a caller waits for the mutex and stops the worker it
  finds (`worker.rs:721`), which may be the healthy successor another caller has
  started. `worker.rs:693-695` avoids this very cascade on a timeout.
* A failed lock renewal cancels the action's context, and the run ends as
  "stopped" without a Stop (`handlers_single.go:150`), though
  `docs/operations.md:15` describes that status as Stop's answer.
* The form that edits a connection is given the entry of the list
  (`ConnectionsPanel.tsx:313`), whose credential `public_config` has taken out
  (`connections.rs:153`), and not the connection that was just fetched for it.
  Saving it stores the connection without its credential.
* Clearing the list does not cancel a Load More in flight. Its answer then begins
  a list in the middle of the queue (`torn` in `MessageView`; `NothingPassedOver`
  excepts it).
* The dialog that deletes an entity stays open when the connection changes
  (`setActiveConnectionId` does not reset `deleteEntityTarget`) and deletes the
  entity of that name in the connection of that moment
  (`DeleteEntityDialog.tsx:83`); and an answer that comes after a change removes
  the entity of that name from the new tree (`DeleteEntityDialog.tsx:105`).
* `loadRules` applies every answer (`SubscriptionRulesModal.tsx:71`). A load from
  before a save that is answered after it shows the rule as it was, and saving
  again reverts it.
* The send window stays open across a change of the connection and sends to the
  queue of the same name in the new one.
* The session state window shows what was loaded for one target. Its comment says
  "Target identity is fixed for the lifetime of this modal"
  (`SessionStateModal.tsx:70`), yet the target it writes to is computed from the
  present selection (`MessageContextMenu.tsx:91-112`).
* `useDlqAlerts` promises a notification "at most once per entity per threshold
  crossing" (`useDlqAlerts.ts:6-8`). A key is entered in `notifiedRef` only after
  an import and a permission were awaited (`useDlqAlerts.ts:60-77`), so two
  changes of the counts in between alert twice.
* The answer to a save closes whatever form is open by then
  (`ConnectionsPanel.tsx:266-271`). Deleting a connection that is not in use sets
  the one that is stored as active, which need not be the one in use.
* `store.rs` takes a new master key back even when the rollback of the files
  failed. After two failures a backup, or the primary of a first save, may be
  sealed with a key that is gone. The error says that the rollback failed, and
  the model stops there (`told`).
* The staged copies of a rollback may hold text of an old format if fixing their
  permissions fails and the program is killed right then. Staged files are not
  part of the model's state.
* A read error of the primary makes `load` promote the backup, also when the
  error is a passing one.

## Plan

The order puts first what can lose or duplicate a user's messages, or tell the
user something untrue about them.

1. Done: `OperationOutcome`, `BulkTransfer`, `SourceGate`, `WorkerDispatch`,
   `WorkerBridge`, `OperationLifecycle`, `SingleMessage`, `ConfigStore`; of the
   interface `EntityTree`, `MessageView`, `Connections`, `EntityDialogs` with the
   abstract `LatestAnswers` and `ActiveConnection`; the theorems above.
2. `SessionLoop`: `consumeAvailableSessions` (`handlers.go` 762-817) as the
   source side of a bulk run, with sessions offered again and session locks lost;
   the drain run then covers it.
3. `CompatibleBatches`: the cutting of a received batch by affinity and size
   (`handlers_transfer.go` 175-260) as operators checked against a reference
   definition, used by `BulkTransfer` in the place of its present choice.
4. `EntityTree` and `MessageView` composed with `ActiveConnection` as
   `EntityDialogs` is, and `MessageView` with `OperationLifecycle` in the place of
   its reduced locks.
5. Alerts on dead letters and the session state window, beside `EntityTree` and
   `MessageView`.
6. An abstract specification of a destructive operation (*nothing happens before
   dispatch; the report bounds the effects; the report comes once*), implemented
   by `BulkTransfer` and by `SingleMessage` under a refinement mapping, and an
   abstract turn-taking specification implemented by `SourceGate`.
7. A composition of dispatch, bridge and lifecycle from end to end: one run, two
   terminal messages, a worker that dies.
8. Proofs: the step simulations of 4 and 6. Every safety property of the present
   runs is proved.

## Not modelled

* Session receivers and the session state window (2 and 5 of the plan): planned.
* A connection whose endpoint changes under its id. The views identify the id with
  its namespace, as the code does: saving the connection in use with another
  endpoint (`useConnections.ts:35-50`) replaces its entry in the list, keeps the id
  and resets nothing, so that the tree, the list, the properties, the rules and the
  cached session requirement stay those of the old namespace. `TreeOfConnection`,
  `ListOfSelection`, `SessionNamed`, `PropertiesOfSelection` and
  `RulesOfSelection` say nothing of that case.
* Of the journal: single entries that fail `Entry.safeParse` (a text longer than its
  field admits) and are left out between others, and a clock set back or forward
  between two entries. What is read back is a prefix of what was saved.
* Browsing and administration in the worker: one or a few broker calls each,
  without state. Their effects are steps of the interface's modules.
* Of the interface: the contents of rules and of messages, templates, filtering,
  sorting, search, insights and export of a list, pinned entities, thresholds,
  the history of counts, themes and layout. Each is set in one place and read in
  another, and no answer from below changes it.
* Sending and scheduling: one broker call after validation. What its outcome may
  be is the bridge's rule, which `OperationLifecycle` and `WorkerBridge` model.
* Encryption: the model keeps which key seals a file and whether that key can be
  had; what AES-GCM promises is taken as it is.
* Frames, JSON, progress events, log lines, translations, rendering: no property
  here depends on their content.
* Windows, menus, file dialogs: start-up wiring without order to get wrong.
