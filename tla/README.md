# UtilityFramework: TLA+ models, checks and proofs

UtilityFramework is a C++ framework for applications built from components
that share a publish/subscribe database, run their callbacks on dispatchers,
talk over channels and exchange video over shared memory. It has no tests.
This directory holds models of its concurrent core, the TLC configurations
that check them on small instances, and TLAPS proofs for every instance.

## 1. The system

| Component | State | Operations | Interacts with |
|---|---|---|---|
| **Dispatcher** (`Include/utils/dispatcher.hpp`) | action queue, timers and their clients, flags running / suspended / idle, a worker thread | begin_invoke, invoke, sync, register_timer, unregister_timer, suspend, resume, dispose | every component that has callbacks |
| **Lifetime** (`ref_count_base`, `ref_count_ptr`, `disposable_base`, `disposable_ptr`) | reference count, list of weak pointers to reset | add_ref, release, lock, assign, reset, destruction | all objects; rows, tables and datasets point to their parent weakly |
| **Callbacks and signals** (`callback_handler`, `signal`, `async_signal`, `thread_safe_object`) | list or token map of callbacks, raise mutex | add, remove, raise on a copy | database, dispatchers, channels |
| **Memory database** (`Include/utils/database.hpp`, `Modules/database/memory_database`) | rows with value and write priority, tables, datasets, data callbacks | write_bytes, add_row, remove_row, subscribe, unsubscribe | callbacks are raised in the writer's thread or posted to a dispatcher |
| **Database subscriptions, dispatcher, data_binder** (`database.hpp`) | token maps, registration wrappers, pools of actions | subscribe, unsubscribe, bind | rows, signal, dispatcher |
| **Pools** (`ref_count_object_pool`, `buffer_allocator`) | objects, search index | query_item, growing | messaging, database dispatcher, streaming |
| **Timer** (`utils/timer.hpp`) | running flag, dispatcher, token | start, stop, tick | StateMachine |
| **StateMachine** (`ModernAPI/StateMachine.hpp`) | current state, process status, two timers | transitions, Pause, Resume, timeouts | timer thread against the subscriber's context |
| **RemoteAgent** (`ModernAPI/RemoteAgent.hpp`) | acknowledged flag per table, tick of the last answer | register, import, export, keep-alive | database and a channel to another process |
| **Channels** (`Include/utils/communication.hpp`, `Modules/communication`) | receiving thread, connection status, framing buffers | connect, disconnect, send, receive, reconnect | RemoteAgent, Monitor |
| **Shared-memory streaming** (`Modules/video/shm_common`) | buffer pools, per-buffer locks, sequence number | publish, read, remap | writer and reader processes |
| **Rules, messaging** (`Modules/rules`, `utils/messaging.hpp`) | expression trees; topics | evaluate; publish, subscribe | database; dispatchers |
| Wrappers, loaders, parsers, logging, files, http, imaging, controllers, GStreamer, websocket | little of their own | I/O and conversion | external libraries |

Hard behaviours: wake-ups that are lost because a flag changes without the
mutex; callbacks that run from a copy of a list that has changed; a strong
pointer made from a weak one while the object is destroyed; reports that
leave the lock before they are delivered; synchronous calls between
dispatchers; timeouts racing answers; processes that die with a shared lock.

What makes each part correct: a dispatcher runs every accepted action once,
in order, and loses none when it is disposed of; an unregistered timer is
silent; a weak pointer never yields a dying object and never outlives its
target's notice; a subscriber ends up knowing the value of the row; a buffer
is never reused while somebody reads it; a table that is reported in sync has
arrived completely.

## 2. Modules

| Module | Models | Kind |
|---|---|---|
| `SimpleContext` | `simple_context` and the dispatcher functions over it | detailed |
| `ActionQueue` | the promise to whoever posts actions | abstract |
| `SimpleContextProofs` | its types, queue, timers, sync and idle, and the refinement of `ActionQueue` | TLAPS |
| `DisposablePtr`, `DisposablePtrProofs` | one counted object and its weak pointers | detailed, TLAPS |
| `MemoryTable`, `MemoryTableProofs` | one table of rows and its subscribers | detailed, TLAPS |
| `Signal` | `utils::signal`: tokens, subscribe, unsubscribe, raise on a copy | component, extended by the next two |
| `DatabaseDispatcher`, `DatabaseDispatcherProofs` | a row's update on its way to a function on a dispatcher: subscriptions, pools, actions, bind | composition of `Signal`, pools and a queue, TLAPS |
| `CommClientChannel`, `CommClientChannelProofs` | `comm_client_channel` on a TCP client port | composition of `Signal` and a receiving thread, TLAPS |
| `StateMachine`, `StateMachineProofs` | `StateMachine` and the `utils::timer` of its states | detailed, TLAPS |
| `RemoteAgent`, `RemoteAgentProofs` | two agents, their threads, their tables and the network between them | detailed, TLAPS |
| `SharedMemoryStreaming`, `SharedMemoryStreamingProofs` | publishing and reading processes on shared segments | detailed, TLAPS |
| `MC...` | instances of the module named after `MC` | TLC |

Definitions named `Mut...` are deliberate bugs: each changes one definition
the way a slip in the code would, and some property of a passing run must
then fail. They are not used by any specification.

### SimpleContext

The variables are the members of `simple_context` (`running`, `suspended`,
`addingTimer`, `idle`, `actions`, `timers`), the state of timer and action
objects, the worker's place (`pc`) and locals, and the progress of callers.
Critical sections of other threads under `m_mutex` are single steps. The
worker's is not: it holds the mutex (`Locked`) from the top of its loop until
it blocks or has taken its work, and `m_running` and `m_suspended`, which are
not protected by the mutex, may change meanwhile. A notification that finds
nobody blocked has no effect (`NotifiedPc`).

| Action | Code |
|---|---|
| `Top`, `EvaluatePred`, `Block`, `SpuriousWake`, `Timeout` | the wait of `worker()` with and without deadline |
| `TakeWork`, `CheckTimers` | `check_timers` and the swap of `m_actions` |
| `NextTimer`, `NextClient`, `EndClient` | `timer::invoke` on the snapshot of its clients |
| `NextAction`, `EndAction` | the batch; an action completes or ends with an exception |
| `BeginInvoke`, `InvokeInPlace`, `Recreate` | posting, from outside and from inside the context; a new action object |
| `Sync`, `CheckSuspended`, `PostSync`, `WaitSync` | `dispatcher::sync`, also as the end of `unregister_timer` |
| `RegisterTimer`, `UnregisterTimer`, `UnregisterInContext`, `Elapse` | `add_timer`, `remove_timer`, time |
| `Suspend`, `Resume` | the two atomics and the notification without the mutex |
| `Dispose`, `DisposeNotify`, `DisposeJoin`, `DisposeClean`, `DisposeSelf` | `dispose` from another thread, step by step, and from a callback |

Abstractions: time is the set `due` of timers whose interval has elapsed; the
order of timers and clients is left open; `m_idle` starts with any value, as in
the code. `check_timers` erases through iterators that an earlier erase of the
same pass has invalidated, so with two or more vanished timers the model takes
any of the outcomes. A wait that ends with "failed" stands for a sync that
was cancelled, which its caller cannot tell from a completed one.

### DisposablePtr

One object, its count, the phase of its life (alive, destructor entered,
calling the weak pointers, freed), and for each `disposable_ptr` whether it
points to the object and who holds its mutex. `lock()` is two steps under that
mutex: `add_ref`, then the test of the returned count. `operator=` is one step
per call it makes. Every release may be the last one and then runs the
destructor on the releasing thread. The model stops when the object is freed:
what comes after works on null pointers or is undefined. History: `refusedBy` is
the pointer whose lock found the dying object without references and was
refused, `lentBy` the first one whose lock found it with some.

### MemoryTable

Rows are objects (removing a row and adding its key again makes another one),
with value, write priority and callbacks. `Write` is the part of `write_bytes`
under the row's mutex, `RaiseBegin`, `Report` and `EndWrite` the notifier that
runs after the unlock, serialised per row by `m_raise_mutex`. `AddRow` and
`AddRowSubscribes` are the two halves of `add_row`, between which the table
callbacks have the new row. A write that is refused or filtered changes
nothing and is no step. The history variable `last` is what a subscriber
knows: the value it read when it subscribed, or the last report; `crossed` are
the rows whose last write overlapped another one or came before `add_row` had
subscribed the callbacks. Nothing keeps a write from doing so. One constant
states how clients behave: `Resubscribe` (a callback returns to a table it has
left).

### Signal and DatabaseDispatcher

`Signal` keeps the map from tokens to functions, the token each owner holds,
and the copy that a raise works on. One raise is under way at a time; the
modules that extend it say who raises.

`DatabaseDispatcher` follows an update of one row: `Write`, `RaiseRow` and
`RaiseSignal` in the writer's thread, then for each function `TakeBuffer` and
`PostUpdate` (`registration_wrapper::invoke` with its two pools: an object is
free when only the pool refers to it; the pool of buffers doubles when all are
in use, the pool of actions hands out a new object), then the worker's
`TakeBatch`, `Perform`, `Performed`, `EndBatch`. An owner subscribes by `SubGet`
(subscribe, then read) or `Bind` (read, then subscribe), leaves by an
`auto_token` (`Unregister`) or through the dispatcher (`PostUnsubscribe`,
`InvokeUnsubscribe`), and may `Sync` as `~database_dispatcher_base` does. The
row's callback that is taken off the row while the writer already has it
(`dropped`) finds an empty signal. History: `known` is what an owner knows,
`late` which functions a raise held when they left, `missed` whose `bind` was
between its halves at the last write. A function of the model is one
subscription and is used once. Row and dispatcher live as long as the model;
`SimpleContext` has the worker in detail.

### CommClientChannel

`cpc` is the client's place in `connect` and `disconnect`, `rpc` the receiving
thread's in its loop, `socket` and `status` the port, which both use without a
lock. `disconnect` is `TakeFlag`, `CloseSocket`, `StatusDown`, `Join`; `connect`
without automatic reconnection runs a disconnect and `ConnectPort` first; then
`CreateThread`. The thread's steps are those of its two variants (`automatic`):
`Loop`, `Switch`, `Retry`, `Reconnect`, `StatusUp`, or only `Receive...`; what
arrives is raised (`Call`). `PeerGoes` and `PeerComes` are the remote side. An
attempt to connect fails when the client closes the socket meanwhile.
`comm_stat` and `comm_err` are left out. One client thread calls.

### StateMachine

Jobs of the subscriber's context (`Event`, `Pause`, `Resume`, `Reset`) run one at
a time; a timeout (`Tick`) runs on the thread of the timer's dispatcher, and each
start of the timer makes a new one. Both perform transitions (`Find`, `Commit`,
`Enter`, `Switched`) and stop and start the timer. `Stop` keeps the timer's mutex
(`owner`) while it waits for a tick of another thread (`Stopped`); on the timer's
own thread it does not wait. What states do is data: the graph, and which
opcodes their handlers try. `moving` are the states whose timeout moves the
machine. Jobs and timeouts race freely. History: `raced` says that a timeout has
moved the machine while the context had a job, `overtaken` that the last `Pause`
found ticks at work that had stopped the timer already. The process timer is left out: no handler is
connected to it (`HandleProcessTimeOut` is never called), so it has no effect.

### RemoteAgent

Each agent has the application (`Write`), the dispatcher that sends every change
to the peer (`SendUpdate`), the channel's receiver (`Handle...`, and `ReadRow`,
`SendRow` for a registration's reply) and the timer (`TimerFresh`, `TimerSilent`,
`TimerStale`, `Failed`). Processes `Crash` and `Start`; messages are delivered in
order or lost (`Lose`, or no room among `MaxQueue`). Ticks are abstracted to what
the comparison with the clock gives: `fresh`, `stale`, and `ahead` for a
keep-alive that arrives after the tick has read the clock, where the unsigned
difference is huge and the communication is declared failed. `Elapse` from
`stale` to `fresh` is the wrap of the 32-bit difference. `Watchful` bounds
which agents watch the clock: in the run only the importer does. History: `fed` (tables with
data since the last failure) and `clean` (registered, nothing lost since).

### SharedMemoryStreaming

The session segment, the pool segments by id, and of each pool the wait handler,
the locks and the contents of its buffers. `Start`, `CreateSession` ...
`Construct` are the publisher's way to a usable pool, in the order in which
other processes can see it; `QueryBufferUnique`, `Serialized` or
`SerializeFails`, `PublishUnlocks`, `Set` or `SetTimesOut` are a frame. A player
goes through `Open`, `Map`, `Wait`, `Changed` or `TimesOut`, `LockShared` or
`LockSharedFails`, `EndRead`, `Slept`. Locks are counted per reader. `EndRead`
unlocks the buffer, or a consumer keeps it (`kept`): the subscriber wraps it in a
zero-copy frame (`shared_memory_video_subscriber.h:118`) that the GStreamer
pipelines refer to until they have used it, and `ReleaseFrame` is the last
release. So a reader may hold several buffers, or one of them twice. Every
process may die anywhere (`Die`, `DieReader`), also inside the wait handler's mutex (`DieInSet`, `DieInWait`);
its locks stay. A buffer's content is a frame number and whether it is whole,
being written (`torn`) or left by a failed serialisation (`broken`). This is the
Linux build; on Windows segments vanish with their last handle.

## 3. Runs

| Run | Result | Shows |
|---|---|---|
| `context_actions` | pass | 3 actions, a syncing thread, suspension, both disposals: each accepted action is in one place (`QueuedOnce`), ends when the context is disposed of (`NoneAbandoned`), sync flushes (`SyncFlushes`), and the context implements `ActionQueue` (`KeepsPromise`) |
| `context_live` | pass | a periodic and a one-shot timer and an action, a context that a callback may dispose of: silence after `unregister_timer` (`QuietAfterUnregister`), no call beyond the count (`ExhaustedStaysOut`), `idle()` is not TRUE while there is work (`IdleIsHonest`); with fairness actions end (`ActionsFinish`) and timers fire (`TimersFire`) |
| `weak_copies` | pass | two weak pointers assigned to each other: the object is deleted once (`DeletedOnce`), a dying one is handed out only after another pointer's lock was refused (`StrongMeansAlive`), otherwise no pointer is left to freed memory (`WeakNeverDangles`) and the destruction ends, unless threads inside `operator=` wait for each other or for themselves (`DestructionEnds`) |
| `table_reports` | pass | two writers, two rows: subscribers of a quiet row know its value unless its last write crossed another or came inside `add_row` (`CaughtUp`), and a table subscription covers exactly the rows of the table (`TableFollowed`) |
| `db_dispatcher` | pass | two subscriptions, two writes, pools of one: recycled buffers and actions carry what they were posted for (`CarriesReport`), owners end up with the last value unless it fell into their own `bind` (`KnowsLast`), an unsubscribed function is silent after a sync (`QuietAfterSync`) |
| `client_channel` | pass | both modes, a peer that comes and goes: tokens stay with their owners (`TokenOwned`), no joinable thread is overwritten (`JoinedBeforeCreate`), silence after disconnect (`QuietAfterDisconnect`), calls return (`CallsReturn`), the channel reconnects (`Reconnects`) |
| `state_machine` | pass | a paused machine is quiet unless `Pause` overtook a moving tick (`PausedIsQuiet`); until a timeout moves the machine during a job the timer is the one of the current state (`TimerMatchesState`), every state moved to is entered (`MoveIsEntered`) and jobs end (`JobsEnd`) |
| `remote_agent` | pass | crashes and losses: synchronised means data since the last failure (`SyncedAfterFailure`), rows agree when nothing is under way and nothing was lost (`AgreeWhenQuiet`), lasting communication synchronises (`Synchronises`) |
| `shm_stream` | pass | deaths of both sides, restarts, wrap-around, frames that are kept: a frame does not change while anybody has it (`StableWhileRead`), frames never go back (`NeverBackward`), the publisher misses a buffer only if all are in use (`WriterFindsBuffer`), a player finds the new pool (`Reattaches`), stop ends (`StopEnds`) |
| `dispose_suspended` | violation | the notification of `dispose` is lost, `join` hangs, nothing is cancelled |
| `table_two_writers` | violation | two writers report in the opposite order of their stores, and the subscriber ends with the older value |
| `state_timeout_race` | violation | an event and a timeout leave the same state: the event's `stop` waits for the tick, the tick for the mutex of `stop`, and the new state is never entered |

The lost wake-up of `dispose` does not need suspension: any worker that has
evaluated its predicate and not blocked yet can miss it. On a context that
cannot be suspended `ActionsFinish` holds nevertheless, because its worker
reaches that window only with an empty queue; what hangs is `join`.

`state_timeout_race` is the shape of the third state of the sample
(`Samples/StateMachine/StateMachineSample/StateMachineLogic.cpp:172`), which an
event and a timeout both leave.

Where the code breaks a property that one would like to have, the passing run
checks the property with its exception, and the exception is as narrow as TLC and
the proofs allow: `crossed`, `missed`, `raced`, `overtaken`, `lentBy` are history
variables that record the one case, not constants that keep it away. A later
write that is alone, for example, takes its row out of `crossed` and `missed`
again. `table_two_writers` checks `CaughtUp` without its exception, against what the
comment at `row.cpp:80` says.

### Seen in the models and left without a run of their own

The passing runs have these as behaviours, except where a constant that stands for
how clients use the code (`Suspendable`, `Resubscribe`) leaves them out.

* Dispatcher: timers stay silent after `resume` until something else wakes the
  worker (`dispatcher.hpp:593`, `606`, `968`); `resume` loses its notification in the
  same window as `dispose`; `sync` on a suspended dispatcher returns at once with
  everything pending.
* Weak pointers: a lock that is refused during the destruction leaves its reference
  behind (`disposable_ptr.hpp:148`), so the lock of a second pointer finds a count of 2
  and hands out the dying object, although "the ref_count of m_ptr BEFORE we called
  add_ref was surely 0" (line 140); `StrongMeansAlive` says that this is the only way.
  `operator=` hangs when the strong pointer it releases under its mutex is the last
  (line 92): the destructor waits for that mutex on the same thread. `p = q` and
  `q = p` in two threads take the two mutexes in opposite order (line 89). These are
  the `CopiesDeadlocked` of `DestructionEnds`.
* Table: a callback that unsubscribes from a table and subscribes again gets
  nothing (`database.hpp:610`, `633`); a row written from `on_row_added` is not
  reported to table subscribers, because `add_row` subscribes them afterwards.
* Subscriptions: `bind` copies the row and subscribes afterwards
  (`database.hpp:2270`-`2303`), so a last write between the two never reaches its owner
  (`missed`); "Subscription should be handled before reading the current value"
  (`ModernAPI/Database.hpp:1527`), which `SubGet` does. Unsubscribing through the dispatcher waits for its own turn only;
  a raise under way (`late`) can post after the sync.
* StateMachine: a `Pause` during a tick that moves the machine finds the timer
  stopped by the tick itself, sets the status and returns, and the tick then
  starts a timer on the paused machine (`overtaken`). No deadlock is needed for
  that, and no comment or sample says what `Pause` promises there.
* Channel: with automatic reconnection `disconnect` may leave the port connected,
  when the thread's attempt succeeds between the port's disconnect and the join.
  Without it a message that the protocol refuses as too large ends the thread
  while flag and port say connected; a later `connect` returns true and nobody
  receives.
* RemoteAgent: the importer sends every change back, and two quick writes may
  chase each other between the agents; a registration's reply that was read
  before a write may undo it; one row acknowledges a whole table; a keep-alive that
  overtakes the timer's reading of the clock is a failure; a restart of the
  exporter shorter than the timeout is not noticed, and the importer goes on with
  what it has until the next write.
* Streaming: a player that maps a segment before it has a size ends with an
  exception nobody catches; a process that dies inside the wait handler's mutex
  hangs every player of that pool (`Stuck`), while the publisher recovers by its
  timed lock; a frame whose serialisation failed can be handed out, as can a frame
  twice; when no buffer is lockable, because consumers keep frames or processes died
  with them, the frame is dropped without notice.

### Bounds

Three actions make a batch with a successor and one arriving meanwhile. A periodic
and a one-shot client share a timer or have one each, of which one vanishes; with
the disposal from outside in place of the one by a callback `context_live` holds
too (checked apart, 498,654 states). Two weak pointers and two threads suffice for
the lock that is lent a dying object, for the destructor that waits for its own
thread, and for crossing copies, one of which destroys the object. With three
threads the invariants hold too (1,882,200 states), as does `DestructionEnds` when
one pointer is copied to the other but not back (652,710; both checked apart).
`table_reports` has two writers and two rows of keys of their own; two values tell
an old report from a new one. It also holds with one of the rows an event row
(4.86 million states) and with two rows of one key, which exercise re-adding (0.91
million; both checked apart). `state_machine` has two timer threads; its
invariants also hold with three (checked apart, 2.75 million states). Pools of one
buffer and one action make every second update grow or reuse them (`MaxWrites` 2).
Two functions are what a reused token needs. `remote_agent` has one table of one
row, one write, three starts (both agents and one restart) and one message under
way per direction (`MaxQueue`): a second one is lost. Its invariants also hold
with `MaxQueue` 2 (checked apart, 2.1 million states). `SeqBound` 3 lets the
sequence number wrap in `shm_stream` (`MaxFrames` 3 and the first `set`); two
buffers, one reader, two pools. The frames that can be kept need no bound of their
own: each takes an announcement. Its safety properties also hold for two readers
on one pool of two buffers with two frames (checked apart, 402,649 states).
`Iterations` 2 tells the last timeout from the others.

Deadlock is not checked where the system may stop: a disposed context, a freed
object, dead processes, bounds used up. `table_reports` checks it.

### Fairness

In all of them the operating system schedules a thread that can run, callbacks
return and time passes; nobody has to post, write, connect, disconnect, start,
suspend or dispose.

* `SimpleContext`: the worker, a dispose and callers inside a call.
* `DisposablePtr`: a thread inside `lock`, `operator=` or the destructor. A mutex is
  not fair, so `DestructionEnds` is about programs that do not assign for ever.
* `CommClientChannel`: the client inside a call and the receiving thread, whose
  wait for the peer ends when the connection does. Messages and peers need not
  come; `Reconnects` is conditional on the peer.
* `StateMachine`: actors inside a job and ticks of a registered timer.
* `RemoteAgent`: weak fairness for the dispatcher, replies and ticks; strong
  fairness per kind of message for the receiver: of a message that is sent again
  and again some arrive. Without it UDP may lose everything and nothing could be
  promised. `Synchronises` is conditional on lasting communication.
* `SharedMemoryStreaming`: the publisher between its calls and the players.

Mutexes are not assumed to be fair beyond that.

## 4. Proofs

Every invariant and every action property that a passing run checks is also a
theorem, for every value of the constants, under the named assumptions of the
modules (`ContextAssumption`, `PtrAssumption`, `TableAssumption`,
`SignalAssumption`, `ChannelAssumption`, `DispatcherAssumption`,
`MachineAssumption`, `AgentAssumption`, `StreamAssumption`), which TLC evaluates in
each run. They give types, disjoint names (`None` is no thread, function or job),
finite sets of threads, functions and tables, exactly two agents, and
positive sizes of pools. One theorem needs a discipline of the client as well
(`SubscriptionFollows`, `~Resubscribe`); it is a hypothesis in its statement. TLC
also finds the inductive invariants true on the instances of the runs.

* `SimpleContextProofs`: `TypeCorrect`; `QueueInvariant` proves `ActionInv`
  inductive. `QueuedOnce` alone is not: it needs that a batch exists only while
  the worker works it off and that nothing is accepted once dispose has begun
  (`WorkerDiscipline`), and that the action of a sync exists only once it is
  posted (`CallerDiscipline`). `NoActionLost` and `DisposeLeavesNone` follow.
  `TimerInvariant` adds which tokens may be in a timer, in a snapshot or firing, by
  the progress of their caller (`TokenDiscipline`): the sync action can only run
  when the worker is past its snapshot. From it `UnregisteredStaysQuiet` and
  `CountNeverExceeded`. `SyncFlushesQueue` reads batch and queue as one line: what
  was queued before the call stays ahead of the action of the sync, and has
  ended when that one runs (`SyncDiscipline`). `IdleReportIsHonest` needs that the
  worker blocks on an empty queue only and that `m_idle` is set where it has nothing
  in its hands (`IdleDiscipline`). `ContextKeepsPromise` is the refinement. The
  abstract line is the batch followed by the queue; taking a batch is a
  stuttering step.
* `DisposablePtrProofs`: `CountInvariant` accounts for the references (`Counted`)
  for any number of pointers: the count of a living object is exact, that of a
  dying one is larger than the references left whenever there are any, because
  the refused lock was not given back. Hence `NeverDeletedTwice`.
  `WeakInvariant` follows the first lock on a dying object (`FirstRefused`): it finds
  no reference, is refused and clears its pointer under the mutex, so the next one
  to find the reference it left is another pointer. `LentOnlyAfterRefusal` and
  `PointersReset` follow, for any number of pointers and copies.
* `MemoryTableProofs`: `SubscribersCatchUp`, for any number of writers; its invariant
  `ReportInv` says that the writer of a row outside `crossed` is alone with it and
  carries what the row holds, and that whoever it will not call any more knows
  it. `SubscriptionFollows` assumes that callbacks do not return; with `Resubscribe`
  TLC refutes it. `TypeCorrect` needs no assumption.
* `CommClientChannelProofs`: `ChannelInvariant` for any finite set of functions and
  both modes. `TokenOwned` is inductive once no token is used twice
  (`Distinct`); `JoinedBeforeCreate` needs to know who answers for the thread, the
  flag or the disconnect that took it down (`ThreadInv`); `QuietAfterDisconnect`
  needs both, and that only the thread raises (`RaiseInv`).
* `SharedMemoryStreamingProofs`: `StreamInvariant` for any readers and any number of
  buffers, pools, frames and frames that are kept, with deaths at every step.
  `StableWhileRead` alone is not inductive: it needs that the publisher and a reader
  never have the same buffer (`Exclusive`), that what is torn is still locked
  (`TornLocked`), also by a publisher that died, and that an announced buffer was
  filled once (`IndexUsed`, `ReaderInv`), and that a reader has locked what it reads
  and keeps (`LockCount`). `BufferFound` proves `WriterFindsBuffer` by counting: of its
  own pool the publisher has at most the buffer it fills (`WriterLocks`), and a
  living reader has locked a buffer as often as it has frames of it.
  `FramesGoForward` proves the action property `NeverBackward`. The reader may see a
  frame before it is announced, so the index can lag behind what it has; but its
  wait ends only with an announcement made after the wait began, which is of the
  newest frame of all, and refills of that buffer are newer still (`FrameOrder`).
* `DatabaseDispatcherProofs`: `DispatcherInvariant` for any finite set of functions,
  any pool sizes and any number of writes. Batch and queue are one line, in which
  the updates of a function are in the order of the writes and use different
  actions (`OrderDiscipline`). A buffer in use belongs to exactly one waiting update
  and holds its value (`PoolDiscipline`), hence `UpdatesCarryTheirReport`; since the
  values differ, no more buffers are in use than there were writes, and a pigeonhole
  argument bounds the doubling pool (`TypeCorrect`). `StageDiscipline` ties calls
  and jobs to the progress of the owner: nothing of a function stands behind its
  sync, hence `SyncSilences`. `OwnersKnowTheRow` rests on `KnowDiscipline`: an owner
  outside `missed` knows the row, has the last value waiting as the last update in
  the line, or will be called by the write under way.
* `StateMachineProofs`: for any graph, any handlers, any number of timer threads and
  any race. `MachineInvariant` has two halves. `InAnyCase` holds whatever races: what
  an actor may be doing, where the thread of a running timer can be, and that a
  `Pause` which overtook nobody is alone from its `stop` on (`Pausing`). `Order` holds
  until `raced`: one actor moves at a time, from `stop` to `start` no timer is
  registered and no tick runs, and elsewhere the timer is the one of the current
  state. From the first `TypeCorrect` and `PauseSilences`, from the second
  `TimerFollowsState`.
* `RemoteAgentProofs`: for any finite set of tables and any rows, queues, crashes and
  losses. `SyncedIsHonest` rests on `FedDiscipline`: outside the handling of a failure
  a table is acknowledged only by data that came after it. `RowsAgree` rests on
  `CleanDiscipline`: while nothing of a table is lost, a row that differs has, on at
  least one side, a value under way to the other that is still the one of its
  sender (`Settling`); an outdated one that is taken over is sent back and so
  becomes current again.

Only model-checked: the liveness properties (`ActionsFinish`, `TimersFire`,
`DestructionEnds`, `CallsReturn`, `Reconnects`, `MoveIsEntered`, `JobsEnd`,
`Synchronises`, `Reattaches`, `StopEnds`). They rest on fairness and ENABLED, which
are beyond the prover.

## 5. Not modelled

In the modelled parts:

* Dispatcher: swap and move of contexts; callbacks that throw without an
  exception handler (the process ends); `async_loop` and the timer helpers;
  several contexts that invoke one another.
* Weak pointers: move assignment, and destruction of a `disposable_ptr` while the
  object's destructor calls it.
* Database: datasets, the destruction of a table, lookup by name and index; a
  callback that writes the row it is called for (it waits for `m_raise_mutex` for
  ever); `subscribe_table`, whose `query_registration_wrapper` never stores the
  wrapper; the race between `~subscriptions` and a row's disposal; several
  dispatchers on one row. Sizes of buffers and parsing are data, not control.
* Pools: `buffer_allocator`, lazy pools.
* Channel: `comm_stat` and `comm_err`, `send`, concurrent callers, a disconnect from a
  callback (it joins its own thread), `comm_server_channel`, and framing.
* StateMachine: `Pause` before the first run, machines inside states, destruction,
  the status row. `utils::timer`: auto-reset and destructor.
* RemoteAgent: `Disconnect` at destruction, `DATA_UPDATE_AND_REPLAY`, the status
  rows, reordering by UDP, the interleaving inside a write.
* Streaming: several pools of a session, `query_buffer_unlocked`, the lock that `query_buffer_shared` leaks when a
  query fails, the constructor's check of `pool_params->index` in place of the element's
  (`shared_memory_streaming.hpp:1130`).

Left out altogether, and why: messaging is a dispatcher per callback, whose
queue `SimpleContext` has and whose posting `DatabaseDispatcher` has; the rules
engine evaluates expression trees sequentially on one dispatcher, and its
interest is in the data; errors management counts per error, sequentially.
Wrappers, loaders, parsers, logging, files, http, imaging, controllers, websocket
and GStreamer adapters are I/O and conversion without a protocol of their own.
Most of the repository's lines are vendored libraries (nlohmann json, pugixml),
samples, parsers and adapters of this kind: what is modelled is a small share of
the lines and most of the concurrency.

## 6. Plan

1. Lemmas of the safety behind the liveness properties: that no state lets
   everybody wait for everybody (`JobsEnd`, `CallsReturn` and `StopEnds` without their
   fairness), as invariants over the guards.
2. `ActionQueue`: its own invariants proved abstractly and inherited by
   `SimpleContext` through the refinement.
3. `Rules` on `DatabaseDispatcher`; `Messaging`; datasets.
