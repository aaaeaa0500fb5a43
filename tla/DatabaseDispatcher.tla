-------------------------- MODULE DatabaseDispatcher --------------------------
(***************************************************************************)
(* How an update of a row reaches a function on a dispatcher               *)
(* (Include/utils/database.hpp: subscriptions, registration_wrapper,       *)
(* data_action, database_dispatcher_base, data_binder; the pools of        *)
(* ref_count_object_pool.hpp).                                             *)
(*                                                                         *)
(* One row, written by one thread at a time (MemoryTable has several).     *)
(* The thread that writes raises the row's callbacks: the one of the       *)
(* `subscriptions` object raises its signal, and each function takes a     *)
(* buffer and an action from its wrapper's pools, fills them and posts the *)
(* action.  The worker of the dispatcher takes all actions at once, runs   *)
(* one after the other and gives them up together; a buffer is given back  *)
(* when its action was performed.  An object of a pool is free when nobody *)
(* but the pool refers to it.                                              *)
(*                                                                         *)
(* A function of the model is one subscription: made by SubGet, which      *)
(* subscribes and then reads, or by bind, which reads and then subscribes; *)
(* ended through the dispatcher or by an auto_token; then, as in           *)
(* ~database_dispatcher_base, the dispatcher may be synced.                *)
(***************************************************************************)
EXTENDS Signal, Sequences, Functions

CONSTANTS
  BufferBase,    \* BUFFER_POOL_BASE_SIZE
  ActionBase,    \* ACTIONS_POOL_BASE_SIZE
  MaxWrites      \* bound: writes

ASSUME DispatcherAssumption == {BufferBase, ActionBase, MaxWrites} \subseteq Nat \ {0}

\* As many as can be in use at a time: one for each write.
Buffers == 1 .. BufferBase + 2 * MaxWrites
ActionIds == 1 .. ActionBase + MaxWrites
NoBuffer == 0

VARIABLES
  value,         \* the row
  wpc,           \* where the writing thread is
  dropped,       \* the row callback that it calls has lost its last function
  buffer,        \* row_data_ref of the wrapper that it is in
  poolSize,      \* buffers in the pool of a function
  data,          \* what a buffer holds
  carried,       \* m_data of an action
  queue, batch,  \* jobs of the dispatcher: waiting, and taken by the worker
  at,            \* how many of the batch were begun
  running,       \* the worker is inside the job it began last
  stage,         \* how far a subscription is
  known,         \* what its owner knows of the row (history)
  late,          \* functions that a raise held when they were unsubscribed (history)
  missed         \* functions whose bind was between its halves at the last write (history)

row == <<value, wpc, dropped, buffer>>
pools == <<poolSize, data, carried>>
worker == <<batch, at, running>>
vars == <<signalVars, row, pools, queue, worker, stage, known, late, missed>>

Init ==
  /\ SignalInit
  /\ value = 0 /\ wpc = "idle" /\ dropped = FALSE /\ buffer = NoBuffer
  /\ poolSize = [f \in Funcs |-> BufferBase]
  /\ data = [f \in Funcs |-> [b \in Buffers |-> 0]]
  /\ carried = [f \in Funcs |-> [i \in ActionIds |-> NoBuffer]]
  /\ queue = <<>> /\ batch = <<>> /\ at = 0 /\ running = FALSE
  /\ stage = [f \in Funcs |-> "new"]
  /\ known = [f \in Funcs |-> 0]
  /\ late = {} /\ missed = {}

\* Jobs: an update with the action that brings it and, for the properties, the value it
\* was posted for; a function that is invoked on the context; an empty one of sync.
Update(f, i) == [kind |-> "update", func |-> f, action |-> i, value |-> value]
Job(kind, f) == [kind |-> kind, func |-> f]

Jobs == Range(queue) \cup Range(batch)
-----------------------------------------------------------------------------
(* The owners of subscriptions.                                            *)

Stage(f, from, to) == stage[f] = from /\ stage' = [stage EXCEPT ![f] = to]

\* subscriptions::subscribe; the first function puts the row callback on the row.
SubGet(f) ==
  /\ Stage(f, "new", "subscribed")
  /\ Subscribe(f)
  /\ UNCHANGED <<row, pools, queue, worker, known, late, missed>>

SubGetRead(f) ==
  /\ Stage(f, "subscribed", "ready")
  /\ known' = [known EXCEPT ![f] = value]
  /\ UNCHANGED <<signalVars, row, pools, queue, worker, late, missed>>

\* bind copies the row to its target ...
Bind(f) ==
  /\ Stage(f, "new", "copied")
  /\ known' = [known EXCEPT ![f] = value]
  /\ UNCHANGED <<signalVars, row, pools, queue, worker, late, missed>>

\* ... and subscribes the function that goes on copying.
BindSubscribe(f) ==
  /\ Stage(f, "copied", "ready")
  /\ Subscribe(f)
  /\ UNCHANGED <<row, pools, queue, worker, known, late, missed>>

\* subscriptions::unsubscribe; the last function takes the row callback off the row.
Leave(f) ==
  /\ Unsubscribe(f)
  /\ dropped' = (dropped \/ (wpc = "row" /\ subscribers' = {}))
  /\ late' = late \cup (({s[2] : s \in cloned} \cup {calling}) \cap {f})

\* auto_token::unregister, from any thread.
Unregister(f) ==
  /\ Stage(f, "ready", "gone")
  /\ Leave(f)
  /\ UNCHANGED <<value, wpc, buffer, pools, queue, worker, known, missed>>

\* database_dispatcher_base::unsubscribe invokes it on the context.
PostUnsubscribe(f) ==
  /\ Stage(f, "ready", "leaving")
  /\ queue' = Append(queue, Job("unsubscribe", f))
  /\ UNCHANGED <<signalVars, row, pools, worker, known, late, missed>>

\* Mutant: sync does not wait when the worker is not inside a function.
MutSyncSkips(f) ==
  /\ Stage(f, "gone", IF running THEN "syncing" ELSE "synced")
  /\ queue' = IF running THEN Append(queue, Job("sync", f)) ELSE queue
  /\ UNCHANGED <<signalVars, row, pools, worker, known, late, missed>>

Sync(f) ==
  /\ Stage(f, "gone", "syncing")
  /\ queue' = Append(queue, Job("sync", f))
  /\ UNCHANGED <<signalVars, row, pools, worker, known, late, missed>>
-----------------------------------------------------------------------------
(* The thread that writes.                                                 *)

Write ==
  /\ wpc = "idle" /\ value < MaxWrites
  /\ value' = value + 1
  /\ wpc' = "stored"
  /\ missed' = {f \in Funcs : stage[f] = "copied"}
  /\ UNCHANGED <<signalVars, dropped, buffer, pools, queue, worker, stage, known, late>>

\* raise_callbacks copies the list of row callbacks.
RaiseRow ==
  /\ wpc = "stored"
  /\ wpc' = IF subscribers = {} THEN "idle" ELSE "row"
  /\ UNCHANGED <<signalVars, value, dropped, buffer, pools, queue, worker, stage, known, late, missed>>

\* on_data_changed raises the signal of the callback it was called for.
RaiseSignal ==
  /\ wpc = "row"
  /\ IF dropped THEN UNCHANGED signalVars ELSE Raise
  /\ dropped' = FALSE
  /\ wpc' = "raise"
  /\ UNCHANGED <<value, buffer, pools, queue, worker, stage, known, late, missed>>

CallFunc ==
  /\ wpc = "raise"
  /\ Invoke
  /\ UNCHANGED <<row, pools, queue, worker, stage, known, late, missed>>

InUse(f, b) == \E i \in ActionIds : carried[f][i] = b

\* The buffers that get_item may return; when all are in use the pool is doubled.
FreeBuffers(f) == {b \in 1 .. poolSize[f] : ~InUse(f, b)}

\* registration_wrapper::invoke: get a buffer and update it, ...
TakeBuffer ==
  /\ calling # None /\ buffer = NoBuffer
  /\ LET f == calling
         full == FreeBuffers(f) = {}
     IN /\ poolSize' = [poolSize EXCEPT ![f] = IF full THEN 2 * @ ELSE @]
        /\ \E b \in IF full THEN {poolSize[f] + 1} ELSE FreeBuffers(f) :
             /\ buffer' = b
             /\ data' = [data EXCEPT ![f][b] = value]
  /\ UNCHANGED <<signalVars, value, wpc, dropped, carried, queue, worker, stage, known, late, missed>>

Posted(f, i) == \E j \in Jobs : j.kind = "update" /\ j.func = f /\ j.action = i

\* Actions that get_item may return; without one a new action is made, whose number
\* says nothing.
FreeActions(f) ==
  LET free == {i \in ActionIds : ~Posted(f, i)}
      pooled == free \cap 1 .. ActionBase
  IN IF pooled # {} THEN pooled ELSE {i \in free : \A j \in free : i <= j}

\* ... get an action, give it the buffer and post it.
PostUpdate ==
  /\ buffer # NoBuffer
  /\ \E i \in FreeActions(calling) :
       /\ carried' = [carried EXCEPT ![calling][i] = buffer]
       /\ queue' = Append(queue, Update(calling, i))
  /\ buffer' = NoBuffer
  /\ Invoked
  /\ UNCHANGED <<value, wpc, dropped, poolSize, data, worker, stage, known, late, missed>>

EndRaise ==
  /\ wpc = "raise" /\ Raised
  /\ wpc' = "idle"
  /\ UNCHANGED <<signalVars, value, dropped, buffer, pools, queue, worker, stage, known, late, missed>>
-----------------------------------------------------------------------------
(* The worker of the dispatcher (SimpleContext has it in detail).          *)

TakeBatch ==
  /\ batch = <<>> /\ queue # <<>>
  /\ batch' = queue /\ queue' = <<>>
  /\ UNCHANGED <<signalVars, row, pools, at, running, stage, known, late, missed>>

Begins(kind) ==
  /\ ~running /\ at < Len(batch) /\ batch[at + 1].kind = kind
  /\ at' = at + 1

\* Mutant: the action gives its buffer back before it calls the function.
MutReleasesFirst ==
  /\ Begins("update")
  /\ running' = TRUE
  /\ LET j == batch[at + 1] IN
     /\ known' = [known EXCEPT ![j.func] = data[j.func][carried[j.func][j.action]]]
     /\ carried' = [carried EXCEPT ![j.func][j.action] = NoBuffer]
  /\ UNCHANGED <<signalVars, row, poolSize, data, queue, batch, stage, late, missed>>

\* data_action::perform calls the function with the buffer, ...
Perform ==
  /\ Begins("update")
  /\ running' = TRUE
  /\ LET j == batch[at + 1] IN
     known' = [known EXCEPT ![j.func] = data[j.func][carried[j.func][j.action]]]
  /\ UNCHANGED <<signalVars, row, pools, queue, batch, stage, late, missed>>

\* ... which returns or throws; both release the buffer.
Performed ==
  /\ running
  /\ running' = FALSE
  /\ LET j == batch[at] IN carried' = [carried EXCEPT ![j.func][j.action] = NoBuffer]
  /\ UNCHANGED <<signalVars, row, poolSize, data, queue, batch, at, stage, known, late, missed>>

InvokeUnsubscribe ==
  /\ Begins("unsubscribe")
  /\ LET f == batch[at + 1].func IN Stage(f, "leaving", "gone") /\ Leave(f)
  /\ UNCHANGED <<value, wpc, buffer, pools, queue, batch, running, known, missed>>

InvokeSync ==
  /\ Begins("sync")
  /\ LET f == batch[at + 1].func IN Stage(f, "syncing", "synced")
  /\ UNCHANGED <<signalVars, row, pools, queue, batch, running, known, late, missed>>

\* Mutant: the queue is cleared with the batch.
MutClearsQueue ==
  /\ batch # <<>> /\ at = Len(batch) /\ ~running
  /\ batch' = <<>> /\ at' = 0
  /\ queue' = <<>>
  /\ UNCHANGED <<signalVars, row, pools, running, stage, known, late, missed>>

\* The actions of the batch are released together.
EndBatch ==
  /\ batch # <<>> /\ at = Len(batch) /\ ~running
  /\ batch' = <<>> /\ at' = 0
  /\ UNCHANGED <<signalVars, row, pools, queue, running, stage, known, late, missed>>
-----------------------------------------------------------------------------
OwnerStep(f) ==
  \/ SubGet(f) \/ SubGetRead(f) \/ Bind(f) \/ BindSubscribe(f)
  \/ Unregister(f) \/ PostUnsubscribe(f) \/ Sync(f)

WriterStep == RaiseRow \/ RaiseSignal \/ CallFunc \/ TakeBuffer \/ PostUpdate \/ EndRaise

WorkerStep ==
  TakeBatch \/ Perform \/ Performed \/ InvokeUnsubscribe \/ InvokeSync \/ EndBatch

Next == Write \/ WriterStep \/ WorkerStep \/ \E f \in Funcs : OwnerStep(f)

Spec == Init /\ [][Next]_vars
-----------------------------------------------------------------------------
JobRecords ==
  [kind : {"update"}, func : Funcs, action : ActionIds, value : 0 .. MaxWrites]
    \cup [kind : {"unsubscribe", "sync"}, func : Funcs]

TypeOK ==
  /\ SignalTypeOK
  /\ value \in 0 .. MaxWrites /\ wpc \in {"idle", "stored", "row", "raise"}
  /\ dropped \in BOOLEAN /\ buffer \in Buffers \cup {NoBuffer}
  /\ poolSize \in [Funcs -> Buffers]
  /\ data \in [Funcs -> [Buffers -> 0 .. MaxWrites]]
  /\ carried \in [Funcs -> [ActionIds -> Buffers \cup {NoBuffer}]]
  /\ queue \in Seq(JobRecords) /\ batch \in Seq(JobRecords)
  /\ at \in 0 .. Len(batch) /\ running \in BOOLEAN
  /\ stage \in [Funcs -> {"new", "copied", "subscribed", "ready", "leaving", "gone", "syncing",
                           "synced"}]
  /\ known \in [Funcs -> 0 .. MaxWrites] /\ late \cup missed \subseteq Funcs

\* Updates that were posted and whose function has not returned.
Pending == Range(queue) \cup {batch[i] : i \in (IF running THEN at ELSE at + 1) .. Len(batch)}

\* Until its function has returned, an update carries the value it was posted for,
\* although buffers and actions are used again as soon as nobody refers to them.
CarriesReport ==
  \A j \in Pending : j.kind = "update" =>
    carried[j.func][j.action] # NoBuffer /\ data[j.func][carried[j.func][j.action]] = j.value

\* An owner whose SubGet or bind is complete: no write and no update is under way.
Settled(f) == stage[f] = "ready" /\ wpc = "idle" /\ ~\E j \in Pending : j.func = f

\* An owner knows the value of the row when no update is under way.  "Subscription should
\* be handled before reading the current value" (ModernAPI/Database.hpp:1527), as SubGet
\* does; data_binder::bind reads first, so that its owner, and no other, stays behind when
\* the last write fell between its two halves.  The next write reaches it.
KnowsLast == \A f \in Funcs \ missed : Settled(f) => known[f] = value

\* A function that was unsubscribed, while no raise held it, is not called after a sync
\* of the dispatcher that followed.  (Without the sync it may be: unsubscribe waits for
\* its own turn in the queue only, and updates may have been posted behind it.)
QuietAfterSync ==
  \A f \in Funcs \ late : stage[f] = "synced" => ~\E j \in Pending : j.func = f
-----------------------------------------------------------------------------
(* What makes the invariants above inductive.                              *)

\* All jobs in the order they are begun, and the positions of the pending ones.
Line == batch \o queue
Waiting == (IF running THEN at ELSE at + 1) .. Len(Line)

IsUpdate(j, f) == j.kind = "update" /\ j.func = f

\* The write under way will call f, as far as the row and the raise know.
WillCall(f) ==
  \/ wpc = "stored" \/ (wpc = "row" /\ ~dropped)
  \/ calling = f \/ \E s \in cloned : s[2] = f

\* A raise happens inside a write and calls each function once, with a buffer that
\* nobody else refers to.
WriterDiscipline ==
  /\ wpc # "raise" => Raised
  /\ dropped => wpc = "row"
  /\ \A s \in cloned : s[2] # calling /\ \A u \in cloned : s[2] = u[2] => s = u
  /\ buffer # NoBuffer =>
       /\ calling # None /\ ~InUse(calling, buffer)
       /\ buffer <= poolSize[calling] /\ data[calling][buffer] = value

\* The updates of a function are in the order of the writes, with different actions,
\* and no write is reported twice.
OrderDiscipline ==
  /\ running => at > 0 /\ batch[at].kind = "update"
  /\ \A n \in DOMAIN Line : Line[n].kind = "update" =>
       /\ Line[n].value <= value
       /\ WillCall(Line[n].func) => Line[n].value < value
       /\ \A m \in DOMAIN Line : m < n /\ IsUpdate(Line[m], Line[n].func) =>
            Line[m].value < Line[n].value /\ Line[m].action # Line[n].action

\* A buffer in use belongs to one pending update, and holds what it reports.
PoolDiscipline ==
  /\ \A f \in Funcs : \A i \in ActionIds :
       /\ carried[f][i] <= poolSize[f]
       /\ carried[f][i] # NoBuffer =>
            /\ \E n \in Waiting : IsUpdate(Line[n], f) /\ Line[n].action = i
            /\ \A k \in ActionIds : carried[f][k] = carried[f][i] => k = i
  /\ \A n \in Waiting : Line[n].kind = "update" =>
       LET b == carried[Line[n].func][Line[n].action]
       IN b # NoBuffer /\ data[Line[n].func][b] = Line[n].value

\* How far an owner is decides what of its function can be subscribed, called or posted.
StageDiscipline ==
  \A f \in Funcs :
    /\ token[f] # Undefined <=> stage[f] \in {"subscribed", "ready", "leaving"}
    /\ stage[f] \in {"new", "copied"} => \A n \in DOMAIN Line : Line[n].func # f
    /\ stage[f] \in {"new", "copied"} \/ (stage[f] \in {"gone", "syncing", "synced"} /\ f \notin late) =>
         calling # f /\ \A s \in cloned : s[2] # f
    /\ \A m \in DOMAIN Line : Line[m].kind = "sync" /\ Line[m].func = f =>
         /\ stage[f] \in {"syncing", "synced"}
         /\ f \notin late => \A n \in DOMAIN Line : Line[n].func = f => n <= m
    /\ f \notin late /\ stage[f] = "synced" => \A n \in Waiting : Line[n].func # f

\* What an owner has read is the row, unless its bind missed the last write.
Informed(f) == known[f] = value \/ f \in missed

\* An owner knows the row, or has its last value waiting, or will be called for it.
KnowDiscipline ==
  /\ running /\ batch[at].value = value => known[batch[at].func] = value
  /\ \A f \in Funcs :
       /\ stage[f] = "copied" => Informed(f)
       /\ stage[f] \in {"subscribed", "ready"} /\ ~WillCall(f) =>
            \/ \E n \in Waiting : IsUpdate(Line[n], f) /\ Line[n].value = value
            \/ /\ \A n \in Waiting : ~IsUpdate(Line[n], f)
               /\ stage[f] = "ready" => Informed(f)
=============================================================================
