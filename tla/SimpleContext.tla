---------------------------- MODULE SimpleContext ----------------------------
(***************************************************************************)
(* utils::simple_context (Include/utils/dispatcher.hpp): the worker thread *)
(* behind every dispatcher.  One thread runs the posted actions and the    *)
(* timer callbacks; any thread posts actions, syncs, registers and removes *)
(* timers, suspends, resumes and disposes.                                 *)
(*                                                                         *)
(* Critical sections under m_mutex are single steps of the thread that     *)
(* enters them, except the worker's: it holds m_mutex from the top of its  *)
(* loop until it blocks on m_wait_handle or has taken its work, and the    *)
(* members it reads there that are NOT protected by the mutex (m_running,  *)
(* m_suspended) can change under it.  A notification that finds nobody     *)
(* blocked is lost, as with std::condition_variable.                       *)
(*                                                                         *)
(* Time is abstracted to the set of timers whose interval has elapsed;     *)
(* vectors whose order no property depends on (m_timers, m_clients,        *)
(* m_executing_clients) are sets.                                          *)
(***************************************************************************)
EXTENDS Naturals, Sequences, FiniteSets

CONSTANTS
  Actions,      \* action objects that callers post
  Syncers,      \* threads that call dispatcher::sync
  Tokens,       \* timer_tokens; get_next_client_id hands each out once
  Interval,     \* Interval[c]: the interval c is registered with
  Count,        \* Count[c]: its invocation_count, 0 for "run infinitely"
  Suspendable,  \* m_suspendable
  Disposals,    \* who may dispose: subset of {"external", "self"}
  None          \* "no callback is running"

\* Everything m_actions can hold.  The empty action that sync() posts for
\* a syncer, or for the thread that unregisters a timer, has its name.
Callers == Syncers \cup Tokens
Jobs == Actions \cup Callers

ASSUME ContextAssumption ==
  /\ Actions \cap Callers = {}
  /\ Syncers \cap Tokens = {}
  /\ None \notin Jobs
  /\ Interval \in [Tokens -> Nat \ {0}]
  /\ Count \in [Tokens -> Nat]
  /\ Suspendable \in BOOLEAN
  /\ Disposals \subseteq {"external", "self"}

VARIABLES
  running,      \* m_running
  suspended,    \* m_suspended
  addingTimer,  \* m_adding_timer
  idle,         \* m_idle
  actions,      \* m_actions
  timers,       \* m_timers; a timer object is named by the token it was made for
  clients,      \* clients[t]: m_clients of timer t
  left,         \* left[c]: m_invocation_count of client c
  due,          \* timers whose interval has elapsed since their reference time
  pc,           \* where the worker is
  stackStopper, stopThread, pendingActions, pendingTimers, \* worker's locals
  executing,    \* m_executing_clients
  current,      \* the action or client whose code the worker is running
  state,        \* state[j]: base_async_action::m_state, and who refused it
  call,         \* call[k]: progress of a sync or register/unregister caller
  before,       \* before[k]: what was queued when k called sync (history)
  disposer      \* progress of dispose(false)

members == <<running, suspended, addingTimer, idle>>
timerVars == <<timers, clients, left, due>>
locals == <<stackStopper, stopThread, pendingActions, pendingTimers, executing, current>>
callers == <<call, before>>
vars == <<members, actions, timerVars, pc, locals, state, callers, disposer>>

\* async_state, with "none" before begin_invoke and "refused" when it threw.
Final == {"completed", "exception", "cancelled"}
JobStates == {"none", "pending", "running", "refused"} \cup Final

PcValues == {"top", "pred", "block", "blocked", "woken", "take", "expired",
             "timers", "clients", "client", "actions", "action", "exit"}

CallStates == {"idle", "registered", "check", "post", "wait",
               "returned", "skipped", "failed", "inside"}

\* The worker holds m_mutex.
Locked == pc \in {"pred", "block", "take", "expired"}

\* Code of a caller runs on the worker thread; after a self-dispose the
\* thread is detached and invoke_required() no longer recognises it.
InContext == pc \in {"client", "action"} /\ ~stackStopper

\* The worker is running the callback of client c.
Firing(c) == pc = "client" /\ current = c

\* The object may still be called: its destructor has not finished.
Alive == disposer # "done"

Suspended == Suspendable /\ suspended

Queued == {actions[i] : i \in DOMAIN actions} \cup {pendingActions[i] : i \in DOMAIN pendingActions}
-----------------------------------------------------------------------------
\* simple_context(name, start_suspended, handler).  m_idle is not initialised.
Init ==
  /\ running = TRUE
  /\ suspended \in (IF Suspendable THEN BOOLEAN ELSE {FALSE})
  /\ addingTimer = FALSE
  /\ idle \in BOOLEAN
  /\ actions = <<>>
  /\ timers = {}
  /\ clients = [t \in Tokens |-> {}]
  /\ left = Count
  /\ due = {}
  /\ pc = "top"
  /\ stackStopper = FALSE
  /\ stopThread = FALSE
  /\ pendingActions = <<>>
  /\ pendingTimers = {}
  /\ executing = {}
  /\ current = None
  /\ state = [j \in Jobs |-> "none"]
  /\ call = [k \in Callers |-> "idle"]
  /\ before = [k \in Syncers |-> {}]
  /\ disposer = "none"

\* m_wait_handle.notify_one(): lost unless the worker is blocked.
NotifiedPc == IF pc = "blocked" THEN "woken" ELSE pc

\* Mutant: the worker is not notified.
MutAddQuietly(j) ==
  /\ ~Locked /\ running
  /\ actions' = Append(actions, j)
  /\ state' = [state EXCEPT ![j] = "pending"]
  /\ idle' = FALSE
  /\ UNCHANGED <<running, suspended, addingTimer, timerVars, pc, locals, disposer>>

\* Mutant: the newest action goes to the front.
MutAddFirst(j) ==
  /\ ~Locked /\ running
  /\ actions' = <<j>> \o actions
  /\ state' = [state EXCEPT ![j] = "pending"]
  /\ idle' = FALSE
  /\ pc' = NotifiedPc
  /\ UNCHANGED <<running, suspended, addingTimer, timerVars, locals, disposer>>

\* Mutant: m_idle is left as it was.
MutAddKeepsIdle(j) ==
  /\ ~Locked /\ running
  /\ actions' = Append(actions, j)
  /\ state' = [state EXCEPT ![j] = "pending"]
  /\ pc' = NotifiedPc
  /\ UNCHANGED <<members, timerVars, locals, disposer>>

\* add_action: throws context_disposed_exception when not running.
AddAction(j) ==
  /\ ~Locked
  /\ IF running
       THEN /\ actions' = Append(actions, j)
            /\ state' = [state EXCEPT ![j] = "pending"]
            /\ idle' = FALSE
            /\ pc' = NotifiedPc
       ELSE /\ state' = [state EXCEPT ![j] = "refused"]
            /\ UNCHANGED <<actions, idle, pc>>
  /\ UNCHANGED <<running, suspended, addingTimer, timerVars, locals, disposer>>

\* begin_invoke from another thread, or with force_async from this one.
BeginInvoke(a) ==
  /\ Alive
  /\ state[a] = "none"
  /\ AddAction(a)
  /\ UNCHANGED callers

\* begin_invoke on the worker's own thread: invoke_action runs it in place.
InvokeInPlace(a) ==
  /\ InContext
  /\ state[a] = "none"
  /\ \E result \in {"completed", "exception"} : state' = [state EXCEPT ![a] = result]
  /\ UNCHANGED <<members, actions, timerVars, pc, locals, callers, disposer>>

\* The caller drops a finished action and makes a new one.
Recreate(a) ==
  /\ state[a] \in Final \cup {"refused"}
  /\ state' = [state EXCEPT ![a] = "none"]
  /\ before' = [k \in Syncers |-> before[k] \ {a}]
  /\ UNCHANGED <<members, actions, timerVars, pc, locals, call, disposer>>
-----------------------------------------------------------------------------
\* suspend(): no lock, nobody is woken.
Suspend ==
  /\ Alive /\ Suspendable
  /\ suspended' = TRUE
  /\ UNCHANGED <<running, addingTimer, idle, actions, timerVars, pc, locals, state, callers, disposer>>

\* resume(): no lock; notifies only when it was suspended.
Resume ==
  /\ Alive /\ Suspended
  /\ suspended' = FALSE
  /\ pc' = NotifiedPc
  /\ UNCHANGED <<running, addingTimer, idle, actions, timerVars, locals, state, callers, disposer>>

\* dispatcher::sync by another thread.
Sync(k) ==
  /\ Alive
  /\ call[k] = "idle"
  /\ call' = [call EXCEPT ![k] = "check"]
  /\ before' = [before EXCEPT ![k] = Queued]
  /\ UNCHANGED <<members, actions, timerVars, pc, locals, state, disposer>>

\* sync and remove_timer read suspended() first and skip the wait when it is set.
CheckSuspended(k) ==
  /\ call[k] = "check"
  /\ call' = [call EXCEPT ![k] = IF Suspended THEN "skipped" ELSE "post"]
  /\ UNCHANGED <<members, actions, timerVars, pc, locals, state, before, disposer>>

\* simple_context::sync -> invoke -> begin_invoke.
PostSync(k) ==
  /\ call[k] = "post"
  /\ AddAction(k)
  /\ call' = [call EXCEPT ![k] = IF running THEN "wait" ELSE "failed"]
  /\ UNCHANGED before

\* Mutant: the wait ends as soon as the action is queued.
MutWaitQueued(k) ==
  /\ call[k] = "wait"
  /\ call' = [call EXCEPT ![k] = "returned"]
  /\ UNCHANGED <<members, actions, timerVars, pc, locals, state, before, disposer>>

\* invoke -> end_invoke -> base_async_action::wait(0); the result is ignored.
WaitSync(k) ==
  /\ call[k] = "wait"
  /\ state[k] \in Final
  /\ call' = [call EXCEPT ![k] = IF state[k] = "cancelled" THEN "failed" ELSE "returned"]
  /\ UNCHANGED <<members, actions, timerVars, pc, locals, state, before, disposer>>
-----------------------------------------------------------------------------
\* add_timer: a client without an invocation_count joins a timer of the same
\* interval, unless that timer has lost its last client and is replaced.
RegisterTimer(c) ==
  LET same == IF Count[c] = 0 THEN {t \in timers : Interval[t] = Interval[c]} ELSE {}
      NewTimer(rest) == /\ timers' = rest \cup {c}
                        /\ clients' = [clients EXCEPT ![c] = {c}]
  IN /\ Alive /\ ~Locked
     /\ call[c] = "idle"
     /\ call' = [call EXCEPT ![c] = "registered"]
     /\ \/ same = {} /\ NewTimer(timers)
        \/ \E t \in same : clients[t] = {} /\ NewTimer(timers \ {t})
        \/ \E t \in same : /\ clients[t] # {}
                           /\ clients' = [clients EXCEPT ![t] = @ \cup {c}]
                           /\ UNCHANGED timers
     /\ addingTimer' = TRUE
     /\ pc' = NotifiedPc
     /\ UNCHANGED <<running, suspended, idle, actions, left, due, locals, state, before, disposer>>

\* remove_timer under the mutex: drop the client, and its timer if it was the last.
RemoveClient(c) ==
  /\ Alive /\ ~Locked
  /\ call[c] = "registered"
  /\ timers' = {t \in timers : clients[t] # {c}}
  /\ clients' = [t \in Tokens |-> IF t \in timers THEN clients[t] \ {c} ELSE clients[t]]
  /\ UNCHANGED <<members, actions, left, due, pc, locals, state, before, disposer>>

\* unregister_timer by another thread; CheckSuspended continues.
UnregisterTimer(c) ==
  /\ RemoveClient(c)
  /\ call' = [call EXCEPT ![c] = "check"]

\* unregister_timer on the worker thread: its sync runs in place.
UnregisterInContext(c) ==
  /\ InContext
  /\ RemoveClient(c)
  /\ call' = [call EXCEPT ![c] = "inside"]

\* The interval of timer t elapses.
Elapse(t) ==
  /\ t \in (timers \cup pendingTimers) \ due
  /\ due' = due \cup {t}
  /\ UNCHANGED <<members, actions, timers, clients, left, pc, locals, state, callers, disposer>>
-----------------------------------------------------------------------------
\* Top of worker()'s loop: get_next_timers drops the timers without clients
\* and selects the ones that expire first, all the overdue ones if any.
Top ==
  LET live == {t \in timers : clients[t] # {}}
  IN /\ pc = "top"
     /\ idle' = TRUE
     /\ \/ /\ Suspended
           /\ pendingTimers' = {}
           /\ pc' = "pred"
           /\ UNCHANGED timers
        \/ /\ ~Suspended
           /\ timers' = live
           /\ \/ /\ live \cap due # {}
                 /\ pendingTimers' = live \cap due
                 /\ pc' = "expired"
              \/ /\ live \cap due = {}
                 /\ pendingTimers' \in (IF live = {} THEN {{}} ELSE SUBSET live \ {{}})
                 /\ pc' = "pred"
     /\ UNCHANGED <<running, suspended, addingTimer, actions, clients, left, due, stackStopper,
                    stopThread, pendingActions, executing, current, state, callers, disposer>>

\* Mutant: a new timer does not end the wait.
MutPredIgnoresTimer == (actions # <<>> /\ ~Suspended) \/ ~running

\* The predicate of wait and wait_until.
Pred == ((actions # <<>> \/ addingTimer) /\ ~Suspended) \/ ~running

onlyPc == <<members, actions, timerVars, locals, state, callers, disposer>>

\* The time point wait_until was given has passed.
DeadlinePassed == pendingTimers # {} /\ pendingTimers \subseteq due

\* Evaluated before blocking, and again after every wake-up; after one,
\* wait_until reports the timeout if the deadline has passed.
EvaluatePred ==
  /\ pc \in {"pred", "woken"}
  /\ pc' = IF Pred THEN "take"
           ELSE IF pc = "woken" /\ DeadlinePassed THEN "expired" ELSE "block"
  /\ UNCHANGED onlyPc

\* The wait releases the mutex and blocks, atomically.
Block ==
  /\ pc = "block"
  /\ pc' = "blocked"
  /\ UNCHANGED onlyPc

\* A condition variable may wake without a notification.
SpuriousWake ==
  /\ pc = "blocked"
  /\ pc' = "woken"
  /\ UNCHANGED onlyPc

\* The deadline of wait_until wakes the worker.
Timeout ==
  /\ pc = "blocked"
  /\ DeadlinePassed
  /\ pc' = "woken"
  /\ UNCHANGED onlyPc

\* check_timers: what is left of T.  Erasing two vanished timers uses an
\* iterator the first erase invalidated: the vector still shrinks by the
\* right number, but which elements survive is arbitrary.
CheckTimers(T) ==
  LET gone == T \ timers
  IN IF Cardinality(gone) <= 1
       THEN {T \ gone}
       ELSE {S \in SUBSET T : Cardinality(S) = Cardinality(T) - Cardinality(gone)}

\* From the return of the wait to locker.unlock().
TakeWork ==
  /\ pc \in {"take", "expired"}
  /\ IF Suspended
       THEN /\ pendingTimers' = {}
            /\ UNCHANGED <<addingTimer, actions, pendingActions, due>>
       ELSE /\ addingTimer' = FALSE
            /\ pendingActions' = actions
            /\ actions' = <<>>
            /\ pendingTimers' \in (IF pc = "expired" THEN CheckTimers(pendingTimers) ELSE {{}})
            /\ due' = IF pc = "expired" THEN due \ (pendingTimers \cap timers) ELSE due
  /\ idle' = /\ idle \/ (pc = "expired" /\ ~Suspended)
             /\ pendingTimers' = {}
             /\ pendingActions' = <<>>
  /\ stopThread' = ~running
  /\ pc' = "timers"
  /\ UNCHANGED <<running, suspended, timers, clients, left, stackStopper, executing, current,
                 state, callers, disposer>>
-----------------------------------------------------------------------------
\* for (timer : pending_timers), and the snapshot timer::invoke takes.
NextTimer ==
  /\ pc = "timers"
  /\ \/ /\ pendingTimers = {} \/ stackStopper
        /\ pendingTimers' = {}
        /\ pc' = "actions"
        /\ UNCHANGED executing
     \/ /\ ~stackStopper
        /\ \E t \in pendingTimers : /\ pendingTimers' = pendingTimers \ {t}
                                    /\ executing' = clients[t]
        /\ pc' = "clients"
  /\ UNCHANGED <<members, actions, timerVars, stackStopper, stopThread, pendingActions, current,
                 state, callers, disposer>>

\* Mutant: the count of an infinite client (0) is decremented too.
MutCountDown(n) == n - 1

\* client_wrapper::invoke: 0 stays 0.
CountDown(n) == IF n > 0 THEN n - 1 ELSE n

\* for (client : m_executing_clients): client_wrapper::invoke counts, then calls.
NextClient ==
  /\ pc = "clients"
  /\ \/ /\ executing = {}
        /\ pc' = "timers"
        /\ UNCHANGED <<executing, current, left>>
     \/ \E c \in executing :
          /\ executing' = executing \ {c}
          /\ current' = c
          /\ left' = [left EXCEPT ![c] = CountDown(@)]
          /\ pc' = "client"
  /\ UNCHANGED <<members, actions, timers, clients, due, stackStopper, stopThread, pendingActions,
                 pendingTimers, state, callers, disposer>>

\* Mutant: an expired client stays in its timer.
MutKeepExpired ==
  /\ pc = "client"
  /\ current' = None
  /\ pc' = "clients"
  /\ UNCHANGED <<members, actions, timerVars, stackStopper, stopThread, pendingActions,
                 pendingTimers, executing, state, callers, disposer>>

\* The callback returned; an expired client is removed from its timer.
EndClient ==
  /\ pc = "client"
  /\ clients' = IF Count[current] > 0 /\ left[current] = 0
                  THEN [t \in Tokens |-> clients[t] \ {current}]
                  ELSE clients
  /\ current' = None
  /\ pc' = "clients"
  /\ UNCHANGED <<members, actions, timers, left, due, stackStopper, stopThread, pendingActions,
                 pendingTimers, executing, state, callers, disposer>>

\* for (action : pending_actions), the end of the loop's body and its condition.
NextAction ==
  /\ pc = "actions"
  /\ \/ /\ pendingActions = <<>>
        /\ pc' = IF stopThread \/ stackStopper THEN "exit" ELSE "top"
        /\ UNCHANGED <<pendingActions, current, state>>
     \/ /\ pendingActions # <<>>
        /\ pendingActions' = Tail(pendingActions)
        /\ IF stackStopper
             THEN /\ state' = [state EXCEPT ![Head(pendingActions)] = "cancelled"]
                  /\ UNCHANGED <<pc, current>>
             ELSE /\ state' = [state EXCEPT ![Head(pendingActions)] = "running"]
                  /\ current' = Head(pendingActions)
                  /\ pc' = "action"
  /\ UNCHANGED <<members, actions, timerVars, stackStopper, stopThread, pendingTimers, executing,
                 callers, disposer>>

\* base_async_action::invoke signals completed, or exception when perform threw.
EndAction ==
  /\ pc = "action"
  /\ \E result \in {"completed", "exception"} : state' = [state EXCEPT ![current] = result]
  /\ current' = None
  /\ pc' = "actions"
  /\ UNCHANGED <<members, actions, timerVars, stackStopper, stopThread, pendingActions,
                 pendingTimers, executing, callers, disposer>>
-----------------------------------------------------------------------------
\* Mutant: the actions are dropped without cancel().
MutClearOnly ==
  /\ actions' = <<>>
  /\ UNCHANGED state

\* Mutant: the actions are cancelled and stay queued.
MutCancelOnly ==
  /\ state' = [j \in Jobs |-> IF \E i \in DOMAIN actions : actions[i] = j
                                THEN "cancelled" ELSE state[j]]
  /\ UNCHANGED actions

\* The last part of dispose(false), under the mutex: cancel what is queued.
CancelActions ==
  /\ state' = [j \in Jobs |-> IF \E i \in DOMAIN actions : actions[i] = j
                                THEN "cancelled" ELSE state[j]]
  /\ actions' = <<>>

\* dispose by the worker itself, from an action or a timer callback.
DisposeSelf ==
  /\ "self" \in Disposals
  /\ InContext
  /\ running
  /\ running' = FALSE
  /\ stackStopper' = TRUE
  /\ CancelActions
  /\ disposer' = "done"
  /\ UNCHANGED <<suspended, addingTimer, idle, timerVars, pc, stopThread, pendingActions,
                 pendingTimers, executing, current, callers>>

\* dispose by another thread: the compare-exchange, without the mutex ...
Dispose ==
  /\ "external" \in Disposals
  /\ running
  /\ running' = FALSE
  /\ disposer' = "notify"
  /\ UNCHANGED <<suspended, addingTimer, idle, actions, timerVars, pc, locals, state, callers>>

\* ... m_wait_handle.notify_one() ...
DisposeNotify ==
  /\ disposer = "notify"
  /\ disposer' = "join"
  /\ pc' = NotifiedPc
  /\ UNCHANGED <<members, actions, timerVars, locals, state, callers>>

\* ... m_invocation_thread.join() ...
DisposeJoin ==
  /\ disposer = "join"
  /\ pc = "exit"
  /\ disposer' = "clean"
  /\ UNCHANGED <<members, actions, timerVars, pc, locals, state, callers>>

\* ... and the cancellation of what the worker left.
DisposeClean ==
  /\ disposer = "clean"
  /\ CancelActions
  /\ disposer' = "done"
  /\ UNCHANGED <<members, timerVars, pc, locals, callers>>
-----------------------------------------------------------------------------
WorkerStep ==
  \/ Top \/ EvaluatePred \/ Block \/ Timeout \/ TakeWork
  \/ NextTimer \/ NextClient \/ EndClient \/ NextAction \/ EndAction

DisposerStep == DisposeNotify \/ DisposeJoin \/ DisposeClean

CallerStep(k) == CheckSuspended(k) \/ PostSync(k) \/ WaitSync(k)

Next ==
  \/ WorkerStep
  \/ SpuriousWake
  \/ DisposeSelf \/ Dispose \/ DisposerStep
  \/ Suspend \/ Resume
  \/ \E a \in Actions : BeginInvoke(a) \/ InvokeInPlace(a) \/ Recreate(a)
  \/ \E k \in Callers : CallerStep(k)
  \/ \E k \in Syncers : Sync(k)
  \/ \E c \in Tokens : \/ RegisterTimer(c) \/ UnregisterTimer(c) \/ UnregisterInContext(c)
                       \/ Elapse(c)

Spec == Init /\ [][Next]_vars

\* The operating system schedules every thread that can run, callbacks
\* return, and time passes.  Nobody has to post, suspend, resume, register,
\* unregister or dispose, and spurious wake-ups need not happen.
Fairness ==
  /\ WF_vars(WorkerStep)
  /\ WF_vars(DisposerStep)
  /\ \A k \in Callers : WF_vars(CallerStep(k))
  /\ \A t \in Tokens : WF_vars(Elapse(t))

FairSpec == Spec /\ Fairness
-----------------------------------------------------------------------------
\* Types: the flags, the queue and the worker, the timers, the callers.
FlagsOK ==
  /\ running \in BOOLEAN /\ suspended \in BOOLEAN
  /\ addingTimer \in BOOLEAN /\ idle \in BOOLEAN
  /\ stackStopper \in BOOLEAN /\ stopThread \in BOOLEAN
  /\ disposer \in {"none", "notify", "join", "clean", "done"}

WorkOK ==
  /\ actions \in Seq(Jobs) /\ pendingActions \in Seq(Jobs)
  /\ state \in [Jobs -> JobStates]
  /\ pc \in PcValues
  /\ current \in Jobs \cup {None}

TimersOK ==
  /\ timers \subseteq Tokens /\ pendingTimers \subseteq Tokens
  /\ due \subseteq Tokens /\ executing \subseteq Tokens
  /\ clients \in [Tokens -> SUBSET Tokens]
  /\ left \in [Tokens -> Nat]

CallsOK ==
  /\ call \in [Callers -> CallStates]
  /\ before \in [Syncers -> SUBSET Jobs]

TypeOK == FlagsOK /\ WorkOK /\ TimersOK /\ CallsOK

\* The line of accepted actions that nobody has started yet.
Line == pendingActions \o actions

\* No accepted action is lost or duplicated: add_action, the swap in worker()
\* and the cancellations in dispose keep every pending action in exactly one
\* place of the line, and only the worker's current action is running.
QueuedOnce ==
  /\ \A m, n \in DOMAIN Line : Line[m] = Line[n] => m = n
  /\ \A j \in Jobs : state[j] = "pending" <=> \E n \in DOMAIN Line : Line[n] = j
  /\ \A j \in Jobs : state[j] = "running" <=> pc = "action" /\ current = j

\* dispose(false) leaves no waiter behind: once it is over and the worker has
\* left its loop, every action that add_action accepted has run or been
\* cancelled, however posting, suspending and disposing were interleaved.
NoneAbandoned ==
  disposer = "done" /\ pc = "exit" => \A j \in Jobs : state[j] \notin {"pending", "running"}

\* A sync() whose empty action ran returns only after everything that was
\* queued when it was called has been taken off the queue and finished.
SyncFlushes ==
  \A k \in Syncers : call[k] = "returned" =>
    \A j \in before[k] : state[j] \in Final

\* When unregister_timer called from another thread returns after its sync
\* ran, the callback is not running and cannot run again: the sync action
\* is only reached once the worker is past the snapshot of m_clients.
QuietAfterUnregister ==
  \A c \in Tokens : call[c] = "returned" =>
    /\ c \notin executing
    /\ ~Firing(c)
    /\ \A t \in Tokens : c \notin clients[t]

\* A client registered with an invocation_count is never called once the
\* count is used up: it is in no timer and in no snapshot after its last call.
ExhaustedStaysOut ==
  \A c \in Tokens : Count[c] > 0 /\ left[c] = 0 /\ ~Firing(c) =>
    c \notin executing /\ \A t \in Tokens : c \notin clients[t]

\* idle() of a context that cannot be suspended never reports TRUE (outside
\* the worker's critical section) while something is queued, taken or running.
IdleIsHonest ==
  ~Suspendable /\ idle /\ ~Locked =>
    /\ Line = <<>> /\ executing = {}
    /\ pc = "timers" => pendingTimers = {}
    /\ pc \notin {"client", "action"}

\* What makes the invariants above inductive.  A batch exists only while the
\* worker works it off, a snapshot only while a timer runs, and a context
\* whose dispose has begun accepts nothing.
Working == pc \in {"timers", "clients", "client", "actions", "action"}

WorkerDiscipline ==
  /\ ~Working => pendingActions = <<>>
  /\ pc \notin {"clients", "client"} => executing = {}
  /\ disposer # "none" \/ stackStopper => ~running
  /\ disposer = "clean" => pc = "exit"
  /\ disposer = "done" => actions = <<>>

\* The action of a sync exists only once it was posted, and sync returns
\* only once it ran.
CallerDiscipline ==
  \A k \in Callers :
    /\ state[k] # "none" => call[k] \in {"wait", "returned", "failed"}
    /\ call[k] = "returned" => state[k] \in {"completed", "exception"}

\* Which tokens can be in a timer, in a snapshot or firing, by the progress
\* of the thread that registers and unregisters them.
TokenDiscipline ==
  /\ \A t \in Tokens \ timers : clients[t] = {}
  /\ \A c \in Tokens :
       /\ \A t \in Tokens : c \in clients[t] => call[c] = "registered"
       /\ c \in executing \/ Firing(c) => call[c] # "idle"
       /\ Firing(c) => c \notin executing
       /\ call[c] = "idle" => left[c] = Count[c]
       /\ state[c] \in {"running", "completed", "exception"} =>
            c \notin executing /\ ~Firing(c)

\* m_idle is only TRUE outside the critical section when the worker has
\* nothing in its hands, and the worker does not block on a filled queue.
IdleDiscipline ==
  ~Suspendable =>
    /\ pc = "block" => actions = <<>>
    /\ idle /\ ~Locked =>
         /\ actions = <<>> /\ pendingActions = <<>> /\ executing = {}
         /\ pc = "timers" => pendingTimers = {}
         /\ pc \notin {"clients", "client", "action"}

\* j was queued when the syncer k called sync: it is ahead of k's action in
\* the line, and finished once that one runs.
Ahead(j, k) ==
  /\ j # k
  /\ state[j] \in Final \cup {"pending", "running"}
  /\ \A m, n \in DOMAIN Line : Line[m] = j /\ Line[n] = k => m < n
  /\ state[k] \in {"running", "completed", "exception"} => state[j] \in Final

SyncDiscipline ==
  \A k \in Syncers : \A j \in before[k] : call[k] # "idle" /\ Ahead(j, k)

\* The inductive invariants, over TypeOK.
ActionInv == QueuedOnce /\ WorkerDiscipline /\ CallerDiscipline

TimerInv == TokenDiscipline /\ ExhaustedStaysOut

\* The context implements the promise to its callers: one line, first in
\* first out over all batches, at most one start per action.
Promise == INSTANCE ActionQueue WITH line <- Line, open <- running
KeepsPromise == Promise!Spec
-----------------------------------------------------------------------------
\* Every accepted action of a context that cannot be suspended is finished
\* or cancelled: no posting thread blocked in end_invoke waits for ever.
ActionsFinish ==
  \A j \in Jobs : state[j] = "pending" ~> state[j] \in Final

\* A registered timer of a context that cannot be suspended fires, also when
\* actions keep arriving and keep ending the timed wait early.
TimersFire ==
  \A c \in Tokens :
    call[c] = "registered" /\ (Count[c] = 0 \/ left[c] > 0)
      ~> Firing(c) \/ call[c] # "registered" \/ ~running
-----------------------------------------------------------------------------
(* What a comment in dispatcher.hpp says, and the code does not do.        *)

\* dispose: "We need to clean (cancel) pending actions to avoid deadlocks of
\* waiting executions".
DisposeReleasesWaiters ==
  \A j \in Jobs : state[j] = "pending" /\ ~running ~> state[j] \in Final
=============================================================================
