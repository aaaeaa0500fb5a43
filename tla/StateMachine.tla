----------------------------- MODULE StateMachine -----------------------------
(***************************************************************************)
(* StateMachine (ModernAPI/StateMachine.hpp) with its state timer          *)
(* (Include/utils/timer.hpp).                                              *)
(*                                                                         *)
(* Events, Pause, Resume and InitializeResetRun are jobs of the            *)
(* subscriber's context, one at a time.  Timeouts run on the thread of the *)
(* timer's own dispatcher, of which every start creates a new one.  Both   *)
(* perform transitions and stop and start the timer, whose mutex is held   *)
(* while stop waits for a tick of another thread; on the timer's own       *)
(* thread stop does not wait, and the tick goes on after it.               *)
(*                                                                         *)
(* What states do is a parameter: Transitions is the graph, an event's     *)
(* handler and an entered state may try any opcode of their kind, and      *)
(* HandleTimeout does so in the states `moving`.  The process timer has no *)
(* handler in the code and no effect.                                      *)
(***************************************************************************)
EXTENDS Naturals

CONSTANTS
  States, First, \* First: where InitializeResetRun starts
  Timed,         \* states with a timeout
  EndStates,     \* STATE_END_SUCCESS, _FAIL or _ABORT
  EventOps, EnterOps, TimeoutOps,   \* opcodes that handlers use
  Transitions,   \* a set of <<state, opcode, state>>
  Movings,       \* the choices for `moving`
  Context,       \* the thread of the subscriber's context
  Threads,       \* threads of timer dispatchers
  None

Ops == EventOps \cup EnterOps \cup TimeoutOps
Actors == Threads \cup {Context}
JobNames == {"reset", "pause", "resume", "event", "timeout"}

ASSUME MachineAssumption ==
  /\ First \in States
  /\ Timed \subseteq States /\ EndStates \subseteq States
  /\ Transitions \subseteq States \X Ops \X States
  /\ Movings \subseteq SUBSET Timed
  /\ Context \notin Threads /\ None \notin Actors \cup Ops \cup States \cup JobNames

VARIABLES
  moving,      \* the states whose HandleTimeout tries a transition
  current,     \* m_stStateMachineSts.nCurrentState
  status,      \* m_processStatus
  lastStatus,  \* m_LastprocessStatus
  registered,  \* the thread whose dispatcher the running timer uses
  owner,       \* the thread that holds the timer's m_mutex
  pc,          \* where an actor is
  job,         \* what it does
  op, target,  \* the opcode, and the next state that was found for it
  joining,     \* the thread that its stop waits for
  entered,     \* the last state whose HandleEnteredState was called (history)
  timerOf,     \* the current state when the running timer was started (history)
  raced,       \* a timeout has moved the machine while the context had a job (history)
  overtaken    \* ticks were still moving the machine, past their own stop of the timer,
               \* when the last Pause stopped it (history)

machine == <<current, status, lastStatus>>
timer == <<registered, owner, timerOf, overtaken>>
locals == <<pc, job, op, target, joining>>
vars == <<moving, machine, timer, locals, entered, raced>>

Statuses == {"not started", "running", "finished", "paused"}

Init ==
  /\ moving \in Movings
  /\ current = First /\ status = "not started" /\ lastStatus = "not started"
  /\ registered = None /\ owner = None /\ timerOf = None
  /\ pc = [a \in Actors |-> "idle"]
  /\ job = [a \in Actors |-> None]
  /\ op = [a \in Actors |-> None]
  /\ target = [a \in Actors |-> None]
  /\ joining = [a \in Actors |-> None]
  /\ entered = None /\ raced = FALSE /\ overtaken = FALSE
-----------------------------------------------------------------------------
\* The tick of thread t has found a transition and performs it.
Switching(t) == pc[t] \notin {"idle", "report", "perform"}

Overlaps == pc[Context] # "idle" /\ \E t \in Threads : Switching(t)

Idle(a) == pc[a] = "idle"

Goto(a, where) ==
  /\ pc' = [pc EXCEPT ![a] = where]
  /\ raced' = (raced \/ Overlaps')

\* The actor returns from its job or its tick.
Return(a) ==
  /\ Goto(a, "idle")
  /\ job' = [job EXCEPT ![a] = None]

Does(a, what, where) ==
  /\ pc[a] = "idle"
  /\ job' = [job EXCEPT ![a] = what]
  /\ Goto(a, where)

\* InitializeResetRun: stop the timer of an earlier run first.
Reset ==
  /\ Does(Context, "reset", IF status = "not started" THEN "reset" ELSE "stop")
  /\ UNCHANGED <<moving, machine, timer, op, target, joining, entered>>

ResetRun(a) ==
  /\ pc[a] = "reset"
  /\ current' = First
  /\ status' = "running"
  /\ Goto(a, "enter")
  /\ UNCHANGED <<moving, lastStatus, timer, job, op, target, joining, entered>>

Pause ==
  /\ status \notin {"paused", "not started"}
  /\ Does(Context, "pause", "stop")
  /\ UNCHANGED <<moving, machine, timer, op, target, joining, entered>>

Paused(a) ==
  /\ pc[a] = "pause"
  /\ lastStatus' = status
  /\ status' = "paused"
  /\ Return(a)
  /\ UNCHANGED <<moving, current, timer, op, target, joining, entered>>

Resume ==
  /\ status = "paused"
  /\ Does(Context, "resume", IF current \in Timed THEN "restart" ELSE "resume")
  /\ UNCHANGED <<moving, machine, timer, op, target, joining, entered>>

Resumed(a) ==
  /\ pc[a] = "resume"
  /\ status' = lastStatus
  /\ Return(a)
  /\ UNCHANGED <<moving, current, lastStatus, timer, op, target, joining, entered>>

\* CallState: an event whose handler tries opcode o; all others change nothing.
Event(o) ==
  /\ status = "running"
  /\ Does(Context, "event", "perform")
  /\ op' = [op EXCEPT ![Context] = o]
  /\ UNCHANGED <<moving, machine, timer, target, joining, entered>>

\* The timer ticks and HandleStateTimeOut calls HandleTimeout of the current state.
Tick(t) ==
  /\ registered = t
  /\ IF current \in moving
       THEN \E o \in TimeoutOps : op' = [op EXCEPT ![t] = o] /\ Does(t, "timeout", "perform")
       ELSE Does(t, "timeout", "report") /\ UNCHANGED op
  /\ UNCHANGED <<moving, machine, timer, target, joining, entered>>

\* Mutant: the tick stops the timer, as it does with autoReset.
MutAutoReset(t) ==
  /\ pc[t] = "report" /\ owner = None
  /\ Return(t)
  /\ UNCHANGED <<moving, machine, timer, op, target, joining, entered>>

Reported(t) ==
  /\ pc[t] = "report"
  /\ Return(t)
  /\ UNCHANGED <<moving, machine, timer, op, target, joining, entered>>
-----------------------------------------------------------------------------
(* PerformTransition, called by the handler of an event or a timeout, or   *)
(* by the state that was just entered.                                     *)

\* SwitchToNextState is over; a state with a timeout starts the timer.
Entered(a) ==
  IF current \in Timed THEN Goto(a, "restart") /\ UNCHANGED job ELSE Return(a)

\* FindTransition on the current state.
Find(a) ==
  /\ pc[a] \in {"perform", "performEntered"}
  /\ op' = [op EXCEPT ![a] = None]
  /\ LET next == {s \in States : <<current, op[a], s>> \in Transitions} IN
     \/ /\ next = {}
        /\ IF pc[a] = "perform" THEN Return(a) ELSE Entered(a)
        /\ UNCHANGED target
     \/ \E s \in next :
          /\ target' = [target EXCEPT ![a] = s]
          /\ Goto(a, IF pc[a] = "perform" THEN "commit" ELSE "commitEntered")
          /\ UNCHANGED job
  /\ UNCHANGED <<moving, machine, timer, joining, entered>>

\* Mutant: the timer of the state that is left goes on.
MutNoStop(a) ==
  /\ pc[a] \in {"commit", "commitEntered"}
  /\ current' = target[a]
  /\ target' = [target EXCEPT ![a] = None]
  /\ IF pc[a] = "commit" THEN Goto(a, "enter")
     ELSE Goto(a, IF status = "finished" THEN "switched" ELSE "enter")
  /\ UNCHANGED <<moving, status, lastStatus, timer, job, op, joining, entered>>

\* Mutant: SwitchToNextState has no loop.
MutNoLoop(a) ==
  /\ pc[a] \in {"commit", "commitEntered"}
  /\ current' = target[a]
  /\ target' = [target EXCEPT ![a] = None]
  /\ Goto(a, IF pc[a] = "commit" THEN "stop" ELSE "switched")
  /\ UNCHANGED <<moving, status, lastStatus, timer, job, op, joining, entered>>

\* HandleExitState and the assignment of nCurrentState.
Commit(a) ==
  /\ pc[a] \in {"commit", "commitEntered"}
  /\ current' = target[a]
  /\ target' = [target EXCEPT ![a] = None]
  /\ IF pc[a] = "commit" THEN Goto(a, "stop")
     ELSE Goto(a, IF status = "finished" THEN "switched" ELSE "enter")
  /\ UNCHANGED <<moving, status, lastStatus, timer, job, op, joining, entered>>

\* One round of SwitchToNextState: the status of an end state, then HandleEnteredState,
\* which may try a transition.
Enter(a) ==
  /\ pc[a] = "enter"
  /\ status' = IF current \in EndStates THEN "finished" ELSE status
  /\ entered' = current
  /\ \/ /\ Entered(a)
        /\ UNCHANGED op
     \/ \E o \in EnterOps :
          /\ op' = [op EXCEPT ![a] = o]
          /\ Goto(a, "performEntered")
          /\ UNCHANGED job
  /\ UNCHANGED <<moving, current, lastStatus, timer, target, joining>>

\* An end state moved on: OnSwitchingState is called, HandleEnteredState is not.
Switched(a) ==
  /\ pc[a] = "switched"
  /\ Entered(a)
  /\ UNCHANGED <<moving, machine, timer, op, target, joining, entered>>
-----------------------------------------------------------------------------
(* timer::stop and timer::start.                                           *)

\* Where an actor goes on after stop.
AfterStop(a) ==
  IF pc[a] \in {"restart", "restarting"} THEN "start"
  ELSE CASE job[a] = "reset" -> "reset"
         [] job[a] = "pause" -> "pause"
         [] OTHER -> "enter"

\* stop takes the mutex.  A timer that runs is unregistered; if a tick of another
\* thread may be under way, the mutex is kept while waiting for it.
Stop(a) ==
  /\ pc[a] \in {"stop", "restart"}
  /\ owner = None
  /\ registered' = None /\ timerOf' = None
  /\ overtaken' = IF job[a] = "pause" THEN \E t \in Threads : t # registered /\ ~Idle(t) ELSE overtaken
  /\ IF registered \in {None, a}
       THEN /\ Goto(a, AfterStop(a))
            /\ UNCHANGED <<owner, joining>>
       ELSE /\ owner' = a
            /\ joining' = [joining EXCEPT ![a] = registered]
            /\ Goto(a, IF pc[a] = "stop" THEN "stopping" ELSE "restarting")
  /\ UNCHANGED <<moving, machine, job, op, target, entered>>

\* Mutant: unregistering does not wait for the tick.
MutNoSync(a) ==
  /\ pc[a] \in {"stopping", "restarting"}
  /\ owner' = None
  /\ joining' = [joining EXCEPT ![a] = None]
  /\ Goto(a, AfterStop(a))
  /\ UNCHANGED <<moving, machine, registered, timerOf, overtaken, job, op, target, entered>>

\* sync has returned, the dispatcher of the timer is gone with its thread.
Stopped(a) ==
  /\ pc[a] \in {"stopping", "restarting"}
  /\ pc[joining[a]] = "idle"
  /\ owner' = None
  /\ joining' = [joining EXCEPT ![a] = None]
  /\ Goto(a, AfterStop(a))
  /\ UNCHANGED <<moving, machine, registered, timerOf, overtaken, job, op, target, entered>>

\* The rest of start; a timer that somebody else started meanwhile is left alone.
StartTimer(a) ==
  /\ pc[a] = "start"
  /\ owner = None
  /\ IF registered = None
       THEN /\ \E t \in Threads \ {a} : pc[t] = "idle" /\ registered' = t
            /\ timerOf' = current
       ELSE UNCHANGED <<registered, timerOf>>
  /\ IF job[a] = "resume" THEN Goto(a, "resume") /\ UNCHANGED job ELSE Return(a)
  /\ UNCHANGED <<moving, machine, owner, overtaken, op, target, joining, entered>>
-----------------------------------------------------------------------------
Step(a) ==
  \/ ResetRun(a) \/ Paused(a) \/ Resumed(a) \/ Find(a) \/ Commit(a) \/ Enter(a) \/ Switched(a)
  \/ Stop(a) \/ Stopped(a) \/ StartTimer(a)

TimerStep(t) == Tick(t) \/ Reported(t)

Next ==
  \/ Reset \/ Pause \/ Resume \/ \E o \in EventOps : Event(o)
  \/ \E a \in Actors : Step(a)
  \/ \E t \in Threads : TimerStep(t)

Spec == Init /\ [][Next]_vars

\* Threads that can run do run and time passes; nobody has to post jobs.
FairSpec ==
  /\ Spec
  /\ \A a \in Actors : WF_vars(Step(a))
  /\ \A t \in Threads : WF_vars(TimerStep(t))
-----------------------------------------------------------------------------
TypeOK ==
  /\ moving \in Movings
  /\ current \in States /\ status \in Statuses /\ lastStatus \in Statuses
  /\ registered \in Threads \cup {None} /\ owner \in Actors \cup {None}
  /\ timerOf \in States \cup {None}
  /\ pc \in [Actors -> {"idle", "reset", "pause", "resume", "report", "perform", "performEntered",
                        "commit", "commitEntered", "enter", "switched", "stop", "stopping",
                        "restart", "restarting", "start"}]
  /\ job \in [Actors -> JobNames \cup {None}]
  /\ op \in [Actors -> Ops \cup {None}]
  /\ target \in [Actors -> States \cup {None}]
  /\ joining \in [Actors -> Threads \cup {None}]
  /\ entered \in States \cup {None} /\ raced \in BOOLEAN /\ overtaken \in BOOLEAN

\* While the machine is paused no timeout is handled and none will come, unless Pause
\* overtook a tick that had stopped the timer itself and starts the next one.
PausedIsQuiet ==
  (status = "paused" /\ job[Context] # "resume" /\ ~overtaken) =>
    registered = None /\ \A t \in Threads : Idle(t)

\* As long as no timeout moved the machine during a job: between jobs and ticks the timer
\* that runs is the one of the current state, and a state with a timeout has one unless
\* the machine is paused or was not started.
TimerMatchesState ==
  (~raced /\ \A a \in Actors : pc[a] \in {"idle", "report"}) =>
    IF status \in {"running", "finished"} /\ current \in Timed
      THEN registered # None /\ timerOf = current
      ELSE registered = None

\* Every state the machine moves to is entered, whoever moved it.
EveryMoveIsEntered == (entered # current /\ status = "running") ~>
                      (entered = current \/ status # "running")

\* Every state the machine moves to is entered, by events or timeouts, unless they race.
MoveIsEntered == (entered # current /\ status = "running") ~>
                 (entered = current \/ status # "running" \/ raced)

\* Every job of the context ends, unless it races with a timeout.
JobsEnd == ~Idle(Context) ~> Idle(Context) \/ raced
=============================================================================
