-------------------------- MODULE StateMachineProofs --------------------------
(***************************************************************************)
(* Proofs about the state machine, for any graph, any handlers and any     *)
(* number of timer threads.                                                *)
(*                                                                         *)
(* InAnyCase holds whatever races: it says what an actor may be doing, and *)
(* that a Pause which did not overtake a tick leaves nobody at work.       *)
(* Order holds until a timeout moves the machine during a job: one actor   *)
(* moves at a time, from stop to start no timer is registered and no tick  *)
(* is running, and what the places of a job know about status and timer.   *)
(***************************************************************************)
EXTENDS StateMachine, TLAPS

\* No timer is registered and no tick is running.
Quiet == registered = None /\ \A t \in Threads : Idle(t)

\* What an actor does and where it may be with it.
Doing(a) ==
  /\ pc[a] = "idle" <=> job[a] = None
  /\ pc[a] = "reset" => job[a] = "reset"
  /\ pc[a] = "pause" => job[a] = "pause"
  /\ pc[a] = "resume" => job[a] = "resume"
  /\ job[a] = "resume" => pc[a] \in {"restart", "restarting", "start", "resume"}
  /\ job[a] = "pause" => pc[a] \in {"stop", "stopping", "pause"}
  /\ pc[a] = "report" => a # Context
  /\ a # Context => job[a] \in {None, "timeout"}
  /\ a = Context => job[a] # "timeout"
  /\ pc[a] \in {"commit", "commitEntered"} => target[a] \in States
  /\ pc[a] \in {"stopping", "restarting"} => owner = a

\* The thread of a running timer has not come past its own stop.
BeforeStop == {"idle", "report", "perform", "commit", "stop"}

RegisteredPlace == \A t \in Threads : registered = t => pc[t] \in BeforeStop

\* From stop on Pause is alone, or waits for the one tick that may be under way.
Pausing ==
  /\ lastStatus # "paused"
  /\ job[Context] = "pause" => status # "paused"
  /\ status = "paused" =>
       \/ job[Context] \in {None, "resume"}
       \/ job[Context] = "reset" /\ pc[Context] \in {"stop", "stopping", "reset"}
  /\ status = "paused" /\ job[Context] # "resume" /\ ~overtaken => Quiet /\ pc[Context] # "stopping"
  /\ pc[Context] = "pause" /\ ~overtaken => Quiet
  /\ job[Context] = "pause" /\ pc[Context] = "stopping" /\ ~overtaken =>
       /\ registered = None
       /\ \A t \in Threads : Idle(t) \/ (t = joining[Context] /\ pc[t] \in BeforeStop)

InAnyCase == TypeOK /\ (\A a \in Actors : Doing(a)) /\ RegisteredPlace /\ Pausing
-----------------------------------------------------------------------------
\* The context and the timer threads are different actors.
LEMMA ActorFacts ==
  /\ Context \in Actors /\ Threads \subseteq Actors /\ Context \notin Threads
  /\ \A a \in Actors : a # Context => a \in Threads
  /\ None \notin Actors /\ None \notin States /\ None \notin JobNames
BY MachineAssumption DEF Actors

\* The variables keep their types, whatever the actors do.
LEMMA TypeKept ==
  ASSUME InAnyCase, [Next]_vars
  PROVE  TypeOK'
<1>1. TypeOK /\ First \in States
  BY MachineAssumption DEF InAnyCase
<1>2. CASE Reset
  BY <1>1, <1>2, ActorFacts DEF Reset, Does, Goto, TypeOK, machine, timer, JobNames
<1>3. CASE Pause
  BY <1>1, <1>3, ActorFacts DEF Pause, Does, Goto, TypeOK, machine, timer, JobNames
<1>4. CASE Resume
  BY <1>1, <1>4, ActorFacts DEF Resume, Does, Goto, TypeOK, machine, timer, JobNames
<1>5. ASSUME NEW o \in EventOps, Event(o) PROVE TypeOK'
  BY <1>1, <1>5, ActorFacts DEF Event, Does, Goto, TypeOK, machine, timer, JobNames, Ops
<1>6. ASSUME NEW t \in Threads, Tick(t) PROVE TypeOK'
  <2>1. t \in Actors
    BY ActorFacts
  <2>2. CASE current \in moving
    <3>1. PICK o \in TimeoutOps : op' = [op EXCEPT ![t] = o] /\ Does(t, "timeout", "perform")
      BY <1>6, <2>2 DEF Tick
    <3>2. UNCHANGED <<moving, machine, timer, target, joining, entered>>
      BY <1>6 DEF Tick
    <3> QED  BY <1>1, <2>1, <3>1, <3>2 DEF Does, Goto, TypeOK, machine, timer, JobNames, Ops
  <2>3. CASE current \notin moving
    BY <1>1, <1>6, <2>1, <2>3 DEF Tick, Does, Goto, TypeOK, machine, timer, JobNames
  <2> QED  BY <2>2, <2>3
<1>7. ASSUME NEW t \in Threads, Reported(t) PROVE TypeOK'
  BY <1>1, <1>7, ActorFacts DEF Reported, Return, Goto, TypeOK, machine, timer
<1>8. ASSUME NEW a \in Actors, ResetRun(a) PROVE TypeOK'
  BY <1>1, <1>8 DEF ResetRun, Goto, TypeOK, timer, Statuses
<1>9. ASSUME NEW a \in Actors, Paused(a) PROVE TypeOK'
  BY <1>1, <1>9 DEF Paused, Return, Goto, TypeOK, timer, Statuses
<1>10. ASSUME NEW a \in Actors, Resumed(a) PROVE TypeOK'
  BY <1>1, <1>10 DEF Resumed, Return, Goto, TypeOK, timer
<1>11. ASSUME NEW a \in Actors, Find(a) PROVE TypeOK'
  <2>1. op' \in [Actors -> Ops \cup {None}]
    BY <1>1, <1>11 DEF Find, TypeOK
  <2>2. target' \in [Actors -> States \cup {None}]
    BY <1>1, <1>11 DEF Find, TypeOK
  <2>3. UNCHANGED <<moving, current, status, lastStatus, registered, owner, timerOf, overtaken, joining, entered>>
    BY <1>11 DEF Find, machine, timer
  <2>4. pc' \in [Actors -> {"idle", "reset", "pause", "resume", "report", "perform", "performEntered",
                        "commit", "commitEntered", "enter", "switched", "stop", "stopping",
                        "restart", "restarting", "start"}]
    BY <1>1, <1>11 DEF Find, Entered, Return, Goto, TypeOK
  <2>5. job' \in [Actors -> JobNames \cup {None}]
    BY <1>1, <1>11 DEF Find, Entered, Return, Goto, TypeOK
  <2>6. raced' \in BOOLEAN
    BY <1>11 DEF Find, Entered, Return, Goto
  <2> QED  BY <1>1, <2>1, <2>2, <2>3, <2>4, <2>5, <2>6 DEF TypeOK
<1>12. ASSUME NEW a \in Actors, Commit(a) PROVE TypeOK'
  <2>1. target[a] \in States
    BY <1>12 DEF Commit, InAnyCase, Doing
  <2> QED  BY <1>1, <1>12, <2>1 DEF Commit, Goto, TypeOK, timer
<1>13. ASSUME NEW a \in Actors, Enter(a) PROVE TypeOK'
  BY <1>1, <1>13 DEF Enter, Entered, Return, Goto, TypeOK, timer, Statuses, Ops
<1>14. ASSUME NEW a \in Actors, Switched(a) PROVE TypeOK'
  BY <1>1, <1>14 DEF Switched, Entered, Return, Goto, TypeOK, machine, timer
<1>15. ASSUME NEW a \in Actors, Stop(a) PROVE TypeOK'
  BY <1>1, <1>15 DEF Stop, AfterStop, Goto, TypeOK, machine
<1>16. ASSUME NEW a \in Actors, Stopped(a) PROVE TypeOK'
  BY <1>1, <1>16 DEF Stopped, AfterStop, Goto, TypeOK, machine
<1>17. ASSUME NEW a \in Actors, StartTimer(a) PROVE TypeOK'
  BY <1>1, <1>17 DEF StartTimer, Return, Goto, TypeOK, machine
<1>18. CASE UNCHANGED vars
  BY <1>1, <1>18 DEF TypeOK, vars, machine, timer, locals
<1> QED  BY <1>2, <1>3, <1>4, <1>5, <1>6, <1>7, <1>8, <1>9, <1>10, <1>11, <1>12, <1>13, <1>14, <1>15, <1>16, <1>17,
            <1>18 DEF Next, Step, TimerStep
-----------------------------------------------------------------------------
\* Only a moves in this step.
Only(a) ==
  \A b \in Actors : b # a =>
    pc'[b] = pc[b] /\ job'[b] = job[b] /\ target'[b] = target[b] /\ joining'[b] = joining[b]

\* A step of an actor leaves the others where they are.
LEMMA StepOnly ==
  ASSUME TypeOK, NEW a \in Actors, Step(a)
  PROVE  Only(a)
<1>1. CASE ResetRun(a)
  BY <1>1 DEF ResetRun, Goto, Only, TypeOK
<1>2. CASE Paused(a) \/ Resumed(a)
  BY <1>2 DEF Paused, Resumed, Return, Goto, Only, TypeOK
<1>3. CASE Find(a)
  BY <1>3 DEF Find, Entered, Return, Goto, Only, TypeOK
<1>4. CASE Commit(a)
  BY <1>4 DEF Commit, Goto, Only, TypeOK
<1>5. CASE Enter(a)
  BY <1>5 DEF Enter, Entered, Return, Goto, Only, TypeOK
<1>6. CASE Switched(a)
  BY <1>6 DEF Switched, Entered, Return, Goto, Only, TypeOK
<1>7. CASE Stop(a)
  BY <1>7 DEF Stop, Goto, Only, TypeOK
<1>8. CASE Stopped(a)
  BY <1>8 DEF Stopped, Goto, Only, TypeOK
<1>9. CASE StartTimer(a)
  BY <1>9 DEF StartTimer, Return, Goto, Only, TypeOK
<1> QED  BY <1>1, <1>2, <1>3, <1>4, <1>5, <1>6, <1>7, <1>8, <1>9 DEF Step

\* A tick leaves the others where they are.
LEMMA TickOnly ==
  ASSUME TypeOK, NEW t \in Threads, TimerStep(t)
  PROVE  Only(t)
<1>1. CASE Tick(t)
  BY <1>1, ActorFacts DEF Tick, Does, Goto, Only, TypeOK
<1>2. CASE Reported(t)
  BY <1>2, ActorFacts DEF Reported, Return, Goto, Only, TypeOK
<1> QED  BY <1>1, <1>2 DEF TimerStep

\* Where a step of an actor leads, with which job.
LEMMA StepPlaces ==
  ASSUME InAnyCase, NEW a \in Actors, Step(a)
  PROVE  \/ pc[a] = "reset" /\ pc'[a] = "enter" /\ job'[a] = job[a]
         \/ pc[a] \in {"pause", "resume"} /\ pc'[a] = "idle" /\ job'[a] = None
         \/ /\ pc[a] \in {"perform", "performEntered", "commit", "commitEntered", "enter", "switched"}
            /\ \/ pc'[a] = "idle" /\ job'[a] = None
               \/ /\ pc'[a] \in {"commit", "commitEntered", "performEntered", "enter", "switched", "restart", "stop"}
                  /\ job'[a] = job[a]
         \/ pc[a] = "stop" /\ pc'[a] \in {"stopping", AfterStop(a)} /\ job'[a] = job[a]
         \/ pc[a] = "restart" /\ pc'[a] \in {"restarting", "start"} /\ job'[a] = job[a]
         \/ pc[a] = "stopping" /\ pc'[a] = AfterStop(a) /\ job'[a] = job[a]
         \/ pc[a] = "restarting" /\ pc'[a] = "start" /\ job'[a] = job[a]
         \/ pc[a] = "start" /\ job[a] = "resume" /\ pc'[a] = "resume" /\ job'[a] = job[a]
         \/ pc[a] = "start" /\ job[a] # "resume" /\ pc'[a] = "idle" /\ job'[a] = None
<1> USE DEF InAnyCase
<1>1. CASE ResetRun(a)
  BY <1>1 DEF ResetRun, Goto, TypeOK
<1>2. CASE Paused(a) \/ Resumed(a)
  BY <1>2 DEF Paused, Resumed, Return, Goto, TypeOK
<1>3. CASE Find(a)
  BY <1>3 DEF Find, Entered, Return, Goto, TypeOK
<1>4. CASE Commit(a)
  BY <1>4 DEF Commit, Goto, TypeOK
<1>5. CASE Enter(a)
  BY <1>5 DEF Enter, Entered, Return, Goto, TypeOK
<1>6. CASE Switched(a)
  BY <1>6 DEF Switched, Entered, Return, Goto, TypeOK
<1>7. CASE Stop(a)
  BY <1>7 DEF Stop, AfterStop, Goto, TypeOK
<1>8. CASE Stopped(a)
  BY <1>8 DEF Stopped, AfterStop, Goto, TypeOK
<1>9. CASE StartTimer(a)
  BY <1>9 DEF StartTimer, Return, Goto, TypeOK
<1> QED  BY <1>1, <1>2, <1>3, <1>4, <1>5, <1>6, <1>7, <1>8, <1>9 DEF Step

\* The timer's mutex is taken when it is free and given back by who has it.
LEMMA StepOwner ==
  ASSUME TypeOK, NEW a \in Actors, Step(a)
  PROVE  /\ owner' = owner \/ owner = None \/ pc[a] \in {"stopping", "restarting"}
         /\ pc'[a] \in {"stopping", "restarting"} => owner' = a
         /\ pc'[a] \in {"commit", "commitEntered"} => target'[a] \in States
<1>1. CASE ResetRun(a) \/ Paused(a) \/ Resumed(a)
  BY <1>1 DEF ResetRun, Paused, Resumed, Return, Goto, TypeOK, timer
<1>2. CASE Find(a)
  <2>1. owner' = owner /\ pc'[a] \notin {"stopping", "restarting"}
    BY <1>2 DEF Find, Entered, Return, Goto, TypeOK, timer
  <2>2. pc'[a] \in {"commit", "commitEntered"} => target'[a] \in States
    BY <1>2 DEF Find, Entered, Return, Goto, TypeOK
  <2> QED  BY <2>1, <2>2
<1>3. CASE Commit(a)
  BY <1>3 DEF Commit, Goto, TypeOK, timer
<1>4. CASE Enter(a)
  BY <1>4 DEF Enter, Entered, Return, Goto, TypeOK, timer
<1>5. CASE Switched(a)
  BY <1>5 DEF Switched, Entered, Return, Goto, TypeOK, timer
<1>6. CASE Stop(a)
  BY <1>6 DEF Stop, AfterStop, Goto, TypeOK
<1>7. CASE Stopped(a)
  BY <1>7 DEF Stopped, AfterStop, Goto, TypeOK
<1>8. CASE StartTimer(a)
  BY <1>8 DEF StartTimer, Return, Goto, TypeOK
<1> QED  BY <1>1, <1>2, <1>3, <1>4, <1>5, <1>6, <1>7, <1>8 DEF Step

\* Jobs and places keep fitting together.
LEMMA DoingKept ==
  ASSUME InAnyCase, [Next]_vars
  PROVE  \A a \in Actors : Doing(a)'
<1>1. TypeOK /\ \A a \in Actors : Doing(a)
  BY DEF InAnyCase
<1>2. ASSUME NEW a \in Actors, Only(a), Doing(a)', owner' = owner \/ owner \in {None, a}
      PROVE  \A b \in Actors : Doing(b)'
  <2>1. ASSUME NEW b \in Actors, b # a PROVE Doing(b)'
    <3>1. Doing(b) /\ pc'[b] = pc[b] /\ job'[b] = job[b] /\ target'[b] = target[b] /\ b # None
      BY <1>1, <1>2, <2>1, ActorFacts DEF Only
    <3> QED  BY <1>2, <2>1, <3>1 DEF Doing
  <2> QED  BY <1>2, <2>1
<1>3. ASSUME NEW a \in Actors, Step(a) PROVE \A b \in Actors : Doing(b)'
  <2>1. Doing(a) /\ Only(a) /\ (a = Context \/ a \in Threads)
    BY <1>1, <1>3, StepOnly, ActorFacts
  <2>2. /\ owner' = owner \/ owner = None \/ pc[a] \in {"stopping", "restarting"}
        /\ pc'[a] \in {"stopping", "restarting"} => owner' = a
        /\ pc'[a] \in {"commit", "commitEntered"} => target'[a] \in States
    BY <1>1, <1>3, StepOwner
  <2>3. owner' = owner \/ owner \in {None, a}
    BY <2>1, <2>2 DEF Doing
  <2>4. job[a] # "reset" /\ job[a] # "pause" => AfterStop(a) \in {"start", "enter"}
    BY DEF AfterStop
  <2>5. pc[a] \in {"stop", "stopping"} =>
          \/ job[a] = "reset" /\ AfterStop(a) = "reset"
          \/ job[a] = "pause" /\ AfterStop(a) = "pause"
          \/ job[a] \notin {"reset", "pause"} /\ AfterStop(a) = "enter"
    BY DEF AfterStop
  <2>6. Doing(a)'
    BY <1>3, <2>1, <2>2, <2>5, StepPlaces, ActorFacts DEF Doing, JobNames
  <2> QED  BY <1>2, <2>1, <2>3, <2>6
<1>4. ASSUME NEW t \in Threads, TimerStep(t) PROVE \A b \in Actors : Doing(b)'
  <2>1. t \in Actors /\ t # Context /\ Only(t) /\ Doing(t)
    BY <1>1, <1>4, TickOnly, ActorFacts
  <2>2. owner' = owner
    BY <1>4 DEF TimerStep, Tick, Reported, timer
  <2>3. \/ pc'[t] = "idle" /\ job'[t] = None
        \/ pc'[t] \in {"perform", "report"} /\ job'[t] = "timeout"
    BY <1>1, <1>4, <2>1 DEF TimerStep, Tick, Reported, Does, Return, Goto, TypeOK
  <2>4. Doing(t)'
    BY <2>1, <2>2, <2>3, ActorFacts DEF Doing, JobNames
  <2> QED  BY <1>2, <2>1, <2>2, <2>4
<1>5. ASSUME Reset \/ Pause \/ Resume \/ \E o \in EventOps : Event(o) PROVE \A b \in Actors : Doing(b)'
  <2>1. Context \in Actors /\ Doing(Context)
    BY <1>1, ActorFacts
  <2>2. owner' = owner
    BY <1>5 DEF Reset, Pause, Resume, Event, timer
  <2>3. Only(Context)
    BY <1>1, <1>5, <2>1 DEF Reset, Pause, Resume, Event, Does, Goto, Only, TypeOK
  <2>4. \/ job'[Context] = "reset" /\ pc'[Context] \in {"reset", "stop"}
        \/ job'[Context] = "pause" /\ pc'[Context] = "stop"
        \/ job'[Context] = "resume" /\ pc'[Context] \in {"restart", "resume"}
        \/ job'[Context] = "event" /\ pc'[Context] = "perform"
    BY <1>1, <1>5, <2>1 DEF Reset, Pause, Resume, Event, Does, Goto, TypeOK
  <2>5. Doing(Context)'
    BY <2>1, <2>4, ActorFacts DEF Doing, JobNames
  <2> QED  BY <1>2, <2>1, <2>2, <2>3, <2>5
<1>6. CASE UNCHANGED vars
  BY <1>1, <1>6 DEF vars, machine, timer, locals, Doing
<1> QED  BY <1>3, <1>4, <1>5, <1>6 DEF Next

\* A timer is started on an idle thread, and its tick stops it before it goes on.
LEMMA RegisteredKept ==
  ASSUME InAnyCase, [Next]_vars
  PROVE  RegisteredPlace'
<1>1. TypeOK /\ RegisteredPlace
  BY DEF InAnyCase
<1>2. ASSUME NEW a \in Actors, Only(a), registered' \in {registered, None},
             a \in Threads /\ registered' = a => pc'[a] \in BeforeStop
      PROVE  RegisteredPlace'
  BY <1>1, <1>2, ActorFacts DEF RegisteredPlace, Only
<1>3. ASSUME NEW a \in Actors, Step(a) PROVE RegisteredPlace'
  <2>1. Only(a)
    BY <1>1, <1>3, StepOnly
  <2>2. CASE Stop(a)
    BY <1>2, <2>1, <2>2, ActorFacts DEF Stop
  <2>3. CASE StartTimer(a)
    <3>1. \/ registered' = registered /\ registered # None
          \/ \E t \in Threads \ {a} : pc[t] = "idle" /\ registered' = t
      BY <2>3 DEF StartTimer
    <3>2. a \in Threads => registered # a
      BY <1>1, <2>3 DEF StartTimer, RegisteredPlace, BeforeStop
    <3> QED  BY <1>1, <2>1, <3>1, <3>2, ActorFacts DEF RegisteredPlace, Only, BeforeStop
  <2>4. CASE Stopped(a)
    <3>1. registered' = registered /\ pc[a] \in {"stopping", "restarting"}
      BY <2>4 DEF Stopped
    <3>2. a \in Threads => registered # a
      BY <1>1, <3>1 DEF RegisteredPlace, BeforeStop
    <3> QED  BY <1>2, <2>1, <3>1, <3>2
  <2>5. CASE ResetRun(a) \/ Paused(a) \/ Resumed(a) \/ Find(a) \/ Commit(a) \/ Enter(a) \/ Switched(a)
    <3>1. registered' = registered
      BY <2>5 DEF ResetRun, Paused, Resumed, Find, Commit, Enter, Switched, timer
    <3>2. \/ pc[a] = "perform" /\ pc'[a] \in {"idle", "commit"}
          \/ pc[a] = "commit" /\ pc'[a] = "stop"
          \/ pc[a] \notin BeforeStop
      BY <1>1, <2>5 DEF ResetRun, Paused, Resumed, Find, Commit, Enter, Switched, Return, Goto, TypeOK, BeforeStop
    <3> QED  BY <1>1, <1>2, <2>1, <3>1, <3>2 DEF RegisteredPlace, BeforeStop
  <2> QED  BY <1>3, <2>2, <2>3, <2>4, <2>5 DEF Step
<1>4. ASSUME NEW t \in Threads, TimerStep(t) PROVE RegisteredPlace'
  <2>1. t \in Actors /\ Only(t)
    BY <1>1, <1>4, TickOnly, ActorFacts
  <2>2. registered' = registered
    BY <1>4 DEF TimerStep, Tick, Reported, timer
  <2>3. pc'[t] \in {"idle", "perform", "report"}
    BY <1>1, <1>4, <2>1 DEF TimerStep, Tick, Reported, Does, Return, Goto, TypeOK
  <2> QED  BY <1>2, <2>1, <2>2, <2>3 DEF BeforeStop
<1>5. ASSUME Reset \/ Pause \/ Resume \/ \E o \in EventOps : Event(o) PROVE RegisteredPlace'
  <2>1. registered' = registered
    BY <1>5 DEF Reset, Pause, Resume, Event, timer
  <2>2. Only(Context)
    BY <1>1, <1>5, ActorFacts DEF Reset, Pause, Resume, Event, Does, Goto, Only, TypeOK
  <2> QED  BY <1>2, <2>1, <2>2, ActorFacts
<1>6. CASE UNCHANGED vars
  BY <1>1, <1>6 DEF vars, timer, locals, RegisteredPlace
<1> QED  BY <1>3, <1>4, <1>5, <1>6 DEF Next

\* A thread disturbs no Pause: it has nothing to do once Pause is over, and while Pause
\* waits for its tick it cannot come past stop.
LEMMA ThreadPausing ==
  ASSUME InAnyCase, NEW t \in Threads, Only(t), status' \in {status, "finished"}, ~Idle(t) \/ registered = t,
         UNCHANGED <<lastStatus, overtaken>>,
         registered = None /\ owner = Context /\ pc[t] \in BeforeStop => registered' = None /\ pc'[t] \in BeforeStop
  PROVE  Pausing'
<1>1. /\ Pausing /\ Doing(Context) /\ t # Context /\ t \in Actors /\ t # None
      /\ \A u \in Threads : u \in Actors /\ (u # t => pc'[u] = pc[u])
      /\ pc'[Context] = pc[Context] /\ job'[Context] = job[Context] /\ joining'[Context] = joining[Context]
  BY ActorFacts DEF InAnyCase, Only
<1>2. ~Quiet
  BY <1>1 DEF Quiet, Idle
<1>3. ASSUME job[Context] = "pause", pc[Context] = "stopping", ~overtaken
      PROVE  registered' = None /\ \A u \in Threads : Idle(u)' \/ (u = joining'[Context] /\ pc'[u] \in BeforeStop)
  <2>1. registered = None /\ owner = Context /\ t = joining[Context] /\ pc[t] \in BeforeStop
    BY <1>1, <1>3 DEF Pausing, Doing
  <2> QED  BY <1>1, <1>3, <2>1 DEF Pausing, Idle
<1> QED  BY <1>1, <1>2, <1>3 DEF Pausing

\* The context disturbs no Pause either, until it resumes or resets the machine.
LEMMA PausingKept ==
  ASSUME InAnyCase, [Next]_vars
  PROVE  Pausing'
<1>1. TypeOK /\ Pausing /\ RegisteredPlace /\ Context \in Actors /\ Context \notin Threads /\ Doing(Context)
  BY ActorFacts DEF InAnyCase
<1>2. ASSUME NEW t \in Threads, Step(t) PROVE Pausing'
  <2>1. t \in Actors /\ Only(t) /\ Doing(t) /\ t # Context
    BY <1>1, <1>2, StepOnly, ActorFacts DEF InAnyCase
  <2>2. job[t] \in {None, "timeout"} /\ pc[t] \notin {"reset", "pause", "resume"}
    BY <2>1, ActorFacts DEF Doing, JobNames
  <2>3. status' \in {status, "finished"} /\ UNCHANGED <<lastStatus, overtaken>>
    BY <1>2, <2>2, ActorFacts DEF Step, ResetRun, Paused, Resumed, Find, Commit, Enter, Switched, Stop, Stopped,
      StartTimer, machine, timer, JobNames
  <2>4. ~Idle(t)
    BY <1>2 DEF Step, ResetRun, Paused, Resumed, Find, Commit, Enter, Switched, Stop, Stopped, StartTimer, Idle
  <2>5. ASSUME registered = None, owner = Context, pc[t] \in BeforeStop
        PROVE  registered' = None /\ pc'[t] \in BeforeStop
    <3>1. Find(t) \/ Commit(t)
      BY <1>1, <1>2, <2>5, ActorFacts DEF Step, ResetRun, Paused, Resumed, Enter, Switched, Stop, Stopped, StartTimer, BeforeStop
    <3>2. registered' = registered
      BY <3>1 DEF Find, Commit, timer
    <3>3. pc'[t] \in {"idle", "commit", "stop"}
      BY <1>1, <2>1, <2>5, <3>1 DEF Find, Commit, Return, Goto, TypeOK, BeforeStop
    <3> QED  BY <2>5, <3>2, <3>3 DEF BeforeStop
  <2> QED  BY <2>1, <2>3, <2>4, <2>5, ThreadPausing
<1>3. ASSUME NEW t \in Threads, TimerStep(t) PROVE Pausing'
  <2>1. Only(t) /\ t \in Actors
    BY <1>1, <1>3, TickOnly, ActorFacts
  <2>2. UNCHANGED <<status, lastStatus, overtaken, registered>> /\ (~Idle(t) \/ registered = t)
    BY <1>3 DEF TimerStep, Tick, Reported, machine, timer, Idle
  <2>3. pc'[t] \in BeforeStop
    BY <1>1, <1>3, <2>1 DEF TimerStep, Tick, Reported, Does, Return, Goto, TypeOK, BeforeStop
  <2> QED  BY <2>1, <2>2, <2>3, ThreadPausing
<1>4. ASSUME Only(Context), UNCHANGED registered PROVE Quiet' <=> Quiet
  BY <1>1, <1>4, ActorFacts DEF Only, Quiet, Idle
<1>5. ASSUME Reset \/ Pause \/ Resume \/ \E o \in EventOps : Event(o) PROVE Pausing'
  <2>1. Only(Context)
    BY <1>1, <1>5 DEF Reset, Pause, Resume, Event, Does, Goto, Only, TypeOK
  <2>2. UNCHANGED <<status, lastStatus, overtaken, registered>> /\ job[Context] = None
    BY <1>1, <1>5 DEF Reset, Pause, Resume, Event, Does, machine, timer, Doing
  <2>3. \/ job'[Context] = "reset" /\ pc'[Context] \in {"reset", "stop"} /\ (status = "paused" => pc'[Context] = "stop")
        \/ job'[Context] = "pause" /\ pc'[Context] = "stop" /\ status # "paused"
        \/ job'[Context] = "resume" /\ pc'[Context] \in {"restart", "resume"}
        \/ job'[Context] = "event" /\ pc'[Context] = "perform" /\ status # "paused"
    BY <1>1, <1>5 DEF Reset, Pause, Resume, Event, Does, Goto, TypeOK
  <2>4. None # "resume"
    BY ActorFacts DEF JobNames
  <2>5. status = "paused" /\ ~overtaken => Quiet
    BY <1>1, <2>2, <2>4 DEF Pausing
  <2> QED  BY <1>1, <1>4, <2>1, <2>2, <2>3, <2>5 DEF Pausing
<1>6. ASSUME Step(Context) PROVE Pausing'
  <2>1. Only(Context) /\ None \notin {"resume", "reset", "pause"}
    BY <1>1, <1>6, StepOnly, ActorFacts DEF JobNames
  <2>2. CASE ResetRun(Context)
    BY <1>1, <2>1, <2>2 DEF ResetRun, Goto, TypeOK, Pausing, Doing, timer
  <2>3. CASE Paused(Context)
    BY <1>1, <1>4, <2>1, <2>3 DEF Paused, Return, Goto, TypeOK, Pausing, Doing, timer
  <2>4. CASE Resumed(Context)
    BY <1>1, <2>1, <2>4 DEF Resumed, Return, Goto, TypeOK, Pausing, Doing, timer
  <2>5. CASE Find(Context) \/ Commit(Context) \/ Enter(Context) \/ Switched(Context)
    <3>1. pc[Context] \in {"perform", "performEntered", "commit", "commitEntered", "enter", "switched"}
      BY <2>5 DEF Find, Commit, Enter, Switched
    <3>2. status # "paused" /\ job[Context] # "pause"
      BY <1>1, <2>1, <3>1 DEF Pausing, Doing
    <3>3. status' # "paused" /\ lastStatus' = lastStatus
      BY <2>5, <3>2 DEF Find, Commit, Enter, Switched, machine
    <3>4. job'[Context] \in {job[Context], None} /\ pc'[Context] # "pause"
      BY <1>1, <1>6, <3>1, StepPlaces
    <3> QED  BY <1>1, <2>1, <3>2, <3>3, <3>4 DEF Pausing
  <2>6. CASE Stop(Context)
    <3>1. /\ UNCHANGED <<status, lastStatus>> /\ registered' = None /\ job' = job
          /\ pc[Context] \in {"stop", "restart"}
          /\ job[Context] # "pause" => overtaken' = overtaken
      BY <2>6 DEF Stop, machine
    <3>2. \A t \in Threads : pc'[t] = pc[t] /\ (Idle(t)' <=> Idle(t))
      BY <2>1, ActorFacts DEF Only, Idle
    <3>3. CASE job[Context] = "pause"
      <4>1. pc[Context] = "stop" /\ status # "paused"
        BY <1>1, <3>1, <3>3 DEF Doing, Pausing
      <4>2. ~overtaken' => \A t \in Threads : t = registered \/ Idle(t)
        BY <2>6, <3>3 DEF Stop
      <4>3. CASE registered \in {None, Context}
        <5>1. pc'[Context] = "pause"
          BY <1>1, <2>6, <3>3, <4>1, <4>3 DEF Stop, AfterStop, Goto, TypeOK
        <5>2. ~overtaken' => Quiet'
          BY <3>1, <3>2, <4>2, <4>3, ActorFacts DEF Quiet
        <5> QED  BY <1>1, <3>1, <3>3, <4>1, <5>1, <5>2 DEF Pausing
      <4>4. CASE registered \notin {None, Context}
        <5>1. pc'[Context] = "stopping" /\ joining'[Context] = registered
          BY <1>1, <2>6, <4>1, <4>4 DEF Stop, Goto, TypeOK
        <5>2. ~overtaken' => \A t \in Threads : Idle(t)' \/ (t = joining'[Context] /\ pc'[t] \in BeforeStop)
          BY <1>1, <3>2, <4>2, <5>1 DEF RegisteredPlace
        <5> QED  BY <1>1, <3>1, <3>3, <4>1, <5>1, <5>2 DEF Pausing
      <4> QED  BY <4>3, <4>4
    <3>4. CASE job[Context] # "pause"
      <4>1. pc'[Context] # "pause"
        BY <1>1, <1>6, <3>1, <3>4, StepPlaces DEF AfterStop
      <4>2. CASE status # "paused"
        BY <1>1, <3>1, <3>4, <4>1, <4>2 DEF Pausing
      <4>3. CASE status = "paused" /\ job[Context] = "reset"
        <5>1. pc[Context] = "stop" /\ pc'[Context] \in {"stopping", "reset"}
          BY <1>1, <1>6, <2>1, <3>1, <4>3, StepPlaces DEF Pausing, AfterStop
        <5>2. ~overtaken => Quiet /\ Quiet' /\ pc'[Context] = "reset"
          <6>1. SUFFICES ASSUME ~overtaken PROVE Quiet /\ Quiet' /\ pc'[Context] = "reset"
            OBVIOUS
          <6>2. Quiet
            BY <1>1, <4>3, <6>1 DEF Pausing
          <6>3. Quiet'
            BY <3>1, <3>2, <6>2 DEF Quiet
          <6>4. pc'[Context] = "reset"
            BY <1>1, <2>6, <4>3, <5>1, <6>2 DEF Stop, AfterStop, Goto, TypeOK, Quiet
          <6> QED  BY <6>2, <6>3, <6>4
        <5> QED  BY <1>1, <3>1, <3>4, <4>3, <5>1, <5>2 DEF Pausing
      <4>4. CASE status = "paused" /\ job[Context] = "resume"
        BY <1>1, <3>1, <3>4, <4>1, <4>4 DEF Pausing
      <4>5. job[Context] # None
        BY <1>1, <3>1 DEF Doing
      <4> QED  BY <1>1, <4>2, <4>3, <4>4, <4>5 DEF Pausing
    <3> QED  BY <3>3, <3>4
  <2>7. CASE Stopped(Context)
    <3>1. /\ UNCHANGED <<status, lastStatus, registered, overtaken>> /\ job' = job
          /\ pc[Context] \in {"stopping", "restarting"} /\ pc[joining[Context]] = "idle"
      BY <2>7 DEF Stopped, machine
    <3>2. pc'[Context] = AfterStop(Context)
      BY <1>1, <2>7 DEF Stopped, Goto, TypeOK
    <3>3. CASE job[Context] = "pause"
      <4>1. pc[Context] = "stopping" /\ status # "paused" /\ pc'[Context] = "pause"
        BY <1>1, <3>1, <3>2, <3>3 DEF Doing, Pausing, AfterStop
      <4>2. ~overtaken => Quiet
        BY <1>1, <3>1, <3>3, <4>1 DEF Pausing, Quiet, Idle
      <4> QED  BY <1>1, <1>4, <2>1, <3>1, <3>3, <4>1, <4>2 DEF Pausing
    <3>4. CASE job[Context] # "pause"
      <4>1. pc'[Context] \notin {"pause", "stopping"}
        BY <1>1, <3>2, <3>4 DEF AfterStop
      <4>2. job[Context] # None
        BY <1>1, <3>1 DEF Doing
      <4>3. status = "paused" /\ job[Context] = "reset" => pc'[Context] = "reset"
        BY <1>1, <2>1, <3>1, <3>2 DEF AfterStop, Pausing
      <4> QED  BY <1>1, <1>4, <2>1, <3>1, <3>4, <4>1, <4>2, <4>3 DEF Pausing
    <3> QED  BY <3>3, <3>4
  <2>8. CASE StartTimer(Context)
    <3>1. UNCHANGED <<status, lastStatus, overtaken>> /\ pc[Context] = "start"
      BY <2>8 DEF StartTimer, machine
    <3>2. /\ job[Context] # "pause" /\ (status = "paused" => job[Context] = "resume")
      BY <1>1, <2>1, <3>1 DEF Doing, Pausing
    <3>3. \/ job[Context] = "resume" /\ pc'[Context] = "resume" /\ job'[Context] = "resume"
          \/ job[Context] # "resume" /\ pc'[Context] = "idle" /\ job'[Context] = None
      BY <1>1, <2>8 DEF StartTimer, Return, Goto, TypeOK
    <3> QED  BY <1>1, <2>1, <3>1, <3>2, <3>3 DEF Pausing
  <2> QED  BY <1>6, <2>2, <2>3, <2>4, <2>5, <2>6, <2>7, <2>8 DEF Step
<1>7. CASE UNCHANGED vars
  BY <1>1, <1>7 DEF vars, machine, timer, locals, Pausing, Quiet, Idle
<1> QED  BY <1>2, <1>3, <1>5, <1>6, <1>7, ActorFacts DEF Next

\* What holds in any case is kept by every step.
LEMMA AnyStep ==
  ASSUME InAnyCase, [Next]_vars
  PROVE  InAnyCase'
BY TypeKept, DoingKept, RegisteredKept, PausingKept DEF InAnyCase
-----------------------------------------------------------------------------
(* As long as no timeout moves the machine during a job of the context.    *)

\* Where a tick leaves the machine and its timer alone.
AtRest == {"idle", "report", "perform"}

Mover(a) == IF a = Context THEN ~Idle(a) ELSE Switching(a)

\* Between stop and start.
Between == {"reset", "pause", "enter", "performEntered", "commitEntered", "switched",
            "restart", "start", "stopping"}

\* The running timer is the one of the current state.
Fits == IF current \in Timed THEN registered # None /\ timerOf = current ELSE registered = None

Matches == IF status \in {"running", "finished"} THEN Fits ELSE registered = None

OneMover == \A a, b \in Actors : Mover(a) /\ Mover(b) => a = b

\* What an actor knows about the timer.
Local(a) ==
  /\ pc[a] = "resume" => Fits
  /\ job[a] = "reset" => pc[a] \notin {"perform", "commit"}
  /\ pc[a] \in {"restart", "start"} => current \in Timed
  /\ pc[a] # "restarting"
  /\ pc[a] = "stopping" => a = Context
  /\ pc[a] \in Between => registered = None

\* A thread is at work only as the registered one, between stop and start, or while
\* somebody waits for it.
ThreadPlace(t) ==
  \/ Idle(t)
  \/ registered = t /\ pc[t] \in BeforeStop
  \/ pc[t] \in Between \ {"stopping"}
  \/ pc[t] \in {"report", "perform"} /\ pc[Context] = "stopping" /\ joining[Context] = t

TimerInv == (\A a \in Actors : pc[a] \in AtRest \cup {"commit"}) => Matches

StatusInv ==
  /\ status = "paused" =>
       /\ lastStatus \in {"running", "finished"}
       /\ job[Context] = "reset" => pc[Context] \in {"stop", "reset"}
       /\ pc[Context] # "resume" => Quiet
  /\ status = "not started" => Quiet /\ pc[Context] \in {"idle", "reset"}
  /\ job[Context] = "resume" => status = "paused"
  /\ job[Context] = "pause" => status \in {"running", "finished"}

Order ==
  /\ OneMover /\ (\A a \in Actors : Local(a)) /\ (\A t \in Threads : ThreadPlace(t))
  /\ TimerInv /\ StatusInv

\* A step during which nothing races.
CalmStep == InAnyCase /\ Order /\ InAnyCase' /\ ~Overlaps'

\* A timer thread moves a machine that runs, and the context is idle.
LEMMA ThreadMoves ==
  ASSUME InAnyCase, Order, NEW t \in Threads, Switching(t)
  PROVE  /\ pc[Context] = "idle" /\ job[Context] = None
         /\ status \in {"running", "finished"} /\ job[t] = "timeout" /\ Mover(t)
<1>1. pc[t] # "idle" /\ t \in Actors /\ t # Context /\ Context \in Actors /\ Doing(t) /\ Doing(Context) /\ Mover(t)
  BY ActorFacts DEF Switching, InAnyCase, Mover
<1>2. pc[Context] = "idle"
  BY <1>1 DEF Order, OneMover, Mover, Idle
<1>3. job[Context] = None /\ job[t] = "timeout"
  BY <1>1, <1>2 DEF Doing
<1>4. status \notin {"paused", "not started"}
  BY <1>1, <1>2 DEF Order, StatusInv, Quiet, Idle
<1> QED  BY <1>1, <1>2, <1>3, <1>4 DEF InAnyCase, TypeOK, Statuses

\* While somebody moves, the others are at rest, on the timer he has not stopped yet.
LEMMA OthersStill ==
  ASSUME InAnyCase, Order, NEW a \in Actors, Mover(a)
  PROVE  /\ \A b \in Actors : b # a => ~Mover(b) /\ pc[b] \in AtRest
         /\ registered \in {None, a} /\ pc[a] # "stopping" => \A t \in Threads : t # a => pc[t] = "idle"
<1>1. \A b \in Actors : b # a => ~Mover(b) /\ pc[b] \in AtRest
  BY DEF Order, OneMover, Mover, Switching, Idle, AtRest
<1>2. ASSUME registered \in {None, a}, pc[a] # "stopping", NEW t \in Threads, t # a PROVE pc[t] = "idle"
  <2>1. pc[t] \in AtRest /\ ThreadPlace(t) /\ Context \in Actors /\ t # None /\ t \in Actors
    BY <1>1, <1>2, ActorFacts DEF Order
  <2>2. pc[Context] # "stopping"
    BY <1>1, <1>2, ActorFacts DEF AtRest
  <2> QED  BY <1>2, <2>1, <2>2 DEF ThreadPlace, AtRest, Between, Idle
<1> QED  BY <1>1, <1>2

\* A step of the one who moves disturbs nobody else's place.
LEMMA MoverStep ==
  ASSUME CalmStep, NEW a \in Actors, Mover(a), Only(a), Local(a)'
  PROVE  OneMover' /\ \A b \in Actors : Local(b)'
<1>1. \A b \in Actors : b # a => ~Mover(b) /\ pc[b] \in AtRest /\ pc'[b] = pc[b] /\ job'[b] = job[b]
  BY OthersStill DEF CalmStep, Only
<1>2. OneMover'
  BY <1>1 DEF OneMover, Mover, Switching, Idle
<1>3. ASSUME NEW b \in Actors, b # a PROVE Local(b)'
  <2>1. pc'[b] \in AtRest /\ (b = Context => pc'[b] = "idle") /\ Doing(b)'
    BY <1>1, <1>3 DEF CalmStep, InAnyCase, Mover, Idle
  <2>2. job'[b] = "reset" => pc'[b] = "idle"
    BY <2>1, ActorFacts DEF Doing, JobNames
  <2> QED  BY <2>1, <2>2 DEF Local, AtRest, Between
<1> QED  BY <1>2, <1>3

\* The timer is left alone, or the other threads are idle.
LEMMA ThreadsKept ==
  ASSUME InAnyCase, Order, NEW a \in Actors, Only(a), a \in Threads => ThreadPlace(a)',
         \/ registered' = registered /\ (a = Context => pc[Context] # "stopping" /\ pc'[Context] # "stopping")
         \/ \A t \in Threads : t # a => pc[t] = "idle"
  PROVE  \A t \in Threads : ThreadPlace(t)'
<1> SUFFICES ASSUME NEW t \in Threads, t # a PROVE ThreadPlace(t)'
  OBVIOUS
<1>1. ThreadPlace(t) /\ pc'[t] = pc[t] /\ Context \in Actors /\ t \in Actors
  BY ActorFacts DEF Order, Only
<1>2. CASE pc[t] = "idle"
  BY <1>1, <1>2 DEF ThreadPlace, Idle
<1>3. CASE registered' = registered /\ (a = Context => pc[Context] # "stopping" /\ pc'[Context] # "stopping")
  <2>1. pc[Context] = "stopping" => pc'[Context] = pc[Context] /\ joining'[Context] = joining[Context]
    BY <1>1, <1>3 DEF Only
  <2> QED  BY <1>1, <1>3, <2>1 DEF ThreadPlace, Idle
<1> QED  BY <1>2, <1>3

\* A step of the one actor that moves the machine: what has to be shown of it alone.
LEMMA MoverKeeps ==
  ASSUME CalmStep, NEW a \in Actors, Mover(a), Only(a), Local(a)', a \in Threads => ThreadPlace(a)',
         \/ registered' = registered /\ (a = Context => pc[Context] # "stopping" /\ pc'[Context] # "stopping")
         \/ \A t \in Threads : t # a => pc[t] = "idle",
         TimerInv', StatusInv'
  PROVE  Order'
<1>1. OneMover' /\ \A b \in Actors : Local(b)'
  BY MoverStep
<1>2. \A t \in Threads : ThreadPlace(t)'
  BY ThreadsKept DEF CalmStep
<1> QED  BY <1>1, <1>2 DEF Order

\* A thread that moves the machine leaves a status that fits the idle context.
LEMMA ThreadStatus ==
  ASSUME InAnyCase, Order, NEW t \in Threads, Switching(t), Only(t), status' \in {"running", "finished"}
  PROVE  StatusInv'
<1>1. job'[Context] = None
  BY ThreadMoves, ActorFacts DEF Only
<1> QED  BY <1>1, ActorFacts DEF StatusInv, JobNames
-----------------------------------------------------------------------------
(* The actions, one by one.                                                *)

\* The context begins a job while no tick moves the machine.
LEMMA JobBegins ==
  ASSUME CalmStep, pc[Context] = "idle", NEW where, where \notin {"idle", "stopping"},
         pc'[Context] = where, Only(Context),
         UNCHANGED <<current, status, registered, timerOf>>, Local(Context)', StatusInv'
  PROVE  Order'
<1>1. /\ Context \in Actors /\ Context \notin Threads
      /\ \A t \in Threads : t \in Actors /\ t # Context /\ pc'[t] = pc[t]
  BY ActorFacts DEF Only
<1>2. \A t \in Threads : pc[t] \in AtRest /\ ~Mover(t)'
  BY <1>1 DEF CalmStep, Overlaps, Switching, Mover, AtRest
<1>3. OneMover'
  BY <1>2, ActorFacts DEF OneMover
<1>4. ASSUME NEW b \in Actors PROVE Local(b)'
  <2>1. CASE b \in Threads
    <3>1. pc'[b] \in AtRest /\ job'[b] # "reset"
      BY <1>1, <1>2, <2>1, ActorFacts DEF CalmStep, InAnyCase, Doing, JobNames
    <3> QED  BY <3>1 DEF Local, AtRest, Between
  <2> QED  BY <2>1, ActorFacts
<1>5. \A t \in Threads : ThreadPlace(t)'
  BY <1>1, ThreadsKept DEF CalmStep
<1>6. TimerInv'
  <2>1. \A a \in Actors : pc[a] \in AtRest \cup {"commit"}
    BY <1>2, ActorFacts DEF AtRest
  <2> QED  BY <2>1 DEF CalmStep, Order, TimerInv, Matches, Fits
<1> QED  BY <1>3, <1>4, <1>5, <1>6 DEF Order

\* InitializeResetRun, Pause, Resume and an event begin.
LEMMA JobKeeps ==
  ASSUME CalmStep, Reset \/ Pause \/ Resume \/ \E o \in EventOps : Event(o)
  PROVE  Order'
<1>1. TypeOK /\ Context \in Actors /\ StatusInv
  BY ActorFacts DEF CalmStep, InAnyCase, Order
<1>2. /\ pc[Context] = "idle" /\ UNCHANGED <<current, status, lastStatus, registered, timerOf>>
  BY DEF Reset, Pause, Resume, Event, Does, machine, timer
<1>3. Only(Context)
  BY <1>1 DEF Reset, Pause, Resume, Event, Does, Goto, Only, TypeOK
<1>4. \/ job'[Context] = "reset" /\ pc'[Context] = (IF status = "not started" THEN "reset" ELSE "stop")
      \/ job'[Context] = "pause" /\ pc'[Context] = "stop" /\ status \notin {"paused", "not started"}
      \/ /\ job'[Context] = "resume" /\ pc'[Context] = (IF current \in Timed THEN "restart" ELSE "resume")
         /\ status = "paused"
      \/ job'[Context] = "event" /\ pc'[Context] = "perform" /\ status = "running"
  BY <1>1 DEF Reset, Pause, Resume, Event, Does, Goto, TypeOK
<1>5. Quiet' <=> Quiet
  BY <1>2, <1>3, ActorFacts DEF Quiet, Idle, Only
<1>6. status \in {"paused", "not started"} => Quiet /\ registered = None
  BY <1>1, <1>2 DEF StatusInv, Quiet
<1>7. Local(Context)'
  BY <1>2, <1>4, <1>6, ActorFacts DEF Local, Fits, Between
<1>8. StatusInv'
  BY <1>1, <1>2, <1>4, <1>5, <1>6 DEF StatusInv, TypeOK, Statuses
<1>9. pc'[Context] \notin {"idle", "stopping"}
  BY <1>4
<1> QED  BY <1>2, <1>3, <1>7, <1>8, <1>9, JobBegins

\* A thread begins or ends a tick without touching the machine.
LEMMA RestKeeps ==
  ASSUME CalmStep, NEW t \in Threads, Only(t), pc[t] \in AtRest, pc'[t] \in AtRest,
         UNCHANGED <<current, status, lastStatus, registered, timerOf>>,
         pc'[t] = "idle" \/ registered = t
  PROVE  Order'
<1>1. /\ t \in Actors /\ t # Context /\ Context \in Actors /\ t # None
      /\ pc'[Context] = pc[Context] /\ job'[Context] = job[Context] /\ joining'[Context] = joining[Context]
  BY ActorFacts DEF Only
<1>2. \A b \in Actors : Mover(b)' <=> Mover(b)
  BY <1>1 DEF Mover, Switching, Idle, Only, AtRest
<1>3. OneMover'
  BY <1>2 DEF CalmStep, Order, OneMover
<1>4. ASSUME NEW b \in Actors PROVE Local(b)'
  <2>1. CASE b = t
    <3>1. job'[t] # "reset"
      BY <1>1, ActorFacts DEF CalmStep, InAnyCase, Doing, JobNames
    <3> QED  BY <2>1, <3>1 DEF Local, AtRest, Between
  <2>2. CASE b # t
    BY <2>2 DEF CalmStep, Order, Local, Fits, Only
  <2> QED  BY <2>1, <2>2
<1>5. ThreadPlace(t)'
  BY DEF ThreadPlace, Idle, BeforeStop, AtRest
<1>6. \A u \in Threads : ThreadPlace(u)'
  BY <1>1, <1>5, ThreadsKept DEF CalmStep
<1>7. TimerInv'
  <2>1. SUFFICES ASSUME \A a \in Actors : pc'[a] \in AtRest \cup {"commit"} PROVE Matches
    BY DEF TimerInv, Matches, Fits
  <2>2. \A a \in Actors : pc[a] \in AtRest \cup {"commit"}
    BY <2>1 DEF Only
  <2> QED  BY <2>2 DEF CalmStep, Order, TimerInv
<1>8. StatusInv'
  <2>1. Quiet => Quiet'
    BY <1>1, ActorFacts DEF Quiet, Idle, Only
  <2> QED  BY <1>1, <2>1 DEF CalmStep, Order, StatusInv
<1> QED  BY <1>3, <1>4, <1>6, <1>7, <1>8 DEF Order

\* The timer ticks, and a tick that only reports the timeout ends.
LEMMA TickKeeps ==
  ASSUME CalmStep, NEW t \in Threads, TimerStep(t)
  PROVE  Order'
<1>1. Only(t) /\ t \in Actors
  BY TickOnly, ActorFacts DEF CalmStep, InAnyCase
<1>2. UNCHANGED <<current, status, lastStatus, registered, timerOf>>
  BY DEF TimerStep, Tick, Reported, machine, timer
<1>3. pc[t] \in AtRest /\ pc'[t] \in AtRest /\ (pc'[t] = "idle" \/ registered = t)
  BY <1>1 DEF TimerStep, Tick, Reported, Does, Return, Goto, CalmStep, InAnyCase, TypeOK, AtRest
<1> QED  BY <1>1, <1>2, <1>3, RestKeeps

\* A tick finds a transition: the context is idle, and it is the tick of the running timer.
LEMMA ThreadFinds ==
  ASSUME CalmStep, NEW t \in Threads, Find(t), pc[t] = "perform"
  PROVE  Order'
<1>1. Only(t) /\ t \in Actors /\ t # Context /\ t # None /\ Context \in Actors
  BY StepOnly, ActorFacts DEF CalmStep, InAnyCase, Step
<1>2. UNCHANGED <<current, status, lastStatus, registered, timerOf>>
  BY DEF Find, machine, timer
<1>3. pc'[t] \in {"idle", "commit"}
  BY <1>1 DEF Find, Return, Goto, CalmStep, InAnyCase, TypeOK
<1>4. CASE pc'[t] = "idle"
  BY <1>1, <1>2, <1>4, RestKeeps DEF AtRest
<1>5. CASE pc'[t] = "commit"
  <2>1. pc'[Context] = "idle" /\ pc[Context] = "idle" /\ job'[Context] = None
    BY <1>1, <1>5 DEF CalmStep, Overlaps, Switching, Only, InAnyCase, Doing
  <2>2. registered = t
    BY <1>1, <2>1 DEF CalmStep, Order, ThreadPlace, Idle, Between
  <2>3. ASSUME NEW u \in Threads, u # t PROVE ~Switching(u)
    <3>1. Local(u) /\ ThreadPlace(u) /\ u \in Actors
      BY <2>3, ActorFacts DEF CalmStep, Order
    <3> QED  BY <1>1, <2>1, <2>2, <2>3, <3>1 DEF ThreadPlace, Local, Switching, Idle
  <2>4. OneMover'
    BY <1>1, <2>1, <2>3, ActorFacts DEF OneMover, Mover, Switching, Idle, Only
  <2>5. ASSUME NEW b \in Actors PROVE Local(b)'
    <3>1. CASE b = t
      <4>1. job'[t] # "reset"
        BY <1>1, ActorFacts DEF CalmStep, InAnyCase, Doing, JobNames
      <4> QED  BY <1>5, <3>1, <4>1 DEF Local, Between
    <3>2. CASE b # t
      BY <1>1, <1>2, <3>2 DEF CalmStep, Order, Local, Fits, Only
    <3> QED  BY <3>1, <3>2
  <2>6. \A u \in Threads : ThreadPlace(u)'
    <3>1. ThreadPlace(t)'
      BY <1>2, <1>5, <2>2 DEF ThreadPlace, BeforeStop
    <3> QED  BY <1>1, <1>2, <3>1, ThreadsKept DEF CalmStep
  <2>7. TimerInv'
    <3>1. \A a \in Actors : pc[a] \in AtRest \cup {"commit"}
      BY <2>1, <2>3, ActorFacts DEF AtRest, Switching
    <3> QED  BY <1>2, <3>1 DEF CalmStep, Order, TimerInv, Matches, Fits
  <2>8. StatusInv'
    <3>1. status \notin {"paused", "not started"}
      BY <1>1, <2>1, <2>2 DEF CalmStep, Order, StatusInv, Quiet
    <3> QED  BY <1>2, <2>1, <3>1, ActorFacts DEF StatusInv, JobNames
  <2> QED  BY <2>4, <2>5, <2>6, <2>7, <2>8 DEF Order
<1> QED  BY <1>3, <1>4, <1>5

\* Transitions are performed while the machine runs.
Performing == {"perform", "performEntered", "commit", "commitEntered", "enter", "switched"}

\* Who performs a transition does it on a machine that runs or has finished.
LEMMA PerformingRuns ==
  ASSUME InAnyCase, Order, NEW a \in Actors, Mover(a), pc[a] \in Performing
  PROVE  /\ status \in {"running", "finished"} /\ job[Context] \notin {"resume", "pause"}
         /\ job[a] \notin {"resume", "pause", None}
         /\ pc[a] # "stopping"
<1>1. pc[a] # "stopping" /\ Doing(a) /\ TypeOK /\ Pausing /\ StatusInv
  BY DEF Performing, InAnyCase, Order
<1>2. job[a] \notin {"resume", "pause", None}
  BY <1>1 DEF Doing, Performing
<1>3. CASE a = Context
  BY <1>1, <1>2, <1>3 DEF Pausing, StatusInv, Performing, TypeOK, Statuses
<1>4. CASE a # Context
  <2>1. a \in Threads /\ Switching(a)
    BY <1>4, ActorFacts DEF Mover
  <2>2. status \in {"running", "finished"} /\ job[Context] = None
    BY <2>1, ThreadMoves
  <2> QED  BY <1>1, <1>2, <2>2, ActorFacts DEF JobNames
<1> QED  BY <1>3, <1>4

\* A transition leaves a status that fits the jobs of the context.
LEMMA StatusKept ==
  ASSUME InAnyCase, Order, NEW a \in Actors, Mover(a), pc[a] \in Performing, Only(a), job'[a] \in {job[a], None},
         status' \in {"running", "finished"}
  PROVE  StatusInv'
<1>1. job[Context] \notin {"resume", "pause"} /\ Context \in Actors
  BY PerformingRuns, ActorFacts
<1>2. job'[Context] \notin {"resume", "pause"}
  BY <1>1, ActorFacts DEF Only, JobNames
<1> QED  BY <1>2 DEF StatusInv

\* SwitchToNextState ends without a timer, or goes on to start one.
LEMMA EnteredKeeps ==
  ASSUME CalmStep, NEW a \in Actors, Mover(a), pc[a] \in Performing \ {"perform", "commit"}, Entered(a), Only(a),
         UNCHANGED <<current, registered, timerOf>>, status' \in {"running", "finished"}
  PROVE  Order'
<1>1. pc[a] # "stopping" /\ pc[a] \in Between /\ Local(a)
  BY DEF Performing, Between, CalmStep, Order
<1>2. registered = None /\ registered' = None
  BY <1>1 DEF Local
<1>3. \/ current \in Timed /\ pc'[a] = "restart" /\ job'[a] = job[a]
      \/ current \notin Timed /\ pc'[a] = "idle" /\ job'[a] = None
  BY DEF Entered, Return, Goto, CalmStep, InAnyCase, TypeOK
<1>4. Local(a)'
  BY <1>2, <1>3 DEF Local, Between
<1>5. a \in Threads => ThreadPlace(a)'
  BY <1>3 DEF ThreadPlace, Between, Idle
<1>6. \A t \in Threads : t # a => pc[t] = "idle"
  BY <1>1, <1>2, OthersStill DEF CalmStep
<1>7. TimerInv'
  <2>1. pc'[a] \in AtRest \cup {"commit"} => current' \notin Timed
    BY <1>3 DEF AtRest
  <2> QED  BY <1>2, <2>1 DEF TimerInv, Matches, Fits
<1>8. StatusInv'
  BY <1>3, StatusKept DEF CalmStep
<1> QED  BY <1>4, <1>5, <1>6, <1>7, <1>8, MoverKeeps

\* The same place for another one of the same kind, or the end of a handler.
LEMMA FindKeeps ==
  ASSUME CalmStep, NEW a \in Actors, Find(a)
  PROVE  Order'
<1>1. /\ Only(a) /\ pc[a] \in {"perform", "performEntered"} /\ pc[a] \in Performing /\ pc[a] # "stopping"
      /\ UNCHANGED <<current, status, lastStatus, registered, timerOf>> /\ TypeOK /\ Local(a) /\ InAnyCase /\ Order
  BY StepOnly DEF CalmStep, InAnyCase, Order, Step, Find, Performing, machine, timer
<1>2. CASE a \in Threads /\ pc[a] = "perform"
  BY <1>2, ThreadFinds
<1>3. CASE ~(a \in Threads /\ pc[a] = "perform")
  <2>1. Mover(a)
    BY <1>1, <1>3, ActorFacts DEF Mover, Switching, Idle
  <2>2. status \in {"running", "finished"}
    BY <1>1, <2>1, PerformingRuns
  <2>3. CASE pc[a] = "performEntered" /\ Entered(a)
    BY <1>1, <2>1, <2>2, <2>3, EnteredKeeps
  <2>4. CASE ~(pc[a] = "performEntered" /\ Entered(a))
    <3>1. \/ pc[a] = "perform" /\ pc'[a] = "commit" /\ job'[a] = job[a]
          \/ pc[a] = "performEntered" /\ pc'[a] = "commitEntered" /\ job'[a] = job[a]
          \/ pc[a] = "perform" /\ pc'[a] = "idle" /\ job'[a] = None
      BY <1>1, <2>4 DEF Find, Return, Goto, TypeOK
    <3>2. Local(a)'
      BY <1>1, <3>1, ActorFacts DEF Local, Between, JobNames
    <3>3. a \in Threads => ThreadPlace(a)'
      BY <1>3, <3>1 DEF ThreadPlace, Between, Idle
    <3>4. TimerInv'
      <4>1. SUFFICES ASSUME \A b \in Actors : pc'[b] \in AtRest \cup {"commit"} PROVE Matches
        BY <1>1 DEF TimerInv, Matches, Fits
      <4>2. \A b \in Actors : pc[b] \in AtRest \cup {"commit"}
        BY <1>1, <3>1, <4>1 DEF Only, AtRest
      <4> QED  BY <1>1, <4>2 DEF Order, TimerInv
    <3>5. StatusInv'
      BY <1>1, <2>1, <2>2, <3>1, StatusKept
    <3>6. pc'[a] # "stopping"
      BY <3>1
    <3> QED  BY <1>1, <2>1, <3>2, <3>3, <3>4, <3>5, <3>6, MoverKeeps
  <2> QED  BY <2>3, <2>4
<1> QED  BY <1>2, <1>3

\* Taking over the target as the current state, with the timer stopped or about to be.
LEMMA CommitKeeps ==
  ASSUME CalmStep, NEW a \in Actors, Commit(a)
  PROVE  Order'
<1>1. /\ Only(a) /\ pc[a] \in {"commit", "commitEntered"} /\ pc[a] \in Performing /\ pc[a] # "stopping"
      /\ UNCHANGED <<status, lastStatus, registered, timerOf, job>> /\ TypeOK /\ Local(a) /\ InAnyCase /\ Order
  BY StepOnly DEF CalmStep, InAnyCase, Order, Step, Commit, Performing, timer
<1>2. Mover(a)
  BY <1>1 DEF Mover, Switching, Idle
<1>3. \/ pc[a] = "commit" /\ pc'[a] = "stop"
      \/ pc[a] = "commitEntered" /\ pc'[a] \in {"switched", "enter"}
  BY <1>1 DEF Commit, Goto, TypeOK
<1>4. Local(a)'
  BY <1>1, <1>3 DEF Local, Between
<1>5. a \in Threads => ThreadPlace(a)'
  BY <1>1, <1>3 DEF Order, ThreadPlace, Between, BeforeStop, Idle
<1>6. TimerInv'
  BY <1>3 DEF TimerInv, AtRest
<1>7. StatusInv'
  BY <1>1, <1>2, PerformingRuns, StatusKept
<1>8. pc'[a] # "stopping"
  BY <1>3
<1> QED  BY <1>1, <1>2, <1>4, <1>5, <1>6, <1>7, <1>8, MoverKeeps

\* Entering a state, which may be an end state.
LEMMA EnterKeeps ==
  ASSUME CalmStep, NEW a \in Actors, Enter(a)
  PROVE  Order'
<1>1. /\ Only(a) /\ pc[a] = "enter" /\ pc[a] \in Performing /\ pc[a] # "stopping" /\ Mover(a)
      /\ UNCHANGED <<current, registered, timerOf>> /\ TypeOK /\ Local(a) /\ InAnyCase /\ Order
      /\ status' = IF current \in EndStates THEN "finished" ELSE status
  BY StepOnly DEF CalmStep, InAnyCase, Order, Step, Enter, Performing, timer, Mover, Switching, Idle
<1>2. status' \in {"running", "finished"} /\ registered = None
  BY <1>1, PerformingRuns DEF Local, Between
<1>3. CASE Entered(a)
  BY <1>1, <1>2, <1>3, EnteredKeeps
<1>4. CASE Goto(a, "performEntered") /\ UNCHANGED job
  <2>1. job'[a] = job[a] /\ pc'[a] = "performEntered"
    BY <1>1, <1>4 DEF Goto, TypeOK
  <2>2. Local(a)'
    BY <1>1, <1>2, <2>1 DEF Local, Between
  <2>3. ThreadPlace(a)'
    BY <2>1 DEF ThreadPlace, Between
  <2>4. TimerInv'
    BY <2>1 DEF TimerInv, AtRest
  <2>5. StatusInv'
    BY <1>1, <1>2, <2>1, StatusKept
  <2> QED  BY <1>1, <2>1, <2>2, <2>3, <2>4, <2>5, MoverKeeps
<1> QED  BY <1>3, <1>4 DEF Enter

\* SwitchToNextState of an end state that moved on ends.
LEMMA SwitchedKeeps ==
  ASSUME CalmStep, NEW a \in Actors, Switched(a)
  PROVE  Order'
<1>1. /\ Only(a) /\ pc[a] = "switched" /\ pc[a] \in Performing /\ Mover(a)
      /\ UNCHANGED <<current, status, registered, timerOf>> /\ InAnyCase /\ Order /\ Entered(a)
  BY StepOnly DEF CalmStep, InAnyCase, Order, Step, Switched, Performing, machine, timer, Mover, Switching, Idle
<1>2. status' \in {"running", "finished"}
  BY <1>1, PerformingRuns
<1> QED  BY <1>1, <1>2, EnteredKeeps

\* A step of a job that ends in a place of the context only: reset, pause and resume.
LEMMA ContextPlaces ==
  ASSUME InAnyCase, NEW a \in Actors, pc[a] \in {"reset", "pause", "resume"}
  PROVE  a = Context /\ Mover(a) /\ job[a] = pc[a]
<1>1. Doing(a) /\ job[a] = pc[a]
  BY DEF InAnyCase, Doing
<1>2. a = Context
  BY <1>1, ActorFacts DEF Doing, JobNames
<1> QED  BY <1>1, <1>2 DEF Mover, Idle

\* InitializeResetRun starts the machine, without a timer.
LEMMA ResetRunKeeps ==
  ASSUME CalmStep, NEW a \in Actors, ResetRun(a)
  PROVE  Order'
<1>1. /\ Only(a) /\ pc[a] = "reset" /\ status' = "running" /\ UNCHANGED <<registered, timerOf>> /\ TypeOK
      /\ Local(a) /\ InAnyCase /\ Order
  BY StepOnly DEF CalmStep, InAnyCase, Order, Step, ResetRun, timer
<1>2. a = Context /\ Mover(a) /\ job[a] = "reset" /\ registered = None
  BY <1>1, ContextPlaces DEF Local, Between
<1>3. job'[a] = job[a] /\ pc'[a] = "enter"
  BY <1>1 DEF ResetRun, Goto, TypeOK
<1>4. Local(a)'
  BY <1>1, <1>2, <1>3 DEF Local, Between
<1>5. ThreadPlace(a)'
  BY <1>3 DEF ThreadPlace, Between
<1>6. TimerInv'
  BY <1>3 DEF TimerInv, AtRest
<1>7. StatusInv'
  BY <1>1, <1>2, <1>3 DEF StatusInv
<1> QED  BY <1>1, <1>2, <1>3, <1>4, <1>5, <1>6, <1>7, MoverKeeps

\* Pause keeps the status for Resume, after the timer has been stopped.
LEMMA PausedKeeps ==
  ASSUME CalmStep, NEW a \in Actors, Paused(a)
  PROVE  Order'
<1>1. /\ Only(a) /\ pc[a] = "pause" /\ status' = "paused" /\ lastStatus' = status /\ UNCHANGED <<registered, timerOf>>
      /\ TypeOK /\ Local(a) /\ InAnyCase /\ Order
  BY StepOnly DEF CalmStep, InAnyCase, Order, Step, Paused, timer
<1>2. a = Context /\ Mover(a) /\ job[a] = "pause" /\ registered = None
  BY <1>1, ContextPlaces DEF Local, Between
<1>3. job'[a] = None /\ pc'[a] = "idle"
  BY <1>1 DEF Paused, Return, Goto, TypeOK
<1>4. status \in {"running", "finished"}
  BY <1>1, <1>2 DEF Order, StatusInv
<1>5. Local(a)'
  BY <1>3, ActorFacts DEF Local, Between, JobNames
<1>6. ThreadPlace(a)'
  BY <1>3 DEF ThreadPlace, Idle
<1>7. TimerInv'
  BY <1>1, <1>2 DEF TimerInv, Matches
<1>8. Quiet'
  <2>1. \A t \in Threads : t # a => pc[t] = "idle"
    BY <1>1, <1>2, OthersStill
  <2> QED  BY <1>1, <1>2, <2>1, ActorFacts DEF Quiet, Idle, Only
<1>9. StatusInv'
  BY <1>1, <1>2, <1>3, <1>4, <1>8, ActorFacts DEF StatusInv, JobNames
<1> QED  BY <1>1, <1>2, <1>3, <1>5, <1>6, <1>7, <1>9, MoverKeeps

\* Resume restores the status once the timer of the current state runs again.
LEMMA ResumedKeeps ==
  ASSUME CalmStep, NEW a \in Actors, Resumed(a)
  PROVE  Order'
<1>1. /\ Only(a) /\ pc[a] = "resume" /\ status' = lastStatus /\ UNCHANGED <<current, registered, timerOf>>
      /\ TypeOK /\ Local(a) /\ InAnyCase /\ Order
  BY StepOnly DEF CalmStep, InAnyCase, Order, Step, Resumed, timer
<1>2. a = Context /\ Mover(a) /\ job[a] = "resume" /\ Fits
  BY <1>1, ContextPlaces DEF Local
<1>3. job'[a] = None /\ pc'[a] = "idle"
  BY <1>1 DEF Resumed, Return, Goto, TypeOK
<1>4. lastStatus \in {"running", "finished"}
  BY <1>1, <1>2 DEF Order, StatusInv
<1>5. Local(a)'
  BY <1>3, ActorFacts DEF Local, Between, JobNames
<1>6. ThreadPlace(a)'
  BY <1>3 DEF ThreadPlace, Idle
<1>7. TimerInv'
  BY <1>1, <1>2, <1>4 DEF TimerInv, Matches, Fits
<1>8. StatusInv'
  BY <1>1, <1>2, <1>3, <1>4, ActorFacts DEF StatusInv, JobNames
<1> QED  BY <1>1, <1>2, <1>3, <1>5, <1>6, <1>7, <1>8, MoverKeeps

\* After stop no timer is registered, and nobody is in a tick who is not waited for.
LEMMA StopKeeps ==
  ASSUME CalmStep, NEW a \in Actors, Stop(a)
  PROVE  Order'
<1>1. /\ Only(a) /\ pc[a] \in {"stop", "restart"} /\ registered' = None /\ UNCHANGED <<current, status, lastStatus>>
      /\ job'[a] = job[a] /\ TypeOK /\ Local(a) /\ InAnyCase /\ Order /\ Mover(a) /\ pc[a] # "stopping"
  BY StepOnly DEF CalmStep, InAnyCase, Order, Step, Stop, machine, Mover, Switching, Idle
<1>2. a = Context => status # "not started"
  BY <1>1 DEF Order, StatusInv
<1>3. /\ status = "paused" /\ a = Context => Quiet /\ job[a] \in {"reset", "resume"} /\ lastStatus \in {"running", "finished"}
      /\ job[Context] = "resume" => status = "paused"
      /\ job[Context] = "pause" => status \in {"running", "finished"}
  BY <1>1 DEF Order, StatusInv, InAnyCase, Pausing, Doing
<1>4. Quiet => Quiet'
  BY <1>1, ActorFacts DEF Quiet, Idle, Only
<1>5. a # Context => StatusInv'
  <2>1. a # Context => a \in Threads /\ Switching(a)
    BY <1>1, ActorFacts DEF Mover
  <2> QED  BY <1>1, <2>1, ThreadMoves, ThreadStatus
<1>6. CASE registered \in {None, a}
  <2>1. pc'[a] = AfterStop(a)
    BY <1>1, <1>6 DEF Stop, Goto, TypeOK
  <2>2. /\ pc[a] = "restart" => pc'[a] = "start"
        /\ pc[a] = "stop" => \/ job[a] = "reset" /\ pc'[a] = "reset"
                             \/ job[a] = "pause" /\ pc'[a] = "pause"
                             \/ job[a] \notin {"reset", "pause"} /\ pc'[a] = "enter"
    BY <2>1 DEF AfterStop
  <2>3. Local(a)'
    BY <1>1, <2>2 DEF Local, Between
  <2>4. ThreadPlace(a)' /\ pc'[a] \in Between \ {"stopping"}
    BY <1>1, <2>2 DEF ThreadPlace, Between
  <2>5. \A t \in Threads : t # a => pc[t] = "idle"
    BY <1>1, <1>6, OthersStill
  <2>6. TimerInv'
    BY <2>4 DEF TimerInv, AtRest, Between
  <2>7. a = Context => StatusInv'
    <3>1. SUFFICES ASSUME a = Context PROVE StatusInv'
      OBVIOUS
    <3>2. status = "paused" /\ job[a] = "reset" => pc'[a] = "reset"
      BY <1>1, <2>2, <3>1, ActorFacts DEF InAnyCase, Pausing, JobNames
    <3> QED  BY <1>1, <1>2, <1>3, <1>4, <3>1, <3>2 DEF StatusInv
  <2> QED  BY <1>1, <1>5, <2>3, <2>4, <2>5, <2>6, <2>7, MoverKeeps
<1>7. CASE registered \notin {None, a}
  <2>1. pc[a] = "stop"
    BY <1>1, <1>7 DEF Local, Between
  <2>2. a = Context
    <3>1. a \notin Threads
      BY <1>1, <1>7, <2>1 DEF Order, ThreadPlace, Between, Idle
    <3> QED  BY <3>1, ActorFacts
  <2>3. pc'[a] = "stopping" /\ joining'[a] = registered /\ registered \in Threads
    BY <1>1, <1>7, <2>1 DEF Stop, Goto, TypeOK
  <2>4. Local(a)'
    BY <1>1, <2>2, <2>3 DEF Local, Between
  <2>5. \A t \in Threads : ThreadPlace(t)'
    <3>1. SUFFICES ASSUME NEW t \in Threads PROVE ThreadPlace(t)'
      OBVIOUS
    <3>2. pc'[t] = pc[t] /\ pc[t] \in AtRest /\ ThreadPlace(t)
      BY <1>1, <2>2, OthersStill, ActorFacts DEF Only, Order
    <3> QED  BY <1>1, <2>1, <2>2, <2>3, <3>2 DEF ThreadPlace, AtRest, Between, Idle
  <2>6. TimerInv'
    BY <2>3 DEF TimerInv, AtRest
  <2>7. StatusInv'
    <3>1. status \notin {"not started", "paused"}
      BY <1>2, <1>3, <1>7, <2>2 DEF Quiet
    <3> QED  BY <1>1, <1>3, <2>2, <3>1 DEF StatusInv
  <2>8. OneMover' /\ \A b \in Actors : Local(b)'
    BY <1>1, <2>4, MoverStep
  <2> QED  BY <2>5, <2>6, <2>7, <2>8 DEF Order
<1> QED  BY <1>6, <1>7

\* stop returns when the tick that it waited for has ended.
LEMMA StoppedKeeps ==
  ASSUME CalmStep, NEW a \in Actors, Stopped(a)
  PROVE  Order'
<1>1. /\ Only(a) /\ pc[a] \in {"stopping", "restarting"} /\ pc[joining[a]] = "idle"
      /\ UNCHANGED <<current, status, lastStatus, registered, timerOf>>
      /\ job'[a] = job[a] /\ TypeOK /\ Local(a) /\ InAnyCase /\ Order
  BY StepOnly DEF CalmStep, InAnyCase, Order, Step, Stopped, machine
<1>2. pc[a] = "stopping" /\ a = Context /\ registered = None /\ Mover(a)
  BY <1>1 DEF Local, Between, Mover, Idle
<1>3. \/ job[a] = "reset" /\ pc'[a] = "reset"
      \/ job[a] = "pause" /\ pc'[a] = "pause"
      \/ job[a] \notin {"reset", "pause"} /\ pc'[a] = "enter"
  BY <1>1, <1>2 DEF Stopped, AfterStop, Goto, TypeOK
<1>4. Local(a)'
  BY <1>1, <1>2, <1>3 DEF Local, Between
<1>5. ThreadPlace(a)' /\ pc'[a] \in Between \ {"stopping"}
  BY <1>3 DEF ThreadPlace, Between
<1>6. ASSUME NEW t \in Threads, t # a PROVE pc[t] = "idle"
  <2>1. pc[t] \in AtRest /\ ThreadPlace(t) /\ t # None
    BY <1>1, <1>2, <1>6, OthersStill, ActorFacts DEF Order
  <2> QED  BY <1>1, <1>2, <2>1 DEF ThreadPlace, AtRest, Between, Idle
<1>7. TimerInv'
  BY <1>5 DEF TimerInv, AtRest, Between
<1>8. StatusInv'
  <2>1. status \notin {"not started", "paused"}
    <3>1. job[a] # "resume" /\ job[a] # None
      BY <1>1, <1>2 DEF InAnyCase, Doing
    <3> QED  BY <1>1, <1>2, <3>1 DEF Order, StatusInv, InAnyCase, Pausing
  <2> QED  BY <1>1, <1>2, <2>1 DEF Order, StatusInv
<1> QED  BY <1>1, <1>2, <1>4, <1>5, <1>6, <1>7, <1>8, MoverKeeps

\* start finds no timer, and gives the new one the current state.
LEMMA StartKeeps ==
  ASSUME CalmStep, NEW a \in Actors, StartTimer(a)
  PROVE  Order'
<1>1. /\ Only(a) /\ pc[a] = "start" /\ UNCHANGED <<current, status, lastStatus>> /\ TypeOK /\ Local(a)
      /\ InAnyCase /\ Order /\ Mover(a) /\ pc[a] # "stopping"
  BY StepOnly DEF CalmStep, InAnyCase, Order, Step, StartTimer, machine, Mover, Switching, Idle
<1>2. registered = None /\ current \in Timed
  BY <1>1 DEF Local, Between
<1>3. registered' \in Threads /\ timerOf' = current
  BY <1>2 DEF StartTimer
<1>4. Fits' /\ registered' # None
  BY <1>1, <1>2, <1>3, ActorFacts DEF Fits
<1>5. \/ job[a] = "resume" /\ pc'[a] = "resume" /\ job'[a] = job[a]
      \/ job[a] # "resume" /\ pc'[a] = "idle" /\ job'[a] = None
  BY <1>1 DEF StartTimer, Return, Goto, TypeOK
<1>6. Local(a)'
  BY <1>4, <1>5, ActorFacts DEF Local, Between, JobNames
<1>7. \A t \in Threads : t # a => pc[t] = "idle"
  BY <1>1, <1>2, OthersStill
<1>8. a \in Threads => ThreadPlace(a)'
  <2>1. a \in Threads => job[a] # "resume"
    BY <1>1, ActorFacts DEF InAnyCase, Doing, JobNames
  <2> QED  BY <1>5, <2>1 DEF ThreadPlace, Idle
<1>9. job[a] # "resume" => status \in {"running", "finished"}
  <2>1. CASE a = Context /\ job[a] # "resume"
    <3>1. status # "not started" /\ status # "paused"
      BY <1>1, <2>1 DEF Order, StatusInv, InAnyCase, Pausing, Doing
    <3> QED  BY <1>1, <3>1 DEF TypeOK, Statuses
  <2>2. CASE a # Context
    <3>1. a \in Threads /\ Switching(a)
      BY <1>1, <2>2, ActorFacts DEF Mover
    <3> QED  BY <1>1, <3>1, ThreadMoves
  <2> QED  BY <2>1, <2>2
<1>10. TimerInv'
  <2>1. pc'[a] \in AtRest \cup {"commit"} => status' \in {"running", "finished"}
    BY <1>1, <1>5, <1>9 DEF AtRest
  <2> QED  BY <1>4, <2>1 DEF TimerInv, Matches
<1>11. StatusInv'
  <2>1. CASE a = Context /\ job[a] = "resume"
    <3>1. status = "paused" /\ lastStatus \in {"running", "finished"}
      BY <1>1, <2>1 DEF Order, StatusInv
    <3> QED  BY <1>1, <1>5, <2>1, <3>1 DEF StatusInv
  <2>2. CASE a = Context /\ job[a] # "resume"
    BY <1>1, <1>5, <1>9, <2>2, ActorFacts DEF StatusInv, JobNames
  <2>3. CASE a # Context
    <3>1. a \in Threads /\ Switching(a)
      BY <1>1, <2>3, ActorFacts DEF Mover
    <3> QED  BY <1>1, <3>1, ThreadMoves, ThreadStatus
  <2> QED  BY <2>1, <2>2, <2>3
<1> QED  BY <1>1, <1>6, <1>7, <1>8, <1>10, <1>11, MoverKeeps
-----------------------------------------------------------------------------
\* In any case, and in order until a timeout moves the machine during a job.
MachineInv == InAnyCase /\ (~raced => Order)

\* Before the first reset nobody moves and no timer is registered.
LEMMA MachineInit == Init => MachineInv
<1> SUFFICES ASSUME Init PROVE MachineInv
  OBVIOUS
<1>1. TypeOK
  BY MachineAssumption DEF Init, TypeOK, Statuses
<1>2. /\ registered = None /\ status = "not started" /\ lastStatus = "not started" /\ Context \in Actors
      /\ \A a \in Actors : pc[a] = "idle" /\ job[a] = None
  BY ActorFacts DEF Init
<1>3. Quiet
  BY <1>2, ActorFacts DEF Quiet, Idle
<1>4. (\A a \in Actors : Doing(a)) /\ RegisteredPlace /\ Pausing
  BY <1>2, <1>3, ActorFacts DEF Doing, RegisteredPlace, Pausing, BeforeStop, JobNames
<1>5. OneMover /\ (\A a \in Actors : Local(a)) /\ (\A t \in Threads : ThreadPlace(t))
  BY <1>2, ActorFacts DEF OneMover, Mover, Switching, Local, ThreadPlace, Idle, Between, JobNames
<1>6. TimerInv /\ StatusInv
  BY <1>2, <1>3, ActorFacts DEF TimerInv, Matches, StatusInv, JobNames
<1> QED  BY <1>1, <1>4, <1>5, <1>6 DEF MachineInv, InAnyCase, Order

\* The history remembers every overlap.
LEMMA RacesRecorded ==
  ASSUME Next
  PROVE  raced' = (raced \/ Overlaps')
<1>1. ASSUME NEW a \in Actors, Step(a) PROVE raced' = (raced \/ Overlaps')
  BY <1>1 DEF Step, ResetRun, Paused, Resumed, Find, Commit, Enter, Switched, Stop, Stopped, StartTimer, Entered,
    Return, Goto
<1>2. ASSUME NEW t \in Threads, TimerStep(t) PROVE raced' = (raced \/ Overlaps')
  BY <1>2 DEF TimerStep, Tick, Reported, Does, Return, Goto
<1>3. ASSUME Reset \/ Pause \/ Resume \/ \E o \in EventOps : Event(o) PROVE raced' = (raced \/ Overlaps')
  BY <1>3 DEF Reset, Pause, Resume, Event, Does, Goto
<1> QED  BY <1>1, <1>2, <1>3 DEF Next

\* Every step keeps the invariant.
LEMMA MachineStep ==
  ASSUME MachineInv, [Next]_vars
  PROVE  MachineInv'
<1>1. InAnyCase /\ InAnyCase'
  BY AnyStep DEF MachineInv
<1>2. ASSUME Next, ~raced' PROVE Order'
  <2>1. CalmStep
    BY <1>1, <1>2, RacesRecorded DEF MachineInv, CalmStep
  <2>2. ASSUME NEW a \in Actors, Step(a) PROVE Order'
    BY <2>1, <2>2, ResetRunKeeps, PausedKeeps, ResumedKeeps, FindKeeps, CommitKeeps, EnterKeeps, SwitchedKeeps,
       StopKeeps, StoppedKeeps, StartKeeps DEF Step
  <2> QED  BY <1>2, <2>1, <2>2, TickKeeps, JobKeeps DEF Next
<1>3. CASE UNCHANGED vars
  <2>1. raced' = raced /\ (Order => Order')
    BY <1>3 DEF vars, machine, timer, locals, Order, OneMover, Mover, Switching, Idle, Local, ThreadPlace, TimerInv,
                Matches, Fits, StatusInv, Quiet
  <2> QED  BY <1>1, <2>1 DEF MachineInv
<1> QED  BY <1>1, <1>2, <1>3 DEF MachineInv

\* The inductive invariant of the machine, for any graph of states, any handlers, events
\* and timeouts that move it, and any timer threads.
THEOREM MachineInvariant == Spec => []MachineInv
<1>1. ASSUME MachineInv, [Next]_vars PROVE MachineInv'
  BY <1>1, MachineStep
<1> QED  BY <1>1, MachineInit, PTL DEF Spec

\* Every variable of the machine keeps its range, whatever events and timeouts race.
THEOREM TypeCorrect == Spec => []TypeOK
<1>1. MachineInv => TypeOK
  BY DEF MachineInv, InAnyCase
<1> QED  BY <1>1, MachineInvariant, PTL

\* After Pause no timeout is being handled and none will come, until Resume or
\* InitializeResetRun: stop has waited for the tick that was under way.  It takes a tick
\* that had already stopped the timer itself when Pause did to break this.
THEOREM PauseSilences == Spec => []PausedIsQuiet
<1>1. MachineInv => PausedIsQuiet
  BY DEF MachineInv, InAnyCase, Pausing, Quiet, PausedIsQuiet
<1> QED  BY <1>1, MachineInvariant, PTL

\* Between jobs and ticks the state timer that runs is the one of the current state, and a
\* state with a timeout has one unless the machine is paused or was not started, until a
\* timeout moves the machine in the course of a job.
THEOREM TimerFollowsState == Spec => []TimerMatchesState
<1>1. ASSUME MachineInv PROVE TimerMatchesState
  BY <1>1 DEF MachineInv, Order, TimerInv, Matches, Fits, TimerMatchesState, AtRest
<1> QED  BY <1>1, MachineInvariant, PTL
=============================================================================
