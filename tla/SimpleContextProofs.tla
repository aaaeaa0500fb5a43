------------------------- MODULE SimpleContextProofs -------------------------
(***************************************************************************)
(* Proofs about simple_context for every set of actions, syncers and       *)
(* tokens, every interval and invocation count: the worker loses and       *)
(* duplicates no action, dispose leaves no waiter behind, sync flushes the *)
(* queue, idle() is honest, an unregistered timer stays quiet and an       *)
(* exhausted one is never called again.  With the worker's batch and       *)
(* m_actions read as one line, the context implements ActionQueue.         *)
(***************************************************************************)
EXTENDS SimpleContext, SequenceTheorems, TLAPS

\* How the sets of names are nested.
LEMMA JobSets ==
  /\ Actions \subseteq Jobs /\ Callers \subseteq Jobs
  /\ Tokens \subseteq Callers /\ Syncers \subseteq Callers
BY ContextAssumption DEF Jobs, Callers

\* Posting keeps the queue and the worker well typed.
LEMMA AddActionType ==
  ASSUME TypeOK, NEW j \in Jobs, AddAction(j)
  PROVE  WorkOK'
<1> USE DEF TypeOK, WorkOK
<1>1. CASE running
  <2>1. actions' \in Seq(Jobs) /\ pendingActions' \in Seq(Jobs)
    BY <1>1 DEF AddAction, locals
  <2>2. state' \in [Jobs -> JobStates]
    BY <1>1 DEF AddAction, JobStates
  <2>3. pc' \in PcValues /\ current' = current
    BY <1>1 DEF AddAction, locals, NotifiedPc, PcValues
  <2> QED  BY <2>1, <2>2, <2>3
<1>2. CASE ~running
  BY <1>2 DEF AddAction, locals, JobStates
<1> QED  BY <1>1, <1>2

\* The types of all variables are preserved by every step of every thread.
THEOREM TypeCorrect == Spec => []TypeOK
<1>1. Init => TypeOK
  <2>1. Init => FlagsOK  BY DEF Init, FlagsOK
  <2>2. Init => WorkOK  BY DEF Init, WorkOK, JobStates, PcValues
  <2>3. Init => TimersOK  BY ContextAssumption DEF Init, TimersOK
  <2>4. Init => CallsOK  BY DEF Init, CallsOK, CallStates
  <2> QED  BY <2>1, <2>2, <2>3, <2>4 DEF TypeOK
<1>2. TypeOK /\ [Next]_vars => TypeOK'
  <2> SUFFICES ASSUME TypeOK, [Next]_vars PROVE TypeOK'
    OBVIOUS
  <2> USE JobSets DEF TypeOK, members, timerVars, locals, callers
  <2>1. CASE Top
    <3>1. FlagsOK'  BY <2>1 DEF FlagsOK, Top
    <3>2. WorkOK'  BY <2>1 DEF WorkOK, Top, JobStates, PcValues, Final
    <3>3. TimersOK'  BY <2>1 DEF TimersOK, Top
    <3>4. CallsOK'  BY <2>1 DEF CallsOK, Top, CallStates
    <3> QED  BY <3>1, <3>2, <3>3, <3>4
  <2>2. CASE EvaluatePred
    <3>1. FlagsOK'  BY <2>2 DEF FlagsOK, EvaluatePred, onlyPc
    <3>2. WorkOK'  BY <2>2 DEF WorkOK, EvaluatePred, onlyPc, JobStates, PcValues, Final
    <3>3. TimersOK'  BY <2>2 DEF TimersOK, EvaluatePred, onlyPc
    <3>4. CallsOK'  BY <2>2 DEF CallsOK, EvaluatePred, onlyPc, CallStates
    <3> QED  BY <3>1, <3>2, <3>3, <3>4
  <2>3. CASE Block \/ SpuriousWake \/ Timeout
    <3>1. FlagsOK'  BY <2>3 DEF FlagsOK, Block, SpuriousWake, Timeout, onlyPc
    <3>2. WorkOK'  BY <2>3 DEF WorkOK, Block, SpuriousWake, Timeout, onlyPc, JobStates, PcValues, Final
    <3>3. TimersOK'  BY <2>3 DEF TimersOK, Block, SpuriousWake, Timeout, onlyPc
    <3>4. CallsOK'  BY <2>3 DEF CallsOK, Block, SpuriousWake, Timeout, onlyPc, CallStates
    <3> QED  BY <3>1, <3>2, <3>3, <3>4
  <2>4. CASE TakeWork
    <3>1. FlagsOK'  BY <2>4 DEF FlagsOK, TakeWork
    <3>2. WorkOK'
      <4>1. actions' \in Seq(Jobs) /\ pendingActions' \in Seq(Jobs)
        <5>1. CASE Suspended  BY <2>4, <5>1 DEF WorkOK, TakeWork
        <5>2. CASE ~Suspended
          <6>1. actions' = <<>> /\ pendingActions' = actions
            BY <2>4, <5>2 DEF TakeWork
          <6> QED  BY <6>1 DEF WorkOK
        <5> QED  BY <5>1, <5>2
      <4> QED  BY <2>4, <4>1 DEF WorkOK, TakeWork, PcValues
    <3>3. TimersOK'
      <4>1. pendingTimers' \subseteq Tokens
        BY <2>4 DEF TimersOK, TakeWork, CheckTimers
      <4>2. due' \subseteq Tokens
        BY <2>4 DEF TimersOK, TakeWork
      <4> QED  BY <2>4, <4>1, <4>2 DEF TimersOK, TakeWork
    <3>4. CallsOK'  BY <2>4 DEF CallsOK, TakeWork, CallStates
    <3> QED  BY <3>1, <3>2, <3>3, <3>4
  <2>5. CASE NextTimer
    <3>1. FlagsOK'  BY <2>5 DEF FlagsOK, NextTimer
    <3>2. WorkOK'  BY <2>5 DEF WorkOK, NextTimer, JobStates, PcValues, Final
    <3>3. TimersOK'  BY <2>5 DEF TimersOK, NextTimer
    <3>4. CallsOK'  BY <2>5 DEF CallsOK, NextTimer, CallStates
    <3> QED  BY <3>1, <3>2, <3>3, <3>4
  <2>6. CASE NextClient
    <3>1. FlagsOK'  BY <2>6 DEF FlagsOK, NextClient
    <3>2. WorkOK'  BY <2>6 DEF WorkOK, TimersOK, NextClient, PcValues
    <3>3. TimersOK'  BY <2>6 DEF TimersOK, NextClient, CountDown
    <3>4. CallsOK'  BY <2>6 DEF CallsOK, NextClient, CallStates
    <3> QED  BY <3>1, <3>2, <3>3, <3>4
  <2>7. CASE EndClient
    <3>1. FlagsOK'  BY <2>7 DEF FlagsOK, EndClient
    <3>2. WorkOK'  BY <2>7 DEF WorkOK, EndClient, JobStates, PcValues, Final
    <3>3. TimersOK'  BY <2>7 DEF TimersOK, EndClient
    <3>4. CallsOK'  BY <2>7 DEF CallsOK, EndClient, CallStates
    <3> QED  BY <3>1, <3>2, <3>3, <3>4
  <2>8. CASE NextAction
    <3>1. FlagsOK'  BY <2>8 DEF FlagsOK, NextAction
    <3>2. WorkOK'
      <4>1. CASE pendingActions = <<>>
        BY <2>8, <4>1 DEF WorkOK, NextAction, PcValues
      <4>2. CASE pendingActions # <<>>
        <5>1. Head(pendingActions) \in Jobs /\ Tail(pendingActions) \in Seq(Jobs)
          BY <4>2 DEF WorkOK
        <5>2. state' \in [Jobs -> JobStates]
          <6>1. \E v \in {"cancelled", "running"} : state' = [state EXCEPT ![Head(pendingActions)] = v]
            BY <2>8, <4>2 DEF NextAction
          <6> QED  BY <6>1 DEF WorkOK, JobStates, Final
        <5>3. pc' \in PcValues /\ current' \in Jobs \cup {None}
          BY <2>8, <4>2, <5>1 DEF WorkOK, NextAction, PcValues
        <5> QED  BY <2>8, <4>2, <5>1, <5>2, <5>3 DEF WorkOK, NextAction
      <4> QED  BY <4>1, <4>2
    <3>3. TimersOK'  BY <2>8 DEF TimersOK, NextAction
    <3>4. CallsOK'  BY <2>8 DEF CallsOK, NextAction, CallStates
    <3> QED  BY <3>1, <3>2, <3>3, <3>4
  <2>9. CASE EndAction
    <3>1. FlagsOK'  BY <2>9 DEF FlagsOK, EndAction
    <3>2. WorkOK'  BY <2>9 DEF WorkOK, EndAction, JobStates, PcValues, Final
    <3>3. TimersOK'  BY <2>9 DEF TimersOK, EndAction
    <3>4. CallsOK'  BY <2>9 DEF CallsOK, EndAction, CallStates
    <3> QED  BY <3>1, <3>2, <3>3, <3>4
  <2>10. CASE DisposeSelf
    <3>1. FlagsOK'  BY <2>10 DEF FlagsOK, DisposeSelf, CancelActions
    <3>2. WorkOK'  BY <2>10 DEF WorkOK, DisposeSelf, CancelActions, JobStates, PcValues, Final
    <3>3. TimersOK'  BY <2>10 DEF TimersOK, DisposeSelf, CancelActions
    <3>4. CallsOK'  BY <2>10 DEF CallsOK, DisposeSelf, CancelActions, CallStates
    <3> QED  BY <3>1, <3>2, <3>3, <3>4
  <2>11. CASE Dispose
    <3>1. FlagsOK'  BY <2>11 DEF FlagsOK, Dispose
    <3>2. WorkOK'  BY <2>11 DEF WorkOK, Dispose, JobStates, PcValues, Final
    <3>3. TimersOK'  BY <2>11 DEF TimersOK, Dispose
    <3>4. CallsOK'  BY <2>11 DEF CallsOK, Dispose, CallStates
    <3> QED  BY <3>1, <3>2, <3>3, <3>4
  <2>12. CASE DisposeNotify \/ DisposeJoin
    <3>1. FlagsOK'  BY <2>12 DEF FlagsOK, DisposeNotify, DisposeJoin, NotifiedPc
    <3>2. WorkOK'  BY <2>12 DEF WorkOK, DisposeNotify, DisposeJoin, NotifiedPc, JobStates, PcValues, Final
    <3>3. TimersOK'  BY <2>12 DEF TimersOK, DisposeNotify, DisposeJoin, NotifiedPc
    <3>4. CallsOK'  BY <2>12 DEF CallsOK, DisposeNotify, DisposeJoin, NotifiedPc, CallStates
    <3> QED  BY <3>1, <3>2, <3>3, <3>4
  <2>13. CASE DisposeClean
    <3>1. FlagsOK'  BY <2>13 DEF FlagsOK, DisposeClean, CancelActions
    <3>2. WorkOK'  BY <2>13 DEF WorkOK, DisposeClean, CancelActions, JobStates, PcValues, Final
    <3>3. TimersOK'  BY <2>13 DEF TimersOK, DisposeClean, CancelActions
    <3>4. CallsOK'  BY <2>13 DEF CallsOK, DisposeClean, CancelActions, CallStates
    <3> QED  BY <3>1, <3>2, <3>3, <3>4
  <2>14. CASE Suspend \/ Resume
    <3>1. FlagsOK'  BY <2>14 DEF FlagsOK, Suspend, Resume, NotifiedPc
    <3>2. WorkOK'  BY <2>14 DEF WorkOK, Suspend, Resume, NotifiedPc, JobStates, PcValues, Final
    <3>3. TimersOK'  BY <2>14 DEF TimersOK, Suspend, Resume, NotifiedPc
    <3>4. CallsOK'  BY <2>14 DEF CallsOK, Suspend, Resume, NotifiedPc, CallStates
    <3> QED  BY <3>1, <3>2, <3>3, <3>4
  <2>15. ASSUME NEW a \in Actions, BeginInvoke(a) PROVE TypeOK'
    <3>1. FlagsOK'  BY <2>15 DEF FlagsOK, BeginInvoke, AddAction, NotifiedPc
    <3>2. WorkOK'  BY <2>15, AddActionType DEF BeginInvoke
    <3>3. TimersOK'  BY <2>15 DEF TimersOK, BeginInvoke, AddAction, NotifiedPc
    <3>4. CallsOK'  BY <2>15 DEF CallsOK, BeginInvoke, AddAction, NotifiedPc, CallStates
    <3> QED  BY <3>1, <3>2, <3>3, <3>4
  <2>16. ASSUME NEW a \in Actions, InvokeInPlace(a) PROVE TypeOK'
    <3>1. FlagsOK'  BY <2>16 DEF FlagsOK, InvokeInPlace
    <3>2. WorkOK'  BY <2>16 DEF WorkOK, InvokeInPlace, JobStates, PcValues, Final
    <3>3. TimersOK'  BY <2>16 DEF TimersOK, InvokeInPlace
    <3>4. CallsOK'  BY <2>16 DEF CallsOK, InvokeInPlace, CallStates
    <3> QED  BY <3>1, <3>2, <3>3, <3>4
  <2>17. ASSUME NEW a \in Actions, Recreate(a) PROVE TypeOK'
    <3>1. FlagsOK'  BY <2>17 DEF FlagsOK, Recreate
    <3>2. WorkOK'  BY <2>17 DEF WorkOK, Recreate, JobStates, PcValues, Final
    <3>3. TimersOK'  BY <2>17 DEF TimersOK, Recreate
    <3>4. CallsOK'  BY <2>17 DEF CallsOK, Recreate, CallStates
    <3> QED  BY <3>1, <3>2, <3>3, <3>4
  <2>18. ASSUME NEW k \in Callers, CheckSuspended(k) \/ WaitSync(k) PROVE TypeOK'
    <3>1. FlagsOK'  BY <2>18 DEF FlagsOK, CheckSuspended, WaitSync
    <3>2. WorkOK'  BY <2>18 DEF WorkOK, CheckSuspended, WaitSync, JobStates, PcValues, Final
    <3>3. TimersOK'  BY <2>18 DEF TimersOK, CheckSuspended, WaitSync
    <3>4. CallsOK'  BY <2>18 DEF CallsOK, CheckSuspended, WaitSync, CallStates
    <3> QED  BY <3>1, <3>2, <3>3, <3>4
  <2>19. ASSUME NEW k \in Callers, PostSync(k) PROVE TypeOK'
    <3>1. FlagsOK'  BY <2>19 DEF FlagsOK, PostSync, AddAction, NotifiedPc
    <3>2. WorkOK'  BY <2>19, AddActionType DEF PostSync
    <3>3. TimersOK'  BY <2>19 DEF TimersOK, PostSync, AddAction, NotifiedPc
    <3>4. CallsOK'  BY <2>19 DEF CallsOK, PostSync, AddAction, NotifiedPc, CallStates
    <3> QED  BY <3>1, <3>2, <3>3, <3>4
  <2>20. ASSUME NEW k \in Syncers, Sync(k) PROVE TypeOK'
    <3>1. FlagsOK'  BY <2>20 DEF FlagsOK, Sync, Queued
    <3>2. WorkOK'  BY <2>20 DEF WorkOK, Sync, Queued, JobStates, PcValues, Final
    <3>3. TimersOK'  BY <2>20 DEF TimersOK, Sync, Queued
    <3>4. CallsOK'
      <4>1. Queued \subseteq Jobs
        BY DEF Queued, WorkOK
      <4> QED  BY <2>20, <4>1 DEF CallsOK, Sync, CallStates
    <3> QED  BY <3>1, <3>2, <3>3, <3>4
  <2>21. ASSUME NEW c \in Tokens, RegisterTimer(c) PROVE TypeOK'
    <3>1. FlagsOK'  BY <2>21 DEF FlagsOK, RegisterTimer, NotifiedPc
    <3>2. WorkOK'  BY <2>21 DEF WorkOK, RegisterTimer, NotifiedPc, JobStates, PcValues, Final
    <3>3. TimersOK'  BY <2>21 DEF TimersOK, RegisterTimer, NotifiedPc
    <3>4. CallsOK'  BY <2>21 DEF CallsOK, RegisterTimer, NotifiedPc, CallStates
    <3> QED  BY <3>1, <3>2, <3>3, <3>4
  <2>22. ASSUME NEW c \in Tokens, UnregisterTimer(c) \/ UnregisterInContext(c) PROVE TypeOK'
    <3>1. FlagsOK'  BY <2>22 DEF FlagsOK, UnregisterTimer, UnregisterInContext, RemoveClient
    <3>2. WorkOK'  BY <2>22 DEF WorkOK, UnregisterTimer, UnregisterInContext, RemoveClient, JobStates, PcValues, Final
    <3>3. TimersOK'  BY <2>22 DEF TimersOK, UnregisterTimer, UnregisterInContext, RemoveClient
    <3>4. CallsOK'  BY <2>22 DEF CallsOK, UnregisterTimer, UnregisterInContext, RemoveClient, CallStates
    <3> QED  BY <3>1, <3>2, <3>3, <3>4
  <2>23. ASSUME NEW c \in Tokens, Elapse(c) PROVE TypeOK'
    <3>1. FlagsOK'  BY <2>23 DEF FlagsOK, Elapse
    <3>2. WorkOK'  BY <2>23 DEF WorkOK, Elapse, JobStates, PcValues, Final
    <3>3. TimersOK'  BY <2>23 DEF TimersOK, Elapse
    <3>4. CallsOK'  BY <2>23 DEF CallsOK, Elapse, CallStates
    <3> QED  BY <3>1, <3>2, <3>3, <3>4
  <2>24. CASE UNCHANGED vars
    <3>1. FlagsOK'  BY <2>24 DEF FlagsOK, vars
    <3>2. WorkOK'  BY <2>24 DEF WorkOK, vars, JobStates, PcValues, Final
    <3>3. TimersOK'  BY <2>24 DEF TimersOK, vars
    <3>4. CallsOK'  BY <2>24 DEF CallsOK, vars, CallStates
    <3> QED  BY <3>1, <3>2, <3>3, <3>4
  <2> QED
    BY <2>1, <2>2, <2>3, <2>4, <2>5, <2>6, <2>7, <2>8, <2>9, <2>10, <2>11, <2>12, <2>13, <2>14, <2>15, <2>16, <2>17, <2>18, <2>19, <2>20, <2>21, <2>22, <2>23, <2>24
       DEF Next, WorkerStep, CallerStep, DisposerStep
<1> QED
  BY <1>1, <1>2, PTL DEF Spec
-----------------------------------------------------------------------------
\* How the line changes when an action is appended, or its head is taken.
LEMMA LineAppend ==
  ASSUME NEW S, NEW s \in Seq(S), NEW t \in Seq(S), NEW e \in S
  PROVE  s \o Append(t, e) = Append(s \o t, e)
<1>1. <<e>> \in Seq(S) /\ s \o t \in Seq(S)
  BY ConcatProperties
<1>2. s \o Append(t, e) = s \o (t \o <<e>>)
  BY AppendIsConcat
<1>3. Append(s \o t, e) = (s \o t) \o <<e>>
  BY <1>1, AppendIsConcat
<1> QED  BY <1>1, <1>2, <1>3, ConcatAssociative

\* The first job of the batch is the first of the line.
LEMMA LineTail ==
  ASSUME NEW S, NEW s \in Seq(S), NEW t \in Seq(S), s # <<>>
  PROVE  /\ s \o t # <<>>
         /\ Head(s \o t) = Head(s)
         /\ Tail(s \o t) = Tail(s) \o t
<1>1. Len(s \o t) = Len(s) + Len(t) /\ Len(s) > 0 /\ s \o t \in Seq(S)
  BY ConcatProperties, EmptySeq
<1>2. s \o t # <<>> /\ Head(s \o t) = Head(s)
  BY <1>1, ConcatProperties, EmptySeq
<1>3. Tail(s \o t) \in Seq(S) /\ Tail(s) \o t \in Seq(S)
  BY <1>2, <1>1, HeadTailProperties, ConcatProperties
<1>4. Len(Tail(s \o t)) = Len(Tail(s) \o t)
  BY <1>1, <1>2, HeadTailProperties, ConcatProperties
<1>5. \A i \in 1 .. Len(Tail(s \o t)) : Tail(s \o t)[i] = (Tail(s) \o t)[i]
  BY <1>1, <1>2, HeadTailProperties, ConcatProperties
<1> QED  BY <1>2, <1>3, <1>4, <1>5, SeqEqual

\* add_action of a running context appends to the line.
LEMMA PostAppends ==
  ASSUME TypeOK, running, NEW j \in Jobs, AddAction(j)
  PROVE  Line' = Append(Line, j) /\ Line \in Seq(Jobs)
<1> USE DEF TypeOK, WorkOK
<1>1. pendingActions' = pendingActions /\ actions' = Append(actions, j)
  BY DEF AddAction, locals
<1>2. pendingActions \o Append(actions, j) = Append(pendingActions \o actions, j)
  BY LineAppend
<1>3. pendingActions \o actions \in Seq(Jobs)
  BY ConcatProperties
<1> QED  BY <1>1, <1>2, <1>3 DEF Line

\* Swapping m_actions into an empty batch moves nothing in the line.
LEMMA TakeKeepsLine ==
  ASSUME TypeOK, WorkerDiscipline, TakeWork
  PROVE  Line' = Line
<1>1. pendingActions = <<>>
  BY DEF TakeWork, WorkerDiscipline, Working
<1>2. CASE Suspended
  BY <1>2 DEF TakeWork, Line
<1>3. CASE ~Suspended
  <2>1. actions' = <<>> /\ pendingActions' = actions
    BY <1>3 DEF TakeWork
  <2> QED  BY <1>1, <2>1, ConcatEmptySeq DEF Line, TypeOK, WorkOK
<1> QED  BY <1>2, <1>3
-----------------------------------------------------------------------------
\* Steps that move neither the line nor what runs.
LEMMA FrameOnce ==
  ASSUME QueuedOnce, Line' = Line, state' = state,
         \A j \in Jobs : (pc = "action" /\ current = j)' <=> (pc = "action" /\ current = j)
  PROVE  QueuedOnce'
BY DEF QueuedOnce

\* Steps that give a new state to one action that neither waits nor runs.
LEMMA RestateOnce ==
  ASSUME TypeOK, QueuedOnce, NEW j \in Jobs, NEW v \in JobStates,
         state[j] \notin {"pending", "running"}, v \notin {"pending", "running"},
         state' = [state EXCEPT ![j] = v],
         Line' = Line, pc' = pc, current' = current
  PROVE  QueuedOnce'
BY DEF QueuedOnce, TypeOK, WorkOK

\* add_action puts a fresh action once at the end of the line.
LEMMA AddOnce ==
  ASSUME TypeOK, QueuedOnce, NEW j \in Jobs, state[j] = "none", AddAction(j)
  PROVE  QueuedOnce'
<1> USE DEF TypeOK, WorkOK
<1>1. CASE ~running
  <2>1. /\ state' = [state EXCEPT ![j] = "refused"]
        /\ Line' = Line /\ pc' = pc /\ current' = current
    BY <1>1 DEF AddAction, Line, locals
  <2> QED  BY <2>1, RestateOnce DEF JobStates
<1>2. CASE running
  <2>1. /\ state' = [state EXCEPT ![j] = "pending"]
        /\ current' = current /\ (pc' = "action" <=> pc = "action")
    BY <1>2 DEF AddAction, locals, NotifiedPc
  <2>2. Line' = Append(Line, j) /\ Line \in Seq(Jobs)
    BY <1>2, PostAppends
  <2>3. /\ DOMAIN Line = 1 .. Len(Line) /\ DOMAIN Line' = 1 .. Len(Line) + 1
        /\ Len(Line) \in Nat
        /\ \A i \in 1 .. Len(Line) : Line'[i] = Line[i]
        /\ Line'[Len(Line) + 1] = j
    BY <2>2
  <2>4. \A n \in DOMAIN Line : Line[n] # j
    BY DEF QueuedOnce
  <2>5. \A m, n \in DOMAIN Line' : Line'[m] = Line'[n] => m = n
    BY <2>3, <2>4 DEF QueuedOnce
  <2>6. \A k \in Jobs : state'[k] = "pending" <=> \E n \in DOMAIN Line' : Line'[n] = k
    <3> TAKE k \in Jobs
    <3>1. CASE k = j
      BY <3>1, <2>1, <2>3
    <3>2. CASE k # j
      BY <3>2, <2>1, <2>3 DEF QueuedOnce
    <3> QED  BY <3>1, <3>2
  <2>7. \A k \in Jobs : state'[k] = "running" <=> pc' = "action" /\ current' = k
    BY <2>1 DEF QueuedOnce
  <2> QED  BY <2>5, <2>6, <2>7 DEF QueuedOnce
<1> QED  BY <1>1, <1>2

\* Cancelling m_actions removes the end of the line and nothing else.
LEMMA CancelOnce ==
  ASSUME TypeOK, QueuedOnce, CancelActions,
         pendingActions' = pendingActions, pc' = pc, current' = current
  PROVE  QueuedOnce'
<1> USE DEF TypeOK, WorkOK
<1>1. Line' = pendingActions
  BY DEF Line, CancelActions
<1>2. /\ Line \in Seq(Jobs) /\ Len(Line) = Len(pendingActions) + Len(actions)
      /\ DOMAIN Line = 1 .. Len(pendingActions) + Len(actions)
      /\ DOMAIN pendingActions = 1 .. Len(pendingActions)
      /\ DOMAIN actions = 1 .. Len(actions)
      /\ Len(pendingActions) \in Nat /\ Len(actions) \in Nat
      /\ \A i \in 1 .. Len(pendingActions) : Line[i] = pendingActions[i]
      /\ \A i \in 1 .. Len(actions) : Line[i + Len(pendingActions)] = actions[i]
  BY ConcatProperties DEF Line
<1>3. \A m, n \in DOMAIN Line' : Line'[m] = Line'[n] => m = n
  BY <1>1, <1>2 DEF QueuedOnce
<1>4. \A k \in Jobs : state'[k] = "pending" <=> \E n \in DOMAIN Line' : Line'[n] = k
  <2> TAKE k \in Jobs
  <2>1. CASE \E i \in DOMAIN actions : actions[i] = k
    <3>1. state'[k] = "cancelled"
      BY <2>1 DEF CancelActions
    <3>2. \A n \in DOMAIN pendingActions : pendingActions[n] # k
      <4> SUFFICES ASSUME NEW n \in DOMAIN pendingActions, pendingActions[n] = k PROVE FALSE
        OBVIOUS
      <4>1. PICK i \in 1 .. Len(actions) : actions[i] = k
        BY <2>1, <1>2
      <4>2. Line[n] = k /\ Line[i + Len(pendingActions)] = k
        BY <4>1, <1>2
      <4>3. n \in DOMAIN Line /\ i + Len(pendingActions) \in DOMAIN Line /\ n # i + Len(pendingActions)
        BY <1>2
      <4> QED  BY <4>2, <4>3 DEF QueuedOnce
    <3> QED  BY <3>1, <3>2, <1>1
  <2>2. CASE ~ \E i \in DOMAIN actions : actions[i] = k
    <3>1. state'[k] = state[k]
      BY <2>2 DEF CancelActions
    <3>2. (\E n \in DOMAIN Line : Line[n] = k) <=> \E n \in DOMAIN pendingActions : pendingActions[n] = k
      <4>1. ASSUME NEW n \in DOMAIN Line, Line[n] = k
            PROVE  n \in 1 .. Len(pendingActions)
        <5>1. CASE n > Len(pendingActions)
          <6>1. n - Len(pendingActions) \in 1 .. Len(actions)
            BY <5>1, <1>2
          <6>2. actions[n - Len(pendingActions)] = k
            BY <6>1, <1>2, <4>1
          <6> QED  BY <6>1, <6>2, <2>2, <1>2
        <5> QED  BY <5>1, <1>2
      <4> QED  BY <4>1, <1>2
    <3> QED  BY <3>1, <3>2, <1>1 DEF QueuedOnce
  <2> QED  BY <2>1, <2>2
<1>5. \A k \in Jobs : state'[k] = "running" <=> pc' = "action" /\ current' = k
  <2> TAKE k \in Jobs
  <2>1. state[k] = "running" => ~ \E i \in DOMAIN actions : actions[i] = k
    <3> SUFFICES ASSUME NEW i \in 1 .. Len(actions), actions[i] = k PROVE state[k] = "pending"
      BY <1>2
    <3>1. i + Len(pendingActions) \in DOMAIN Line
      BY <1>2
    <3>2. Line[i + Len(pendingActions)] = k
      BY <1>2
    <3> QED  BY <3>1, <3>2 DEF QueuedOnce
  <2> QED  BY <2>1 DEF QueuedOnce, CancelActions
<1> QED  BY <1>3, <1>4, <1>5 DEF QueuedOnce

\* Whatever is in m_actions or in the worker's batch reports "pending".
LEMMA QueuedPending ==
  ASSUME TypeOK, QueuedOnce
  PROVE  /\ \A i \in DOMAIN actions : state[actions[i]] = "pending"
         /\ \A i \in DOMAIN pendingActions : state[pendingActions[i]] = "pending"
<1> USE DEF TypeOK, WorkOK
<1>1. /\ DOMAIN Line = 1 .. Len(pendingActions) + Len(actions)
      /\ DOMAIN pendingActions = 1 .. Len(pendingActions)
      /\ DOMAIN actions = 1 .. Len(actions)
      /\ Len(pendingActions) \in Nat /\ Len(actions) \in Nat
      /\ \A i \in 1 .. Len(pendingActions) : Line[i] = pendingActions[i]
      /\ \A i \in 1 .. Len(actions) : Line[i + Len(pendingActions)] = actions[i]
  BY ConcatProperties DEF Line
<1>2. ASSUME NEW i \in DOMAIN actions PROVE state[actions[i]] = "pending"
  <2>1. i + Len(pendingActions) \in DOMAIN Line /\ actions[i] \in Jobs
    BY <1>1
  <2>2. Line[i + Len(pendingActions)] = actions[i]
    BY <1>1
  <2> QED  BY <2>1, <2>2 DEF QueuedOnce
<1>3. ASSUME NEW i \in DOMAIN pendingActions PROVE state[pendingActions[i]] = "pending"
  <2>1. i \in DOMAIN Line /\ pendingActions[i] \in Jobs
    BY <1>1
  <2> QED  BY <2>1, <1>1 DEF QueuedOnce
<1> QED  BY <1>2, <1>3

\* The inductive invariant of the action queue: no accepted action is lost or
\* duplicated by posting, batching, suspending and disposing (QueuedOnce),
\* because a batch is only taken when the previous one is worked off and
\* nothing is accepted once dispose has begun.
THEOREM QueueInvariant == Spec => []ActionInv
<1>1. Init => ActionInv
  <2> SUFFICES ASSUME Init PROVE ActionInv
    OBVIOUS
  <2>1. Line = <<>> /\ DOMAIN Line = {}
    BY DEF Init, Line
  <2>2. QueuedOnce
    BY <2>1 DEF Init, QueuedOnce
  <2>3. WorkerDiscipline /\ CallerDiscipline
    BY JobSets DEF Init, WorkerDiscipline, Working, CallerDiscipline
  <2> QED  BY <2>2, <2>3 DEF ActionInv
<1>2. TypeOK /\ ActionInv /\ [Next]_vars => ActionInv'
  <2> SUFFICES ASSUME TypeOK, ActionInv, [Next]_vars PROVE ActionInv'
    OBVIOUS
  <2> USE JobSets DEF TypeOK, FlagsOK, WorkOK, CallsOK, ActionInv, members, timerVars, locals, callers
  <2>1. CASE Top
    <3>1. QueuedOnce'
      BY <2>1, FrameOnce DEF Top, Line
    <3>2. WorkerDiscipline'
      BY <2>1 DEF WorkerDiscipline, Working, Top
    <3>3. CallerDiscipline'
      BY <2>1 DEF CallerDiscipline, Top
    <3> QED  BY <3>1, <3>2, <3>3 DEF ActionInv
  <2>2. CASE EvaluatePred
    <3>1. QueuedOnce'
      BY <2>2, FrameOnce DEF EvaluatePred, onlyPc, Line
    <3>2. WorkerDiscipline'
      BY <2>2 DEF WorkerDiscipline, Working, EvaluatePred, onlyPc
    <3>3. CallerDiscipline'
      BY <2>2 DEF CallerDiscipline, EvaluatePred, onlyPc
    <3> QED  BY <3>1, <3>2, <3>3 DEF ActionInv
  <2>3. CASE Block \/ SpuriousWake \/ Timeout
    <3>1. QueuedOnce'
      BY <2>3, FrameOnce DEF Block, SpuriousWake, Timeout, onlyPc, Line
    <3>2. WorkerDiscipline'
      BY <2>3 DEF WorkerDiscipline, Working, Block, SpuriousWake, Timeout, onlyPc
    <3>3. CallerDiscipline'
      BY <2>3 DEF CallerDiscipline, Block, SpuriousWake, Timeout, onlyPc
    <3> QED  BY <3>1, <3>2, <3>3 DEF ActionInv
  <2>4. CASE TakeWork
    <3>1. QueuedOnce'
      <4>1. Line' = Line
        BY <2>4, TakeKeepsLine
      <4> QED  BY <2>4, <4>1, FrameOnce DEF TakeWork
    <3>2. WorkerDiscipline'
      BY <2>4 DEF WorkerDiscipline, Working, TakeWork
    <3>3. CallerDiscipline'
      BY <2>4 DEF CallerDiscipline, TakeWork
    <3> QED  BY <3>1, <3>2, <3>3 DEF ActionInv
  <2>5. CASE NextTimer
    <3>1. QueuedOnce'
      BY <2>5, FrameOnce DEF NextTimer, Line
    <3>2. WorkerDiscipline'
      BY <2>5 DEF WorkerDiscipline, Working, NextTimer
    <3>3. CallerDiscipline'
      BY <2>5 DEF CallerDiscipline, NextTimer
    <3> QED  BY <3>1, <3>2, <3>3 DEF ActionInv
  <2>6. CASE NextClient
    <3>1. QueuedOnce'
      BY <2>6, FrameOnce DEF NextClient, Line
    <3>2. WorkerDiscipline'
      BY <2>6 DEF WorkerDiscipline, Working, NextClient
    <3>3. CallerDiscipline'
      BY <2>6 DEF CallerDiscipline, NextClient
    <3> QED  BY <3>1, <3>2, <3>3 DEF ActionInv
  <2>7. CASE EndClient
    <3>1. QueuedOnce'
      BY <2>7, FrameOnce DEF EndClient, Line
    <3>2. WorkerDiscipline'
      BY <2>7 DEF WorkerDiscipline, Working, EndClient
    <3>3. CallerDiscipline'
      BY <2>7 DEF CallerDiscipline, EndClient
    <3> QED  BY <3>1, <3>2, <3>3 DEF ActionInv
  <2>8. CASE NextAction
    <3>1. QueuedOnce'
      <4>1. CASE pendingActions = <<>>
        BY <2>8, <4>1, FrameOnce DEF NextAction, Line
      <4>2. CASE pendingActions # <<>>
        <5> DEFINE h == Head(pendingActions)
        <5>1. Line \in Seq(Jobs) /\ Line # <<>> /\ h = Head(Line) /\ h \in Jobs /\ Line' = Tail(Line)
          <6>1. pendingActions' = Tail(pendingActions) /\ actions' = actions
            BY <2>8, <4>2 DEF NextAction
          <6> QED  BY <4>2, <6>1, LineTail, ConcatProperties, HeadTailProperties DEF Line
        <5>2. /\ DOMAIN Line = 1 .. Len(Line) /\ Len(Line) \in Nat \ {0} /\ Line[1] = h
              /\ DOMAIN Line' = 1 .. Len(Line) - 1
              /\ \A i \in 1 .. Len(Line) - 1 : Line'[i] = Line[i + 1]
          BY <5>1, HeadTailProperties, EmptySeq
        <5>3. \E v \in {"cancelled", "running"} :
                /\ state' = [state EXCEPT ![h] = v]
                /\ v = "running" => pc' = "action" /\ current' = h
                /\ v = "cancelled" => pc' = pc /\ current' = current
          BY <2>8, <4>2 DEF NextAction
        <5>4. \A m, n \in DOMAIN Line' : Line'[m] = Line'[n] => m = n
          <6> TAKE m, n \in DOMAIN Line'
          <6>1. /\ m + 1 \in DOMAIN Line /\ Line'[m] = Line[m + 1]
                /\ n + 1 \in DOMAIN Line /\ Line'[n] = Line[n + 1]
            BY <5>2
          <6>2. Line[m + 1] = Line[n + 1] => m + 1 = n + 1
            BY <6>1 DEF QueuedOnce
          <6>3. m \in Int /\ n \in Int
            BY <5>2
          <6> QED  BY <6>1, <6>2, <6>3
        <5>5. \A j \in Jobs : (\E n \in DOMAIN Line' : Line'[n] = j)
                                <=> j # h /\ \E n \in DOMAIN Line : Line[n] = j
          <6> TAKE j \in Jobs
          <6>1. ASSUME NEW n \in DOMAIN Line', Line'[n] = j
                PROVE  j # h /\ \E m \in DOMAIN Line : Line[m] = j
            <7>1. n + 1 \in DOMAIN Line /\ n + 1 # 1 /\ 1 \in DOMAIN Line
              BY <5>2
            <7>2. Line[n + 1] = j
              BY <5>2, <6>1
            <7> QED  BY <7>1, <7>2, <5>2 DEF QueuedOnce
          <6>2. ASSUME NEW n \in DOMAIN Line, Line[n] = j, j # h
                PROVE  \E m \in DOMAIN Line' : Line'[m] = j
            <7>1. n # 1
              BY <6>2, <5>2
            <7>2. n - 1 \in DOMAIN Line'
              BY <7>1, <5>2
            <7>3. Line'[n - 1] = j
              BY <7>1, <6>2, <5>2
            <7> QED  BY <7>2, <7>3
          <6> QED  BY <6>1, <6>2
        <5>6. \A j \in Jobs : state'[j] = "pending" <=> \E n \in DOMAIN Line' : Line'[n] = j
          BY <5>1, <5>3, <5>5 DEF QueuedOnce
        <5>7. \A j \in Jobs : state'[j] = "running" <=> pc' = "action" /\ current' = j
          BY <2>8, <5>1, <5>3 DEF QueuedOnce, NextAction
        <5> QED  BY <5>4, <5>6, <5>7 DEF QueuedOnce
      <4> QED  BY <4>1, <4>2
    <3>2. WorkerDiscipline'
      BY <2>8 DEF WorkerDiscipline, Working, NextAction
    <3>3. CallerDiscipline'
      <4>1. CASE pendingActions = <<>>
        BY <2>8, <4>1 DEF CallerDiscipline, NextAction
      <4>2. CASE pendingActions # <<>>
        <5>1. /\ state[Head(pendingActions)] = "pending"
              /\ \E v \in {"cancelled", "running"} : state' = [state EXCEPT ![Head(pendingActions)] = v]
              /\ call' = call
          BY <2>8, <4>2, QueuedPending DEF NextAction
        <5> QED  BY <5>1 DEF CallerDiscipline
      <4> QED  BY <4>1, <4>2
    <3> QED  BY <3>1, <3>2, <3>3 DEF ActionInv
  <2>9. CASE EndAction
    <3>1. QueuedOnce'
      <4>1. /\ Line' = Line /\ pc = "action" /\ pc' = "actions"
            /\ \E v \in {"completed", "exception"} : state' = [state EXCEPT ![current] = v]
        BY <2>9 DEF EndAction, Line
      <4> QED  BY <4>1 DEF QueuedOnce
    <3>2. WorkerDiscipline'
      BY <2>9 DEF WorkerDiscipline, Working, EndAction
    <3>3. CallerDiscipline'
      <4>1. /\ call' = call /\ pc = "action"
            /\ \E v \in {"completed", "exception"} : state' = [state EXCEPT ![current] = v]
        BY <2>9 DEF EndAction
      <4> QED  BY <4>1 DEF CallerDiscipline, QueuedOnce
    <3> QED  BY <3>1, <3>2, <3>3 DEF ActionInv
  <2>10. CASE DisposeSelf
    <3>1. QueuedOnce'
      BY <2>10, CancelOnce DEF DisposeSelf
    <3>2. WorkerDiscipline'
      BY <2>10 DEF WorkerDiscipline, Working, DisposeSelf, CancelActions, InContext
    <3>3. CallerDiscipline'
      BY <2>10, QueuedPending DEF CallerDiscipline, DisposeSelf, CancelActions
    <3> QED  BY <3>1, <3>2, <3>3 DEF ActionInv
  <2>11. CASE Dispose
    <3>1. QueuedOnce'
      BY <2>11, FrameOnce DEF Dispose, Line
    <3>2. WorkerDiscipline'
      BY <2>11 DEF WorkerDiscipline, Working, Dispose
    <3>3. CallerDiscipline'
      BY <2>11 DEF CallerDiscipline, Dispose
    <3> QED  BY <3>1, <3>2, <3>3 DEF ActionInv
  <2>12. CASE DisposeNotify \/ DisposeJoin
    <3>1. QueuedOnce'
      BY <2>12, FrameOnce DEF DisposeNotify, DisposeJoin, NotifiedPc, Line
    <3>2. WorkerDiscipline'
      BY <2>12 DEF WorkerDiscipline, Working, DisposeNotify, DisposeJoin, NotifiedPc
    <3>3. CallerDiscipline'
      BY <2>12 DEF CallerDiscipline, DisposeNotify, DisposeJoin, NotifiedPc
    <3> QED  BY <3>1, <3>2, <3>3 DEF ActionInv
  <2>13. CASE DisposeClean
    <3>1. QueuedOnce'
      BY <2>13, CancelOnce DEF DisposeClean
    <3>2. WorkerDiscipline'
      BY <2>13 DEF WorkerDiscipline, Working, DisposeClean, CancelActions
    <3>3. CallerDiscipline'
      BY <2>13, QueuedPending DEF CallerDiscipline, DisposeClean, CancelActions
    <3> QED  BY <3>1, <3>2, <3>3 DEF ActionInv
  <2>14. CASE Suspend \/ Resume
    <3>1. QueuedOnce'
      BY <2>14, FrameOnce DEF Suspend, Resume, NotifiedPc, Line
    <3>2. WorkerDiscipline'
      BY <2>14 DEF WorkerDiscipline, Working, Suspend, Resume, NotifiedPc
    <3>3. CallerDiscipline'
      BY <2>14 DEF CallerDiscipline, Suspend, Resume, NotifiedPc
    <3> QED  BY <3>1, <3>2, <3>3 DEF ActionInv
  <2>15. ASSUME NEW a \in Actions, BeginInvoke(a) PROVE ActionInv'
    <3>1. QueuedOnce'
      BY <2>15, AddOnce DEF BeginInvoke, CallerDiscipline
    <3>2. WorkerDiscipline'
      BY <2>15 DEF WorkerDiscipline, Working, BeginInvoke, AddAction, NotifiedPc, Alive
    <3>3. CallerDiscipline'
      <4>1. a \notin Callers
        BY ContextAssumption
      <4> QED  BY <2>15, <4>1 DEF CallerDiscipline, BeginInvoke, AddAction
    <3> QED  BY <3>1, <3>2, <3>3 DEF ActionInv
  <2>16. ASSUME NEW a \in Actions, InvokeInPlace(a) PROVE ActionInv'
    <3>1. QueuedOnce'
      BY <2>16, RestateOnce DEF InvokeInPlace, JobStates, Final, Line
    <3>2. WorkerDiscipline'
      BY <2>16 DEF WorkerDiscipline, Working, InvokeInPlace
    <3>3. CallerDiscipline'
      <4>1. a \notin Callers
        BY ContextAssumption
      <4> QED  BY <2>16, <4>1 DEF CallerDiscipline, InvokeInPlace
    <3> QED  BY <3>1, <3>2, <3>3 DEF ActionInv
  <2>17. ASSUME NEW a \in Actions, Recreate(a) PROVE ActionInv'
    <3>1. QueuedOnce'
      BY <2>17, RestateOnce DEF Recreate, JobStates, Final, Line
    <3>2. WorkerDiscipline'
      BY <2>17 DEF WorkerDiscipline, Working, Recreate
    <3>3. CallerDiscipline'
      <4>1. a \notin Callers
        BY ContextAssumption
      <4> QED  BY <2>17, <4>1 DEF CallerDiscipline, Recreate
    <3> QED  BY <3>1, <3>2, <3>3 DEF ActionInv
  <2>18. ASSUME NEW k \in Callers, CheckSuspended(k) \/ WaitSync(k) PROVE ActionInv'
    <3>1. QueuedOnce'
      BY <2>18, FrameOnce DEF CheckSuspended, WaitSync, Line
    <3>2. WorkerDiscipline'
      BY <2>18 DEF WorkerDiscipline, Working, CheckSuspended, WaitSync
    <3>3. CallerDiscipline'
      <4>1. CASE CheckSuspended(k)
        BY <4>1 DEF CallerDiscipline, CheckSuspended
      <4>2. CASE WaitSync(k)
        BY <4>2 DEF CallerDiscipline, WaitSync, Final
      <4> QED  BY <2>18, <4>1, <4>2
    <3> QED  BY <3>1, <3>2, <3>3 DEF ActionInv
  <2>19. ASSUME NEW k \in Callers, PostSync(k) PROVE ActionInv'
    <3>1. QueuedOnce'
      BY <2>19, AddOnce DEF PostSync, CallerDiscipline
    <3>2. WorkerDiscipline'
      BY <2>19 DEF WorkerDiscipline, Working, PostSync, AddAction, NotifiedPc
    <3>3. CallerDiscipline'
      BY <2>19 DEF CallerDiscipline, PostSync, AddAction, NotifiedPc
    <3> QED  BY <3>1, <3>2, <3>3 DEF ActionInv
  <2>20. ASSUME NEW k \in Syncers, Sync(k) PROVE ActionInv'
    <3>1. QueuedOnce'
      BY <2>20, FrameOnce DEF Sync, Line
    <3>2. WorkerDiscipline'
      BY <2>20 DEF WorkerDiscipline, Working, Sync
    <3>3. CallerDiscipline'
      BY <2>20 DEF CallerDiscipline, Sync
    <3> QED  BY <3>1, <3>2, <3>3 DEF ActionInv
  <2>21. ASSUME NEW c \in Tokens, RegisterTimer(c) PROVE ActionInv'
    <3>1. QueuedOnce'
      BY <2>21, FrameOnce DEF RegisterTimer, NotifiedPc, Line
    <3>2. WorkerDiscipline'
      BY <2>21 DEF WorkerDiscipline, Working, RegisterTimer, NotifiedPc
    <3>3. CallerDiscipline'
      BY <2>21 DEF CallerDiscipline, RegisterTimer, NotifiedPc
    <3> QED  BY <3>1, <3>2, <3>3 DEF ActionInv
  <2>22. ASSUME NEW c \in Tokens, UnregisterTimer(c) \/ UnregisterInContext(c) PROVE ActionInv'
    <3>1. QueuedOnce'
      BY <2>22, FrameOnce DEF UnregisterTimer, UnregisterInContext, RemoveClient, Line
    <3>2. WorkerDiscipline'
      BY <2>22 DEF WorkerDiscipline, Working, UnregisterTimer, UnregisterInContext, RemoveClient
    <3>3. CallerDiscipline'
      BY <2>22 DEF CallerDiscipline, UnregisterTimer, UnregisterInContext, RemoveClient
    <3> QED  BY <3>1, <3>2, <3>3 DEF ActionInv
  <2>23. ASSUME NEW c \in Tokens, Elapse(c) PROVE ActionInv'
    <3>1. QueuedOnce'
      BY <2>23, FrameOnce DEF Elapse, Line
    <3>2. WorkerDiscipline'
      BY <2>23 DEF WorkerDiscipline, Working, Elapse
    <3>3. CallerDiscipline'
      BY <2>23 DEF CallerDiscipline, Elapse
    <3> QED  BY <3>1, <3>2, <3>3 DEF ActionInv
  <2>24. CASE UNCHANGED vars
    <3>1. QueuedOnce'
      BY <2>24, FrameOnce DEF vars, Line
    <3>2. WorkerDiscipline'
      BY <2>24 DEF WorkerDiscipline, Working, vars
    <3>3. CallerDiscipline'
      BY <2>24 DEF CallerDiscipline, vars
    <3> QED  BY <3>1, <3>2, <3>3 DEF ActionInv
  <2> QED
    BY <2>1, <2>2, <2>3, <2>4, <2>5, <2>6, <2>7, <2>8, <2>9, <2>10, <2>11, <2>12, <2>13, <2>14, <2>15, <2>16, <2>17, <2>18, <2>19, <2>20, <2>21, <2>22, <2>23, <2>24
       DEF Next, WorkerStep, CallerStep, DisposerStep
<1> QED
  BY <1>1, <1>2, TypeCorrect, PTL DEF Spec

\* No accepted action is lost or queued twice by add_action, the worker's swap
\* and dispose's cancellation, for any number of actions and callers.
THEOREM NoActionLost == Spec => []QueuedOnce
<1>1. ActionInv => QueuedOnce
  BY DEF ActionInv
<1> QED
  BY <1>1, QueueInvariant, PTL

\* dispose leaves no waiter behind (the comment "avoid deadlocks of waiting
\* executions"), however it interleaves with posting and suspending.
THEOREM DisposeLeavesNone == Spec => []NoneAbandoned
<1>1. TypeOK /\ ActionInv => NoneAbandoned
  <2> SUFFICES ASSUME TypeOK, ActionInv, disposer = "done", pc = "exit", NEW j \in Jobs
               PROVE  state[j] \notin {"pending", "running"}
    BY DEF NoneAbandoned
  <2>1. pendingActions = <<>> /\ actions = <<>>
    BY DEF ActionInv, WorkerDiscipline, Working
  <2>2. DOMAIN Line = {}
    BY <2>1 DEF Line
  <2> QED  BY <2>2 DEF ActionInv, QueuedOnce
<1> QED
  BY <1>1, TypeCorrect, QueueInvariant, PTL
-----------------------------------------------------------------------------
\* What was queued when sync was called stays ahead of the sync action: where
\* neither the line nor any state moves ...
LEMMA AheadFrame ==
  ASSUME NEW j, NEW k, Ahead(j, k), Line' = Line, state' = state
  PROVE  Ahead(j, k)'
BY DEF Ahead

\* ... where one action that is neither of the two changes its state ...
LEMMA AheadRestate ==
  ASSUME TypeOK, NEW j \in Jobs, NEW k \in Jobs, Ahead(j, k),
         NEW i \in Jobs, NEW v, i # j, i # k, state' = [state EXCEPT ![i] = v], Line' = Line
  PROVE  Ahead(j, k)'
BY DEF Ahead, TypeOK, WorkOK

\* ... where an action is posted: a fresh one goes behind everything queued ...
LEMMA AheadPost ==
  ASSUME TypeOK, NEW j \in Jobs, NEW k \in Jobs, Ahead(j, k),
         NEW i \in Jobs, state[i] = "none", AddAction(i)
  PROVE  Ahead(j, k)'
<1> USE DEF TypeOK, WorkOK
<1>1. i # j
  BY DEF Ahead, Final
<1>2. CASE ~running
  <2>1. state' = [state EXCEPT ![i] = "refused"] /\ Line' = Line
    BY <1>2 DEF AddAction, Line, locals
  <2> QED  BY <1>1, <2>1 DEF Ahead
<1>3. CASE running
  <2>1. state' = [state EXCEPT ![i] = "pending"]
    BY <1>3 DEF AddAction
  <2>2. Line' = Append(Line, i) /\ Line \in Seq(Jobs)
    BY <1>3, PostAppends
  <2>3. /\ DOMAIN Line = 1 .. Len(Line) /\ DOMAIN Line' = 1 .. Len(Line) + 1
        /\ Len(Line) \in Nat
        /\ \A n \in 1 .. Len(Line) : Line'[n] = Line[n]
        /\ Line'[Len(Line) + 1] = i
    BY <2>2
  <2>4. ASSUME NEW m \in DOMAIN Line', NEW n \in DOMAIN Line', Line'[m] = j, Line'[n] = k
        PROVE  m < n
    <3>1. m \in DOMAIN Line /\ Line[m] = j
      BY <1>1, <2>3, <2>4
    <3>2. CASE n \in DOMAIN Line
      BY <2>3, <2>4, <3>1, <3>2 DEF Ahead
    <3>3. CASE n = Len(Line) + 1
      BY <2>3, <3>1, <3>3
    <3> QED  BY <2>3, <3>2, <3>3
  <2> QED  BY <1>1, <2>1, <2>4 DEF Ahead
<1> QED  BY <1>2, <1>3

\* ... where the head of the line is started, which is only the sync action
\* when nothing is ahead of it any more, or cancelled ...
LEMMA AheadTake ==
  ASSUME TypeOK, QueuedOnce, NEW j \in Jobs, NEW k \in Jobs, Ahead(j, k),
         Line \in Seq(Jobs), Line # <<>>, Line' = Tail(Line), NEW v \in {"cancelled", "running"},
         state' = [state EXCEPT ![Head(Line)] = v],
         \A i \in Jobs : state[i] # "running"
  PROVE  Ahead(j, k)'
<1> USE DEF TypeOK, WorkOK
<1> DEFINE h == Head(Line)
<1>1. /\ DOMAIN Line = 1 .. Len(Line) /\ Len(Line) \in Nat \ {0} /\ Line[1] = h /\ h \in Jobs
      /\ DOMAIN Line' = 1 .. Len(Line) - 1
      /\ \A n \in 1 .. Len(Line) - 1 : Line'[n] = Line[n + 1]
  BY HeadTailProperties, EmptySeq
<1>2. state[h] = "pending"
  <2>1. 1 \in DOMAIN Line /\ Line[1] = h /\ h \in Jobs
    BY <1>1
  <2> QED  BY <2>1 DEF QueuedOnce
<1>3. ASSUME NEW m \in DOMAIN Line', NEW n \in DOMAIN Line', Line'[m] = j, Line'[n] = k
      PROVE  m < n
  <2>1. m + 1 \in DOMAIN Line /\ Line[m + 1] = j /\ n + 1 \in DOMAIN Line /\ Line[n + 1] = k
    BY <1>1, <1>3
  <2>2. m + 1 < n + 1
    BY <2>1 DEF Ahead
  <2> QED  BY <2>2, <1>1
<1>4. state'[j] \in Final \cup {"pending", "running"}
  BY <1>1 DEF Ahead, Final
<1>5. state'[k] \in {"running", "completed", "exception"} => state'[j] \in Final
  <2>1. CASE h = k
    <3>1. \A n \in DOMAIN Line : Line[n] # j
      <4> SUFFICES ASSUME NEW n \in DOMAIN Line, Line[n] = j PROVE FALSE
        OBVIOUS
      <4>1. 1 \in DOMAIN Line /\ Line[1] = k
        BY <1>1, <2>1
      <4>2. n < 1
        BY <4>1 DEF Ahead
      <4> QED  BY <4>2, <1>1
    <3>2. state[j] # "pending" /\ state[j] # "running"
      BY <3>1 DEF QueuedOnce
    <3>3. state'[j] = state[j]
      BY <2>1, <1>1 DEF Ahead
    <3> QED  BY <3>2, <3>3 DEF Ahead
  <2>2. CASE h # k
    <3>1. state'[k] = state[k]
      BY <2>2, <1>1
    <3>2. CASE h = j
      BY <3>1, <3>2, <1>2 DEF Ahead, Final
    <3>3. CASE h # j
      BY <3>1, <3>3, <1>1 DEF Ahead
    <3> QED  BY <3>2, <3>3
  <2> QED  BY <2>1, <2>2
<1> QED  BY <1>3, <1>4, <1>5 DEF Ahead

\* ... and where dispose cancels what is left in m_actions.
LEMMA AheadCancel ==
  ASSUME TypeOK, QueuedOnce, NEW j \in Jobs, NEW k \in Jobs, Ahead(j, k),
         CancelActions, pendingActions' = pendingActions
  PROVE  Ahead(j, k)'
<1> USE DEF TypeOK, WorkOK
<1>1. Line' = pendingActions
  BY DEF Line, CancelActions
<1>2. /\ DOMAIN Line = 1 .. Len(pendingActions) + Len(actions)
      /\ DOMAIN pendingActions = 1 .. Len(pendingActions)
      /\ Len(pendingActions) \in Nat /\ Len(actions) \in Nat
      /\ \A i \in 1 .. Len(pendingActions) : Line[i] = pendingActions[i]
  BY ConcatProperties DEF Line
<1>3. ASSUME NEW m \in DOMAIN Line', NEW n \in DOMAIN Line', Line'[m] = j, Line'[n] = k
      PROVE  m < n
  BY <1>1, <1>2, <1>3 DEF Ahead
<1>4. \A i \in Jobs : \/ state'[i] = state[i]
                      \/ state'[i] = "cancelled" /\ state[i] = "pending"
  BY QueuedPending DEF CancelActions
<1> QED  BY <1>3, <1>4 DEF Ahead, Final

\* The inductive invariant of sync: what was queued when it was called is
\* ahead of its empty action until it has finished.
THEOREM SyncInvariant == Spec => []SyncDiscipline
<1>1. Init => SyncDiscipline
  BY DEF Init, SyncDiscipline
<1>2. TypeOK /\ TypeOK' /\ ActionInv /\ SyncDiscipline /\ [Next]_vars => SyncDiscipline'
  <2> SUFFICES ASSUME TypeOK, TypeOK', ActionInv, SyncDiscipline, [Next]_vars,
                      NEW k \in Syncers, NEW j \in before'[k]
               PROVE  call'[k] # "idle" /\ Ahead(j, k)'
    BY DEF SyncDiscipline
  <2> USE JobSets DEF members, timerVars, locals, callers
  <2>1. /\ k \in Jobs /\ j \in Jobs
        /\ QueuedOnce
    BY DEF TypeOK, CallsOK, ActionInv
  <2>2. ASSUME j \in before[k] PROVE call[k] # "idle" /\ Ahead(j, k)
    BY <2>2 DEF SyncDiscipline
  <2>3. CASE Line' = Line /\ state' = state /\ before' = before /\ call' = call
    BY <2>3, <2>2, AheadFrame
  <2>4. CASE NextAction /\ pendingActions # <<>>
    <3>1. /\ pendingActions' = Tail(pendingActions) /\ actions' = actions
          /\ before' = before /\ call' = call /\ pc = "actions"
      BY <2>4 DEF NextAction
    <3>2. /\ Line \in Seq(Jobs) /\ Line # <<>> /\ Line' = Tail(Line)
          /\ Head(Line) = Head(pendingActions)
      BY <2>4, <3>1, LineTail, ConcatProperties DEF Line, TypeOK, WorkOK
    <3>3. \E v \in {"cancelled", "running"} : state' = [state EXCEPT ![Head(Line)] = v]
      BY <2>4, <3>2 DEF NextAction
    <3>4. \A i \in Jobs : state[i] # "running"
      BY <2>1, <3>1 DEF QueuedOnce
    <3> QED  BY <2>1, <2>2, <3>1, <3>2, <3>3, <3>4, AheadTake
  <2>5. CASE EndAction
    <3>1. /\ Line' = Line /\ before' = before /\ call' = call /\ pc = "action"
          /\ \E v \in {"completed", "exception"} : state' = [state EXCEPT ![current] = v]
      BY <2>5 DEF EndAction, Line
    <3>2. Ahead(j, k) /\ call[k] # "idle"
      BY <2>2, <3>1
    <3>3. state[j] = "running" <=> current = j
      BY <2>1, <3>1 DEF QueuedOnce
    <3>4. state[k] = "running" <=> current = k
      BY <2>1, <3>1 DEF QueuedOnce
    <3> QED  BY <2>1, <3>1, <3>2, <3>3, <3>4 DEF Ahead, Final, TypeOK, WorkOK
  <2>6. CASE DisposeSelf \/ DisposeClean
    BY <2>1, <2>2, <2>6, AheadCancel DEF DisposeSelf, DisposeClean
  <2>7. ASSUME NEW a \in Actions, BeginInvoke(a) PROVE call'[k] # "idle" /\ Ahead(j, k)'
    BY <2>1, <2>2, <2>7, AheadPost DEF BeginInvoke
  <2>8. ASSUME NEW a \in Actions, InvokeInPlace(a) \/ Recreate(a)
        PROVE  call'[k] # "idle" /\ Ahead(j, k)'
    <3>1. /\ Line' = Line /\ call' = call
          /\ \E v \in {"none", "completed", "exception"} : state' = [state EXCEPT ![a] = v]
      BY <2>8 DEF InvokeInPlace, Recreate, Line
    <3>2. j \in before[k] /\ j # a
      <4>1. CASE InvokeInPlace(a)
        <5>1. state[a] = "none" /\ before' = before
          BY <4>1 DEF InvokeInPlace
        <5> QED  BY <2>2, <5>1 DEF Ahead, Final
      <4>2. CASE Recreate(a)
        BY <4>2 DEF Recreate
      <4> QED  BY <2>8, <4>1, <4>2
    <3>3. a # k
      BY ContextAssumption
    <3> QED  BY <2>1, <2>2, <3>1, <3>2, <3>3, AheadRestate
  <2>9. ASSUME NEW i \in Callers, CheckSuspended(i) \/ WaitSync(i)
        PROVE  call'[k] # "idle" /\ Ahead(j, k)'
    <3>1. /\ Line' = Line /\ state' = state /\ before' = before
          /\ call[k] # "idle" => call'[k] # "idle"
      BY <2>9 DEF CheckSuspended, WaitSync, Line, TypeOK, CallsOK
    <3> QED  BY <2>2, <3>1, AheadFrame
  <2>10. ASSUME NEW i \in Callers, PostSync(i) PROVE call'[k] # "idle" /\ Ahead(j, k)'
    <3>1. state[i] = "none"
      BY <2>10 DEF PostSync, ActionInv, CallerDiscipline
    <3>2. before' = before /\ AddAction(i) /\ (call[k] # "idle" => call'[k] # "idle")
      BY <2>10 DEF PostSync, TypeOK, CallsOK
    <3> QED  BY <2>1, <2>2, <3>1, <3>2, AheadPost
  <2>11. ASSUME NEW i \in Syncers, Sync(i) PROVE call'[k] # "idle" /\ Ahead(j, k)'
    <3>1. /\ Line' = Line /\ state' = state /\ call[i] = "idle"
          /\ call'[i] = "check" /\ before'[i] = Queued
          /\ \A s \in Syncers \ {i} : call'[s] = call[s] /\ before'[s] = before[s]
      BY <2>11 DEF Sync, Line, TypeOK, CallsOK
    <3>2. CASE k # i
      BY <2>2, <3>1, <3>2, AheadFrame
    <3>3. CASE k = i
      <4>1. state[k] = "none"
        BY <3>1, <3>3 DEF ActionInv, CallerDiscipline
      <4>2. state[j] = "pending"
        BY <3>1, <3>3, <2>1, QueuedPending DEF Queued
      <4>3. \A n \in DOMAIN Line : Line[n] # k
        BY <2>1, <4>1 DEF QueuedOnce
      <4> QED  BY <3>1, <3>3, <4>1, <4>2, <4>3 DEF Ahead
    <3> QED  BY <3>2, <3>3
  <2>12. ASSUME NEW c \in Tokens,
                RegisterTimer(c) \/ UnregisterTimer(c) \/ UnregisterInContext(c)
         PROVE  call'[k] # "idle" /\ Ahead(j, k)'
    <3>1. /\ Line' = Line /\ state' = state /\ before' = before
          /\ call[k] # "idle" => call'[k] # "idle"
      BY <2>12 DEF RegisterTimer, UnregisterTimer, UnregisterInContext, RemoveClient, Line,
                   TypeOK, CallsOK
    <3> QED  BY <2>2, <3>1, AheadFrame
  <2>13. CASE TakeWork
    <3>1. Line' = Line
      BY <2>13, TakeKeepsLine DEF ActionInv
    <3> QED  BY <2>2, <2>13, <3>1, AheadFrame DEF TakeWork
  <2>14. CASE \/ Top \/ EvaluatePred \/ Block \/ SpuriousWake \/ Timeout \/ NextTimer
              \/ NextClient \/ EndClient \/ Dispose \/ DisposeNotify \/ DisposeJoin
              \/ Suspend \/ Resume \/ (\E c \in Tokens : Elapse(c)) \/ UNCHANGED vars
              \/ (NextAction /\ pendingActions = <<>>)
    BY <2>3, <2>14
       DEF Top, EvaluatePred, Block, SpuriousWake, Timeout, NextTimer, NextClient, EndClient,
           Dispose, DisposeNotify, DisposeJoin, Suspend, Resume, Elapse, NextAction, onlyPc,
           vars, Line
  <2> QED
    BY <2>4, <2>5, <2>6, <2>7, <2>8, <2>9, <2>10, <2>11, <2>12, <2>13, <2>14
       DEF Next, WorkerStep, CallerStep, DisposerStep
<1> QED
  BY <1>1, <1>2, TypeCorrect, QueueInvariant, PTL DEF Spec

\* A sync that returned normally has flushed the queue: everything that was in
\* m_actions or in the worker's batch when it was called has finished.
THEOREM SyncFlushesQueue == Spec => []SyncFlushes
<1>1. ActionInv /\ SyncDiscipline => SyncFlushes
  BY JobSets DEF ActionInv, CallerDiscipline, SyncDiscipline, SyncFlushes, Ahead
<1> QED
  BY <1>1, QueueInvariant, SyncInvariant, PTL
-----------------------------------------------------------------------------
\* Outside its critical section the worker is idle only with empty hands: the
\* inductive invariant behind idle().
THEOREM IdleInvariant == Spec => []IdleDiscipline
<1>1. Init => IdleDiscipline
  BY DEF Init, IdleDiscipline
<1>2. TypeOK /\ ActionInv /\ IdleDiscipline /\ [Next]_vars => IdleDiscipline'
  <2> SUFFICES ASSUME TypeOK, ActionInv, IdleDiscipline, [Next]_vars, ~Suspendable
               PROVE  IdleDiscipline'
    BY DEF IdleDiscipline
  <2> USE DEF IdleDiscipline, Locked, Suspended, members, timerVars, locals, callers
  <2>1. CASE Top
    BY <2>1 DEF Top
  <2>2. CASE EvaluatePred
    BY <2>2 DEF EvaluatePred, onlyPc, Pred
  <2>3. CASE Block \/ SpuriousWake \/ Timeout
    BY <2>3 DEF Block, SpuriousWake, Timeout, onlyPc, TypeOK, FlagsOK, ActionInv, WorkerDiscipline, Working
  <2>4. CASE TakeWork
    BY <2>4 DEF TakeWork, TypeOK, FlagsOK, ActionInv, WorkerDiscipline, Working
  <2>5. CASE NextTimer
    BY <2>5 DEF NextTimer
  <2>6. CASE NextClient
    BY <2>6 DEF NextClient
  <2>7. CASE EndClient
    BY <2>7 DEF EndClient
  <2>8. CASE NextAction
    BY <2>8 DEF NextAction
  <2>9. CASE EndAction
    BY <2>9 DEF EndAction
  <2>10. CASE DisposeSelf
    BY <2>10 DEF DisposeSelf, CancelActions
  <2>11. CASE Dispose
    BY <2>11 DEF Dispose
  <2>12. CASE DisposeNotify \/ DisposeJoin
    BY <2>12 DEF DisposeNotify, DisposeJoin, NotifiedPc
  <2>13. CASE DisposeClean
    BY <2>13 DEF DisposeClean, CancelActions
  <2>14. CASE Suspend \/ Resume
    BY <2>14 DEF Suspend, Resume, NotifiedPc
  <2>15. ASSUME NEW a \in Actions, BeginInvoke(a) PROVE IdleDiscipline'
    BY <2>15 DEF BeginInvoke, AddAction, NotifiedPc
  <2>16. ASSUME NEW a \in Actions, InvokeInPlace(a) \/ Recreate(a) PROVE IdleDiscipline'
    BY <2>16 DEF InvokeInPlace, Recreate
  <2>17. ASSUME NEW k \in Callers, CheckSuspended(k) \/ WaitSync(k) PROVE IdleDiscipline'
    BY <2>17 DEF CheckSuspended, WaitSync
  <2>18. ASSUME NEW k \in Callers, PostSync(k) PROVE IdleDiscipline'
    BY <2>18 DEF PostSync, AddAction, NotifiedPc
  <2>19. ASSUME NEW k \in Syncers, Sync(k) PROVE IdleDiscipline'
    BY <2>19 DEF Sync
  <2>20. ASSUME NEW c \in Tokens, RegisterTimer(c) PROVE IdleDiscipline'
    BY <2>20 DEF RegisterTimer, NotifiedPc
  <2>21. ASSUME NEW c \in Tokens, UnregisterTimer(c) \/ UnregisterInContext(c) PROVE IdleDiscipline'
    BY <2>21 DEF UnregisterTimer, UnregisterInContext, RemoveClient
  <2>22. ASSUME NEW c \in Tokens, Elapse(c) PROVE IdleDiscipline'
    BY <2>22 DEF Elapse
  <2>23. CASE UNCHANGED vars
    BY <2>23 DEF vars
  <2> QED
    BY <2>1, <2>2, <2>3, <2>4, <2>5, <2>6, <2>7, <2>8, <2>9, <2>10, <2>11, <2>12, <2>13, <2>14, <2>15, <2>16, <2>17, <2>18, <2>19, <2>20, <2>21, <2>22, <2>23
       DEF Next, WorkerStep, CallerStep, DisposerStep
<1> QED
  BY <1>1, <1>2, TypeCorrect, QueueInvariant, PTL DEF Spec

\* idle() never reports TRUE while something is queued, taken or running, in
\* a context that cannot be suspended: m_idle is cleared by add_action and by
\* the worker before it lets go of the mutex.
THEOREM IdleReportIsHonest == Spec => []IdleIsHonest
<1>1. IdleDiscipline => IdleIsHonest
  BY DEF IdleDiscipline, IdleIsHonest, Line
<1> QED
  BY <1>1, IdleInvariant, PTL
-----------------------------------------------------------------------------
\* The inductive invariant of the timers: which tokens may be in a timer, in
\* a snapshot or firing, given how far their caller has come.
THEOREM TimerInvariant == Spec => []TimerInv
<1>1. Init => TimerInv
  BY JobSets DEF Init, TimerInv, TokenDiscipline, ExhaustedStaysOut, Firing
<1>2. TypeOK /\ ActionInv /\ TimerInv /\ [Next]_vars => TimerInv'
  <2> SUFFICES ASSUME TypeOK, ActionInv, TimerInv, [Next]_vars PROVE TimerInv'
    OBVIOUS
  <2> USE JobSets DEF TypeOK, TimersOK, WorkOK, CallsOK, TimerInv, members, timerVars, locals, callers, Firing
  <2>1. CASE Top
    <3>1. TokenDiscipline'
      BY <2>1 DEF TokenDiscipline, Top
    <3>2. ExhaustedStaysOut'
      BY <2>1 DEF ExhaustedStaysOut, Top
    <3> QED  BY <3>1, <3>2 DEF TimerInv
  <2>2. CASE EvaluatePred
    <3>1. TokenDiscipline'
      BY <2>2 DEF TokenDiscipline, EvaluatePred, onlyPc
    <3>2. ExhaustedStaysOut'
      BY <2>2 DEF ExhaustedStaysOut, EvaluatePred, onlyPc
    <3> QED  BY <3>1, <3>2 DEF TimerInv
  <2>3. CASE Block \/ SpuriousWake \/ Timeout
    <3>1. TokenDiscipline'
      BY <2>3 DEF TokenDiscipline, Block, SpuriousWake, Timeout, onlyPc
    <3>2. ExhaustedStaysOut'
      BY <2>3 DEF ExhaustedStaysOut, Block, SpuriousWake, Timeout, onlyPc
    <3> QED  BY <3>1, <3>2 DEF TimerInv
  <2>4. CASE TakeWork
    <3>1. TokenDiscipline'
      BY <2>4 DEF TokenDiscipline, TakeWork
    <3>2. ExhaustedStaysOut'
      BY <2>4 DEF ExhaustedStaysOut, TakeWork
    <3> QED  BY <3>1, <3>2 DEF TimerInv
  <2>5. CASE NextTimer
    <3>1. TokenDiscipline'
      <4>1. \A c \in Tokens : call[c] = "registered" => state[c] = "none"
        BY DEF ActionInv, CallerDiscipline
      <4>2. CASE executing' = executing
        BY <2>5, <4>2 DEF TokenDiscipline, NextTimer
      <4>3. ASSUME NEW t \in Tokens, executing' = clients[t] PROVE TokenDiscipline'
        <5>1. /\ clients' = clients /\ timers' = timers /\ call' = call /\ left' = left /\ state' = state
              /\ pc' # "client"
          BY <2>5 DEF NextTimer
        <5>2. \A c \in Tokens : c \in executing' => call[c] = "registered"
          BY <4>3 DEF TokenDiscipline
        <5> QED  BY <4>1, <5>1, <5>2 DEF TokenDiscipline
      <4> QED  BY <2>5, <4>2, <4>3 DEF NextTimer
    <3>2. ExhaustedStaysOut'
      BY <2>5 DEF ExhaustedStaysOut, NextTimer
    <3> QED  BY <3>1, <3>2 DEF TimerInv
  <2>6. CASE NextClient
    <3>1. TokenDiscipline'
      BY <2>6 DEF TokenDiscipline, NextClient, CountDown
    <3>2. ExhaustedStaysOut'
      BY <2>6 DEF ExhaustedStaysOut, NextClient, CountDown
    <3> QED  BY <3>1, <3>2 DEF TimerInv
  <2>7. CASE EndClient
    <3>1. TokenDiscipline'
      BY <2>7 DEF TokenDiscipline, EndClient
    <3>2. ExhaustedStaysOut'
      <4> SUFFICES ASSUME NEW c \in Tokens, Count[c] > 0, left[c] = 0
                   PROVE  c \notin executing /\ \A t \in Tokens : c \notin clients'[t]
        BY <2>7 DEF ExhaustedStaysOut, EndClient
      <4>1. CASE c = current
        BY <2>7, <4>1 DEF TokenDiscipline, EndClient
      <4>2. CASE c # current
        BY <2>7, <4>2 DEF ExhaustedStaysOut, EndClient
      <4> QED  BY <4>1, <4>2
    <3> QED  BY <3>1, <3>2 DEF TimerInv
  <2>8. CASE NextAction
    <3>1. TokenDiscipline'
      <4>1. executing = {} /\ executing' = {} /\ pc # "client" /\ pc' # "client"
        BY <2>8 DEF NextAction, ActionInv, WorkerDiscipline
      <4>2. clients' = clients /\ timers' = timers /\ call' = call /\ left' = left
        BY <2>8 DEF NextAction
      <4> QED  BY <4>1, <4>2 DEF TokenDiscipline
    <3>2. ExhaustedStaysOut'
      BY <2>8 DEF ExhaustedStaysOut, NextAction
    <3> QED  BY <3>1, <3>2 DEF TimerInv
  <2>9. CASE EndAction
    <3>1. TokenDiscipline'
      <4>1. executing = {} /\ executing' = {} /\ pc # "client" /\ pc' # "client"
        BY <2>9 DEF EndAction, ActionInv, WorkerDiscipline
      <4>2. clients' = clients /\ timers' = timers /\ call' = call /\ left' = left
        BY <2>9 DEF EndAction
      <4> QED  BY <4>1, <4>2 DEF TokenDiscipline
    <3>2. ExhaustedStaysOut'
      BY <2>9 DEF ExhaustedStaysOut, EndAction
    <3> QED  BY <3>1, <3>2 DEF TimerInv
  <2>10. CASE DisposeSelf
    <3>1. TokenDiscipline'
      BY <2>10 DEF TokenDiscipline, DisposeSelf, CancelActions, InContext
    <3>2. ExhaustedStaysOut'
      BY <2>10 DEF ExhaustedStaysOut, DisposeSelf, CancelActions, InContext
    <3> QED  BY <3>1, <3>2 DEF TimerInv
  <2>11. CASE Dispose
    <3>1. TokenDiscipline'
      BY <2>11 DEF TokenDiscipline, Dispose
    <3>2. ExhaustedStaysOut'
      BY <2>11 DEF ExhaustedStaysOut, Dispose
    <3> QED  BY <3>1, <3>2 DEF TimerInv
  <2>12. CASE DisposeNotify \/ DisposeJoin
    <3>1. TokenDiscipline'
      BY <2>12 DEF TokenDiscipline, DisposeNotify, DisposeJoin, NotifiedPc
    <3>2. ExhaustedStaysOut'
      BY <2>12 DEF ExhaustedStaysOut, DisposeNotify, DisposeJoin, NotifiedPc
    <3> QED  BY <3>1, <3>2 DEF TimerInv
  <2>13. CASE DisposeClean
    <3>1. TokenDiscipline'
      BY <2>13 DEF TokenDiscipline, DisposeClean, CancelActions
    <3>2. ExhaustedStaysOut'
      BY <2>13 DEF ExhaustedStaysOut, DisposeClean, CancelActions
    <3> QED  BY <3>1, <3>2 DEF TimerInv
  <2>14. CASE Suspend \/ Resume
    <3>1. TokenDiscipline'
      BY <2>14 DEF TokenDiscipline, Suspend, Resume, NotifiedPc
    <3>2. ExhaustedStaysOut'
      BY <2>14 DEF ExhaustedStaysOut, Suspend, Resume, NotifiedPc
    <3> QED  BY <3>1, <3>2 DEF TimerInv
  <2>15. ASSUME NEW a \in Actions, BeginInvoke(a) PROVE TimerInv'
    <3>1. TokenDiscipline'
      BY <2>15 DEF TokenDiscipline, BeginInvoke, AddAction, NotifiedPc, Alive
    <3>2. ExhaustedStaysOut'
      BY <2>15 DEF ExhaustedStaysOut, BeginInvoke, AddAction, NotifiedPc, Alive
    <3> QED  BY <3>1, <3>2 DEF TimerInv
  <2>16. ASSUME NEW a \in Actions, InvokeInPlace(a) PROVE TimerInv'
    <3>1. TokenDiscipline'
      <4>1. a \notin Tokens
        BY ContextAssumption DEF Callers
      <4> QED  BY <2>16, <4>1 DEF TokenDiscipline, InvokeInPlace
    <3>2. ExhaustedStaysOut'
      BY <2>16 DEF ExhaustedStaysOut, InvokeInPlace
    <3> QED  BY <3>1, <3>2 DEF TimerInv
  <2>17. ASSUME NEW a \in Actions, Recreate(a) PROVE TimerInv'
    <3>1. TokenDiscipline'
      BY <2>17 DEF TokenDiscipline, Recreate
    <3>2. ExhaustedStaysOut'
      BY <2>17 DEF ExhaustedStaysOut, Recreate
    <3> QED  BY <3>1, <3>2 DEF TimerInv
  <2>18. ASSUME NEW k \in Callers, CheckSuspended(k) \/ WaitSync(k) PROVE TimerInv'
    <3>1. TokenDiscipline'
      BY <2>18 DEF TokenDiscipline, CheckSuspended, WaitSync
    <3>2. ExhaustedStaysOut'
      BY <2>18 DEF ExhaustedStaysOut, CheckSuspended, WaitSync
    <3> QED  BY <3>1, <3>2 DEF TimerInv
  <2>19. ASSUME NEW k \in Callers, PostSync(k) PROVE TimerInv'
    <3>1. TokenDiscipline'
      BY <2>19 DEF TokenDiscipline, PostSync, AddAction, NotifiedPc
    <3>2. ExhaustedStaysOut'
      BY <2>19 DEF ExhaustedStaysOut, PostSync, AddAction, NotifiedPc
    <3> QED  BY <3>1, <3>2 DEF TimerInv
  <2>20. ASSUME NEW k \in Syncers, Sync(k) PROVE TimerInv'
    <3>1. TokenDiscipline'
      BY <2>20 DEF TokenDiscipline, Sync
    <3>2. ExhaustedStaysOut'
      BY <2>20 DEF ExhaustedStaysOut, Sync
    <3> QED  BY <3>1, <3>2 DEF TimerInv
  <2>21. ASSUME NEW c \in Tokens, RegisterTimer(c) PROVE TimerInv'
    <3>1. /\ call' = [call EXCEPT ![c] = "registered"] /\ call[c] = "idle"
          /\ left' = left /\ state' = state /\ executing' = executing /\ current' = current
      BY <2>21 DEF RegisterTimer
    <3>2. pc' = "client" <=> pc = "client"
      BY <2>21 DEF RegisterTimer, NotifiedPc
    <3>3. /\ \A d \in Tokens, t \in Tokens : d \in clients'[t] => d = c \/ d \in clients[t]
          /\ \A t \in Tokens \ timers' : clients'[t] = {}
      <4> DEFINE same == IF Count[c] = 0 THEN {t \in timers : Interval[t] = Interval[c]} ELSE {}
      <4>1. CASE timers' = timers \cup {c} /\ clients' = [clients EXCEPT ![c] = {c}]
        BY <4>1 DEF TokenDiscipline
      <4>2. ASSUME NEW t \in timers, clients[t] = {},
                   timers' = (timers \ {t}) \cup {c}, clients' = [clients EXCEPT ![c] = {c}]
            PROVE  <3>3
        BY <4>2 DEF TokenDiscipline
      <4>3. ASSUME NEW t \in timers, clients' = [clients EXCEPT ![t] = @ \cup {c}], timers' = timers
            PROVE  <3>3
        BY <4>3 DEF TokenDiscipline
      <4>4. same \subseteq timers
        OBVIOUS
      <4>5. \/ timers' = timers \cup {c} /\ clients' = [clients EXCEPT ![c] = {c}]
            \/ \E t \in same : /\ clients[t] = {} /\ timers' = (timers \ {t}) \cup {c}
                               /\ clients' = [clients EXCEPT ![c] = {c}]
            \/ \E t \in same : clients' = [clients EXCEPT ![t] = @ \cup {c}] /\ timers' = timers
        BY <2>21 DEF RegisterTimer
      <4> QED  BY <4>1, <4>2, <4>3, <4>4, <4>5
    <3>4. state[c] = "none" /\ left[c] = Count[c]
      BY <3>1 DEF ActionInv, CallerDiscipline, TokenDiscipline
    <3>5. TokenDiscipline'
      BY <3>1, <3>2, <3>3, <3>4 DEF TokenDiscipline
    <3>6. ExhaustedStaysOut'
      BY <3>1, <3>2, <3>3, <3>4 DEF ExhaustedStaysOut
    <3> QED  BY <3>5, <3>6
  <2>22. ASSUME NEW c \in Tokens, UnregisterTimer(c) \/ UnregisterInContext(c) PROVE TimerInv'
    <3>1. /\ \E v \in {"check", "inside"} : call' = [call EXCEPT ![c] = v]
          /\ call[c] = "registered" /\ left' = left /\ state' = state
          /\ executing' = executing /\ current' = current /\ pc' = pc
      BY <2>22 DEF UnregisterTimer, UnregisterInContext, RemoveClient
    <3>2. /\ timers' = {t \in timers : clients[t] # {c}}
          /\ clients' = [t \in Tokens |-> IF t \in timers THEN clients[t] \ {c} ELSE clients[t]]
      BY <2>22 DEF UnregisterTimer, UnregisterInContext, RemoveClient
    <3>3. /\ \A t \in Tokens : clients'[t] = clients[t] \ {c}
          /\ \A t \in Tokens \ timers' : clients'[t] = {}
      BY <3>2 DEF TokenDiscipline
    <3>4. state[c] = "none"
      BY <3>1 DEF ActionInv, CallerDiscipline
    <3>5. TokenDiscipline'
      BY <3>1, <3>3, <3>4 DEF TokenDiscipline
    <3>6. ExhaustedStaysOut'
      BY <3>1, <3>3 DEF ExhaustedStaysOut
    <3> QED  BY <3>5, <3>6
  <2>23. ASSUME NEW c \in Tokens, Elapse(c) PROVE TimerInv'
    <3>1. TokenDiscipline'
      BY <2>23 DEF TokenDiscipline, Elapse
    <3>2. ExhaustedStaysOut'
      BY <2>23 DEF ExhaustedStaysOut, Elapse
    <3> QED  BY <3>1, <3>2 DEF TimerInv
  <2>24. CASE UNCHANGED vars
    <3>1. TokenDiscipline'
      BY <2>24 DEF TokenDiscipline, vars
    <3>2. ExhaustedStaysOut'
      BY <2>24 DEF ExhaustedStaysOut, vars
    <3> QED  BY <3>1, <3>2 DEF TimerInv
  <2> QED
    BY <2>1, <2>2, <2>3, <2>4, <2>5, <2>6, <2>7, <2>8, <2>9, <2>10, <2>11, <2>12, <2>13, <2>14, <2>15, <2>16, <2>17, <2>18, <2>19, <2>20, <2>21, <2>22, <2>23, <2>24
       DEF Next, WorkerStep, CallerStep, DisposerStep
<1> QED
  BY <1>1, <1>2, TypeCorrect, QueueInvariant, PTL DEF Spec

\* unregister_timer from another thread that returned after its sync: the
\* callback neither runs nor can run again.
THEOREM UnregisteredStaysQuiet == Spec => []QuietAfterUnregister
<1>1. TypeOK /\ ActionInv /\ TimerInv => QuietAfterUnregister
  <2> SUFFICES ASSUME TypeOK, ActionInv, TimerInv, NEW c \in Tokens, call[c] = "returned"
               PROVE  c \notin executing /\ ~Firing(c) /\ \A t \in Tokens : c \notin clients[t]
    BY DEF QuietAfterUnregister
  <2>1. state[c] \in {"completed", "exception"}
    BY JobSets DEF ActionInv, CallerDiscipline
  <2> QED  BY <2>1 DEF TimerInv, TokenDiscipline
<1> QED
  BY <1>1, TypeCorrect, QueueInvariant, TimerInvariant, PTL

\* The invocation_count given to register_timer is never exceeded.
THEOREM CountNeverExceeded == Spec => []ExhaustedStaysOut
<1>1. TimerInv => ExhaustedStaysOut
  BY DEF TimerInv
<1> QED
  BY <1>1, TimerInvariant, PTL
-----------------------------------------------------------------------------
\* Posting is acceptance at the end of the line, or refusal once closed.
LEMMA AddIsAccept ==
  ASSUME TypeOK, NEW j \in Jobs, state[j] = "none", AddAction(j)
  PROVE  Promise!Accept(j) \/ Promise!Refuse(j)
<1> USE DEF TypeOK, WorkOK
<1>1. CASE running
  <2>1. /\ pendingActions' = pendingActions /\ actions' = Append(actions, j) /\ running' = running
        /\ state' = [state EXCEPT ![j] = "pending"]
    BY <1>1 DEF AddAction, locals
  <2>2. Line' = Append(Line, j)
    BY <1>1, PostAppends
  <2> QED  BY <1>1, <2>1, <2>2 DEF Promise!Accept
<1>2. CASE ~running
  BY <1>2 DEF AddAction, locals, Promise!Refuse, Line
<1> QED  BY <1>1, <1>2

\* Cancelling m_actions cuts the line behind the worker's batch.
LEMMA CancelIsTail ==
  ASSUME TypeOK, CancelActions, pendingActions' = pendingActions
  PROVE  Promise!CancelTail(Len(pendingActions)) /\ Len(pendingActions) \in 0 .. Len(Line)
<1> USE DEF TypeOK, WorkOK
<1>1. /\ Len(Line) = Len(pendingActions) + Len(actions)
      /\ DOMAIN actions = 1 .. Len(actions)
      /\ Len(pendingActions) \in Nat /\ Len(actions) \in Nat
      /\ \A i \in 1 .. Len(pendingActions) : Line[i] = pendingActions[i]
      /\ \A i \in 1 .. Len(actions) : Line[i + Len(pendingActions)] = actions[i]
  BY ConcatProperties DEF Line
<1>2. Line' = SubSeq(Line, 1, Len(pendingActions))
  <2>1. Line' = pendingActions
    BY DEF Line, CancelActions
  <2>2. Line \in Seq(Jobs)
    BY ConcatProperties DEF Line
  <2> QED  BY <2>1, <2>2, <1>1
<1>3. ASSUME NEW k \in Jobs
      PROVE  (\E i \in DOMAIN actions : actions[i] = k)
               <=> \E i \in Len(pendingActions) + 1 .. Len(Line) : Line[i] = k
  <2>1. ASSUME NEW i \in DOMAIN actions, actions[i] = k
        PROVE  \E n \in Len(pendingActions) + 1 .. Len(Line) : Line[n] = k
    <3>1. i + Len(pendingActions) \in Len(pendingActions) + 1 .. Len(Line)
      BY <1>1
    <3>2. Line[i + Len(pendingActions)] = k
      BY <1>1, <2>1
    <3> QED  BY <3>1, <3>2
  <2>2. ASSUME NEW n \in Len(pendingActions) + 1 .. Len(Line), Line[n] = k
        PROVE  \E i \in DOMAIN actions : actions[i] = k
    <3>1. PICK i \in Int : i = n - Len(pendingActions)
      BY <1>1
    <3>2. i \in 1 .. Len(actions) /\ i + Len(pendingActions) = n
      BY <1>1, <3>1
    <3>3. Line[i + Len(pendingActions)] = actions[i]
      BY <1>1, <3>2
    <3> QED  BY <1>1, <2>2, <3>2, <3>3
  <2> QED  BY <2>1, <2>2
<1>4. state' = [k \in Jobs |-> IF \E i \in Len(pendingActions) + 1 .. Len(Line) : Line[i] = k
                                 THEN "cancelled" ELSE state[k]]
  BY <1>3 DEF CancelActions
<1> QED  BY <1>1, <1>2, <1>4 DEF Promise!CancelTail

\* Every behaviour of the context is a behaviour of the abstract queue.
THEOREM ContextKeepsPromise == Spec => KeepsPromise
<1>1. Init => Promise!Init
  BY DEF Init, Promise!Init, Line
<1>2. TypeOK /\ ActionInv /\ [Next]_vars => [Promise!Next]_(Promise!vars)
  <2> SUFFICES ASSUME TypeOK, ActionInv, [Next]_vars
               PROVE  Promise!Next \/ (Line' = Line /\ state' = state /\ running' = running)
    BY DEF Promise!vars
  <2> USE JobSets DEF members, timerVars, locals, callers
  <2>1. CASE Top \/ EvaluatePred \/ Block \/ SpuriousWake \/ Timeout \/ NextTimer \/ NextClient \/ EndClient
    BY <2>1 DEF Top, EvaluatePred, Block, SpuriousWake, Timeout, NextTimer, NextClient, EndClient,
                onlyPc, Line
  <2>2. CASE TakeWork
    BY <2>2, TakeKeepsLine DEF TakeWork, ActionInv
  <2>3. CASE NextAction
    <3>1. CASE pendingActions = <<>>
      BY <2>3, <3>1 DEF NextAction, Line
    <3>2. CASE pendingActions # <<>>
      <4>1. /\ pendingActions' = Tail(pendingActions) /\ actions' = actions /\ running' = running
            /\ stackStopper => state' = [state EXCEPT ![Head(pendingActions)] = "cancelled"]
            /\ ~stackStopper => state' = [state EXCEPT ![Head(pendingActions)] = "running"]
        BY <2>3, <3>2 DEF NextAction
      <4>2. Line # <<>> /\ Head(Line) = Head(pendingActions) /\ Line' = Tail(Line)
        BY <3>2, <4>1, LineTail DEF Line, TypeOK, WorkOK
      <4>3. CASE stackStopper
        <5>1. ~running
          BY <4>3 DEF ActionInv, WorkerDiscipline
        <5> QED  BY <4>1, <4>2, <4>3, <5>1 DEF Promise!Next, Promise!CancelHead
      <4>4. CASE ~stackStopper
        <5>1. \A j \in Jobs : state[j] # "running"
          BY <2>3 DEF NextAction, ActionInv, QueuedOnce
        <5> QED  BY <4>1, <4>2, <4>4, <5>1 DEF Promise!Next, Promise!Start
      <4> QED  BY <4>3, <4>4
    <3> QED  BY <3>1, <3>2
  <2>4. CASE EndAction
    <3>1. /\ Line' = Line /\ running' = running /\ pc = "action"
          /\ \E v \in {"completed", "exception"} : state' = [state EXCEPT ![current] = v]
      BY <2>4 DEF EndAction, Line
    <3>2. CASE current \in Jobs
      <4>1. state[current] = "running"
        BY <3>1, <3>2 DEF ActionInv, QueuedOnce
      <4> QED  BY <3>1, <3>2, <4>1 DEF Promise!Next, Promise!Finish
    <3>3. CASE current \notin Jobs
      BY <3>1, <3>3 DEF TypeOK, WorkOK
    <3> QED  BY <3>2, <3>3
  <2>5. CASE DisposeSelf
    <3>1. CancelActions /\ pendingActions' = pendingActions /\ running /\ running' = FALSE
      BY <2>5 DEF DisposeSelf
    <3> QED  BY <3>1, CancelIsTail DEF Promise!Next, Promise!CloseAndCancel
  <2>6. CASE Dispose
    BY <2>6 DEF Dispose, Line, Promise!Next, Promise!Close
  <2>7. CASE DisposeNotify \/ DisposeJoin
    BY <2>7 DEF DisposeNotify, DisposeJoin, Line
  <2>8. CASE DisposeClean
    <3>1. CancelActions /\ pendingActions' = pendingActions /\ ~running /\ running' = running
      BY <2>8 DEF DisposeClean, ActionInv, WorkerDiscipline
    <3>2. pendingActions = <<>>
      BY <2>8 DEF DisposeClean, ActionInv, WorkerDiscipline, Working
    <3>3. Promise!CancelTail(0)
      BY <3>1, <3>2, CancelIsTail
    <3> QED  BY <3>1, <3>3 DEF Promise!Next, Promise!CancelAll
  <2>9. CASE Suspend \/ Resume
    BY <2>9 DEF Suspend, Resume, Line
  <2>10. ASSUME NEW a \in Actions, BeginInvoke(a) PROVE Promise!Next
    BY <2>10, AddIsAccept DEF BeginInvoke, Promise!Next
  <2>11. ASSUME NEW a \in Actions, InvokeInPlace(a) PROVE Promise!Next
    <3>1. Promise!InPlace(a)
      BY <2>11 DEF InvokeInPlace, Line, Promise!InPlace
    <3> QED  BY <3>1 DEF Promise!Next
  <2>12. ASSUME NEW a \in Actions, Recreate(a) PROVE Promise!Next
    <3>1. Promise!Renew(a)
      BY <2>12 DEF Recreate, Line, Final, Promise!Renew
    <3> QED  BY <3>1 DEF Promise!Next
  <2>13. ASSUME NEW k \in Callers, CheckSuspended(k) \/ WaitSync(k)
         PROVE  Line' = Line /\ state' = state /\ running' = running
    BY <2>13 DEF CheckSuspended, WaitSync, Line
  <2>14. ASSUME NEW k \in Callers, PostSync(k) PROVE Promise!Next
    <3>1. state[k] = "none"
      BY <2>14 DEF PostSync, ActionInv, CallerDiscipline
    <3> QED  BY <2>14, <3>1, AddIsAccept DEF PostSync, Promise!Next
  <2>15. ASSUME NEW k \in Syncers, Sync(k)
         PROVE  Line' = Line /\ state' = state /\ running' = running
    BY <2>15 DEF Sync, Line
  <2>16. ASSUME NEW c \in Tokens,
                RegisterTimer(c) \/ UnregisterTimer(c) \/ UnregisterInContext(c) \/ Elapse(c)
         PROVE  Line' = Line /\ state' = state /\ running' = running
    BY <2>16 DEF RegisterTimer, UnregisterTimer, UnregisterInContext, RemoveClient, Elapse, Line
  <2>17. CASE UNCHANGED vars
    BY <2>17 DEF vars, Line
  <2> QED
    BY <2>1, <2>2, <2>3, <2>4, <2>5, <2>6, <2>7, <2>8, <2>9, <2>10, <2>11, <2>12, <2>13, <2>14,
       <2>15, <2>16, <2>17 DEF Next, WorkerStep, CallerStep, DisposerStep
<1> QED
  BY <1>1, <1>2, TypeCorrect, QueueInvariant, PTL DEF Spec, KeepsPromise, Promise!Spec
=============================================================================
