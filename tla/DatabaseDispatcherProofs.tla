----------------------- MODULE DatabaseDispatcherProofs -----------------------
(***************************************************************************)
(* Proofs about the dispatching of row updates, for any finite set of      *)
(* functions, any size of the pools and any number of writes: an update    *)
(* carries what it was posted for, an owner ends up knowing the row, and a *)
(* sync after unsubscribe is final.                                        *)
(*                                                                         *)
(* The jobs of the batch and of the queue are read as one line.  Its       *)
(* updates of one function are in the order of the writes; from that       *)
(* follow both the freshness of what the owner knows and the bound of the  *)
(* buffer pools.                                                           *)
(***************************************************************************)
EXTENDS DatabaseDispatcher, FiniteSetTheorems, SequenceTheorems, TLAPS

\* No token is used twice.
Distinct == \A s, u \in subscribers : s[1] = u[1] => s = u

Subscriptions == TokenOwned /\ Distinct

\* The inductive invariant, without what the owners know.
DispatcherInv ==
  TypeOK /\ Subscriptions /\ WriterDiscipline /\ OrderDiscipline /\ PoolDiscipline /\ StageDiscipline

\* The bounds are positive.
LEMMA Bounds ==
  BufferBase \in Nat \ {0} /\ ActionBase \in Nat \ {0} /\ MaxWrites \in Nat \ {0}
BY DispatcherAssumption

\* "Nobody is being called" is told apart from every function.
LEMMA NoneIsNoFunc == None \notin Funcs
BY SignalAssumption

\* Tokens are natural numbers, and Undefined is none of them.
LEMMA TokensAreNat == Tokens \subseteq Nat /\ Undefined \notin Tokens
<1>1. Cardinality(Funcs) \in Nat
  BY FS_CardinalityType, SignalAssumption
<1> QED  BY <1>1 DEF Tokens, Undefined
-----------------------------------------------------------------------------
(* The line of jobs.                                                       *)

\* The line is a sequence of jobs: first those of the batch, then those of the queue.
LEMMA LineIs ==
  ASSUME TypeOK
  PROVE  /\ Line \in Seq(JobRecords) /\ DOMAIN Line = 1 .. Len(Line)
         /\ Len(Line) = Len(batch) + Len(queue)
         /\ Len(Line) \in Nat /\ Len(batch) \in Nat /\ Len(queue) \in Nat
         /\ DOMAIN batch = 1 .. Len(batch) /\ DOMAIN queue = 1 .. Len(queue)
         /\ \A n \in DOMAIN Line : Line[n] \in JobRecords
         /\ \A n \in 1 .. Len(batch) : n \in DOMAIN Line /\ Line[n] = batch[n]
         /\ \A n \in 1 .. Len(queue) : Line[n + Len(batch)] = queue[n]
         /\ at \in Nat /\ at <= Len(batch)
<1>1. batch \in Seq(JobRecords) /\ queue \in Seq(JobRecords) /\ at \in 0 .. Len(batch)
  BY DEF TypeOK
<1> HIDE DEF JobRecords
<1>2. /\ Line \in Seq(JobRecords) /\ Len(Line) = Len(batch) + Len(queue)
      /\ Len(batch) \in Nat /\ Len(queue) \in Nat
      /\ \A n \in 1 .. Len(batch) : Line[n] = batch[n]
      /\ \A n \in 1 .. Len(queue) : Line[n + Len(batch)] = queue[n]
  BY <1>1, ConcatProperties DEF Line
<1>3. /\ DOMAIN Line = 1 .. Len(Line) /\ Len(Line) \in Nat
      /\ DOMAIN batch = 1 .. Len(batch) /\ DOMAIN queue = 1 .. Len(queue)
      /\ \A n \in DOMAIN Line : Line[n] \in JobRecords
  BY <1>1, <1>2
<1>4. \A n \in 1 .. Len(batch) : n \in DOMAIN Line
  BY <1>2, <1>3
<1> QED  BY <1>1, <1>2, <1>3, <1>4

\* The records in it.
LEMMA JobKinds ==
  ASSUME NEW j \in JobRecords
  PROVE  /\ j.func \in Funcs /\ j.kind \in {"update", "unsubscribe", "sync"}
         /\ j.kind = "update" => j.action \in ActionIds /\ j.value \in 0 .. MaxWrites
BY DEF JobRecords

\* The pending positions are in the line.
LEMMA WaitingIs ==
  ASSUME TypeOK, OrderDiscipline
  PROVE  Waiting \subseteq DOMAIN Line
<1>1. at \in Nat /\ Len(Line) \in Nat /\ DOMAIN Line = 1 .. Len(Line)
  BY LineIs
<1>2. CASE running
  BY <1>1, <1>2 DEF Waiting, OrderDiscipline
<1>3. CASE ~running
  BY <1>1, <1>3 DEF Waiting
<1> QED  BY <1>2, <1>3

\* begin_invoke appends to the line.
LEMMA LineAppends ==
  ASSUME TypeOK, NEW j \in JobRecords, queue' = Append(queue, j), batch' = batch,
         at' = at, running' = running
  PROVE  /\ DOMAIN Line' = 1 .. Len(Line) + 1 /\ Len(Line') = Len(Line) + 1
         /\ Line'[Len(Line) + 1] = j
         /\ \A n \in DOMAIN Line : n \in DOMAIN Line' /\ Line'[n] = Line[n] /\ n < Len(Line) + 1
         /\ \A n \in DOMAIN Line' : n \in DOMAIN Line \/ n = Len(Line) + 1
         /\ \A n \in Waiting : n \in Waiting'
         /\ \A n \in Waiting' : n \in Waiting \/ n = Len(Line) + 1
         /\ Len(Line) + 1 \in Waiting'
<1>1. /\ batch \in Seq(JobRecords) /\ queue \in Seq(JobRecords) /\ Append(queue, j) \in Seq(JobRecords)
      /\ Len(Append(queue, j)) = Len(queue) + 1
      /\ \A n \in 1 .. Len(queue) : Append(queue, j)[n] = queue[n]
      /\ Append(queue, j)[Len(queue) + 1] = j
  BY DEF TypeOK
<1> HIDE DEF JobRecords
<1>2. /\ Line' = batch \o Append(queue, j)
      /\ Line' \in Seq(JobRecords) /\ Len(Line') = Len(batch) + Len(queue) + 1
      /\ \A n \in 1 .. Len(batch) : Line'[n] = batch[n]
      /\ \A n \in 1 .. Len(queue) + 1 : Line'[n + Len(batch)] = Append(queue, j)[n]
  BY <1>1, LineIs, ConcatProperties DEF Line
<1>3. /\ DOMAIN Line = 1 .. Len(Line) /\ Len(Line) = Len(batch) + Len(queue)
      /\ Len(batch) \in Nat /\ Len(queue) \in Nat /\ at \in Nat /\ at <= Len(batch)
      /\ \A n \in 1 .. Len(batch) : Line[n] = batch[n]
      /\ \A n \in 1 .. Len(queue) : Line[n + Len(batch)] = queue[n]
  BY LineIs
<1>4. DOMAIN Line' = 1 .. Len(Line) + 1 /\ Len(Line') = Len(Line) + 1
  BY <1>2, <1>3
<1>5. Line'[Len(Line) + 1] = j
  <2>1. Len(queue) + 1 \in 1 .. Len(queue) + 1 /\ Len(Line) + 1 = Len(queue) + 1 + Len(batch)
    BY <1>3
  <2> QED  BY <1>1, <1>2, <2>1
<1>6. ASSUME NEW n \in DOMAIN Line PROVE Line'[n] = Line[n]
  <2>1. CASE n <= Len(batch)
    BY <1>2, <1>3, <1>6, <2>1
  <2>2. CASE n > Len(batch)
    <3>1. PICK k \in 1 .. Len(queue) : n = k + Len(batch)
      <4>1. n - Len(batch) \in 1 .. Len(queue) /\ n = (n - Len(batch)) + Len(batch)
        BY <1>3, <1>6, <2>2
      <4> QED  BY <4>1
    <3>2. Line'[k + Len(batch)] = Append(queue, j)[k]
      BY <1>2, <1>3, <3>1
    <3>3. Append(queue, j)[k] = queue[k] /\ Line[k + Len(batch)] = queue[k]
      BY <1>1, <1>3, <3>1
    <3> QED  BY <3>1, <3>2, <3>3
  <2> QED  BY <1>3, <1>6, <2>1, <2>2
<1>7. PICK L \in Nat, w \in Nat :
        /\ L = Len(Line) /\ w = (IF running THEN at ELSE at + 1) /\ w <= L + 1
        /\ DOMAIN Line = 1 .. L /\ DOMAIN Line' = 1 .. L + 1
        /\ Waiting = w .. L /\ Waiting' = w .. L + 1
  <2>1. /\ Len(Line) \in Nat /\ (IF running THEN at ELSE at + 1) \in Nat
        /\ (IF running THEN at ELSE at + 1) <= Len(Line) + 1
    BY <1>3
  <2>2. Waiting' = (IF running THEN at ELSE at + 1) .. Len(Line) + 1
    BY <1>4 DEF Waiting
  <2> QED  BY <1>3, <1>4, <2>1, <2>2 DEF Waiting
<1>8. /\ \A n \in 1 .. L : n \in 1 .. L + 1 /\ n < L + 1
      /\ \A n \in 1 .. L + 1 : n \in 1 .. L \/ n = L + 1
      /\ \A n \in w .. L : n \in w .. L + 1
      /\ \A n \in w .. L + 1 : n \in w .. L \/ n = L + 1
      /\ L + 1 \in w .. L + 1
  BY <1>7
<1> QED  BY <1>4, <1>5, <1>6, <1>7, <1>8

\* What the pools see of the jobs is what is in the line.
LEMMA PostedIs ==
  ASSUME TypeOK, NEW n \in DOMAIN Line, NEW f, IsUpdate(Line[n], f)
  PROVE  Posted(f, Line[n].action)
<1>1. n \in 1 .. Len(Line) /\ Len(Line) = Len(batch) + Len(queue) /\ Len(batch) \in Nat /\ Len(queue) \in Nat
  BY LineIs
<1>2. CASE n <= Len(batch)
  <2>1. n \in DOMAIN batch /\ Line[n] = batch[n]
    BY <1>1, <1>2, LineIs
  <2> QED  BY <2>1 DEF Posted, Jobs, Range, IsUpdate
<1>3. CASE n > Len(batch)
  <2>1. PICK k \in 1 .. Len(queue) : n = k + Len(batch)
    <3>1. n - Len(batch) \in 1 .. Len(queue) /\ n = (n - Len(batch)) + Len(batch)
      BY <1>1, <1>3
    <3> QED  BY <3>1
  <2>2. k \in DOMAIN queue /\ Line[n] = queue[k]
    BY <2>1, LineIs
  <2> QED  BY <2>2 DEF Posted, Jobs, Range, IsUpdate
<1> QED  BY <1>1, <1>2, <1>3

\* The job that the worker began last, and the next one.
LEMMA BatchIs ==
  ASSUME TypeOK
  PROVE  /\ at > 0 => at \in DOMAIN Line /\ Line[at] = batch[at] /\ batch[at] \in JobRecords
         /\ at < Len(batch) => /\ at + 1 \in DOMAIN Line /\ Line[at + 1] = batch[at + 1]
                               /\ batch[at + 1] \in JobRecords
BY LineIs

\* Swapping the queue into an empty batch moves nothing in the line.
LEMMA LineTaken ==
  ASSUME TypeOK, TakeBatch
  PROVE  Line' = Line /\ Waiting' = Waiting
<1>1. Line' = Line
  BY ConcatEmptySeq DEF TakeBatch, TypeOK, Line
<1> QED  BY <1>1 DEF TakeBatch, Waiting

\* Releasing the batch leaves the queue, and the pending jobs are the same.
LEMMA LineEnds ==
  ASSUME TypeOK, EndBatch
  PROVE  /\ Len(batch) \in Nat
         /\ \A n \in DOMAIN Line' :
              n \in Nat /\ n + Len(batch) \in DOMAIN Line /\ Line'[n] = Line[n + Len(batch)]
         /\ \A n \in Waiting' : n \in DOMAIN Line' /\ n + Len(batch) \in Waiting
         /\ \A n \in Waiting : \E k \in Waiting' : n = k + Len(batch)
         /\ ~running' /\ at' = 0
<1>1. /\ batch' = <<>> /\ at' = 0 /\ running' = running /\ queue' = queue
      /\ at = Len(batch) /\ ~running
  BY DEF EndBatch
<1>2. /\ DOMAIN Line = 1 .. Len(Line) /\ Len(Line) = Len(batch) + Len(queue)
      /\ Len(batch) \in Nat /\ Len(queue) \in Nat
      /\ \A n \in 1 .. Len(queue) : Line[n + Len(batch)] = queue[n]
  BY LineIs
<1>3. Line' = queue
  BY <1>1, ConcatEmptySeq DEF TypeOK, Line
<1>4. DOMAIN Line' = 1 .. Len(queue) /\ Len(Line') = Len(queue)
  BY <1>3, LineIs
<1>5. \A n \in DOMAIN Line' :
        n \in Nat /\ n + Len(batch) \in DOMAIN Line /\ Line'[n] = Line[n + Len(batch)]
  BY <1>2, <1>3, <1>4
<1>6. Waiting = Len(batch) + 1 .. Len(Line) /\ Waiting' = 1 .. Len(queue)
  BY <1>1, <1>4 DEF Waiting
<1>7. \A n \in Waiting' : n \in DOMAIN Line' /\ n + Len(batch) \in Waiting
  BY <1>2, <1>4, <1>6
<1>8. ASSUME NEW n \in Waiting PROVE \E k \in Waiting' : n = k + Len(batch)
  <2>1. n - Len(batch) \in Waiting' /\ n = (n - Len(batch)) + Len(batch)
    BY <1>2, <1>6
  <2> QED  BY <2>1
<1> QED  BY <1>1, <1>2, <1>5, <1>7, <1>8
-----------------------------------------------------------------------------
(* The signal.                                                             *)

\* subscribe takes a token that nobody has.
LEMMA SubscribeKeeps ==
  ASSUME SignalTypeOK, Subscriptions, NEW f \in Funcs, Subscribe(f)
  PROVE  SignalTypeOK' /\ Subscriptions' /\ token[f] = Undefined /\ token'[f] # Undefined
         /\ (\A g \in Funcs : g # f => token'[g] = token[g]) /\ UNCHANGED <<cloned, calling>>
<1> USE DEF SignalTypeOK, Subscriptions
<1>1. PICK t \in Tokens \ Used :
        /\ subscribers' = subscribers \cup {<<t, f>>}
        /\ token' = [token EXCEPT ![f] = t]
  BY DEF Subscribe
<1>2. token[f] = Undefined /\ UNCHANGED <<cloned, calling>>
  BY DEF Subscribe
<1>3. \A s \in subscribers : s[1] # t
  BY DEF Used
<1>4. \A s \in subscribers : s[2] # f
  BY <1>2, TokensAreNat DEF TokenOwned
<1>5. SignalTypeOK'
  BY <1>1, <1>2
<1>6. TokenOwned' /\ Distinct'
  BY <1>1, <1>3, <1>4 DEF TokenOwned, Distinct
<1>7. token'[f] # Undefined /\ \A g \in Funcs : g # f => token'[g] = token[g]
  BY <1>1, TokensAreNat
<1> QED  BY <1>2, <1>5, <1>6, <1>7

\* Erasing by token ends the subscription of its owner and no other one.
LEMMA UnsubscribeKeeps ==
  ASSUME SignalTypeOK, Subscriptions, NEW f \in Funcs, Unsubscribe(f)
  PROVE  SignalTypeOK' /\ Subscriptions' /\ token'[f] = Undefined
         /\ (\A g \in Funcs : g # f => token'[g] = token[g]) /\ UNCHANGED <<cloned, calling>>
<1> USE DEF SignalTypeOK, Subscriptions, Unsubscribe
<1>1. \A g \in Funcs : token[g] # Undefined /\ g # f => token[g] # token[f]
  BY DEF TokenOwned, Distinct
<1>2. SignalTypeOK'
  OBVIOUS
<1>3. TokenOwned' /\ Distinct'
  BY <1>1 DEF TokenOwned, Distinct
<1>4. token'[f] = Undefined /\ (\A g \in Funcs : g # f => token'[g] = token[g])
  OBVIOUS
<1> QED  BY <1>2, <1>3, <1>4

\* The steps of a raise leave the subscriptions alone.
LEMMA RaiseKeeps ==
  ASSUME SignalTypeOK, Subscriptions, Raise \/ Invoke \/ Invoked \/ UNCHANGED signalVars
  PROVE  SignalTypeOK' /\ Subscriptions' /\ UNCHANGED <<subscribers, token>>
<1> USE DEF SignalTypeOK, Subscriptions
<1>1. UNCHANGED <<subscribers, token>>
  BY DEF Raise, Invoke, Invoked, signalVars
<1>2. SignalTypeOK'
  BY <1>1 DEF Raise, Invoke, Invoked, signalVars
<1>3. TokenOwned' /\ Distinct'
  BY <1>1 DEF TokenOwned, Distinct
<1> QED  BY <1>1, <1>2, <1>3

\* Each step subscribes, unsubscribes, raises or leaves the signal alone.
LEMMA SignalStep ==
  ASSUME DispatcherInv, [Next]_vars
  PROVE  SignalTypeOK' /\ Subscriptions'
<1>1. SignalTypeOK /\ Subscriptions
  BY DEF DispatcherInv, TypeOK
<1>2. ASSUME NEW f \in Funcs, SubGet(f) \/ BindSubscribe(f) PROVE SignalTypeOK' /\ Subscriptions'
  BY <1>1, <1>2, SubscribeKeeps DEF SubGet, BindSubscribe
<1>3. ASSUME NEW f \in Funcs, Unregister(f) PROVE SignalTypeOK' /\ Subscriptions'
  BY <1>1, <1>3, UnsubscribeKeeps DEF Unregister, Leave
<1>4. CASE InvokeUnsubscribe
  <2>1. batch[at + 1].func \in Funcs /\ Unsubscribe(batch[at + 1].func)
    BY <1>4, BatchIs, JobKinds DEF InvokeUnsubscribe, Begins, Leave, DispatcherInv
  <2> QED  BY <1>1, <2>1, UnsubscribeKeeps
<1>5. CASE RaiseSignal \/ CallFunc \/ PostUpdate
  BY <1>1, <1>5, RaiseKeeps DEF RaiseSignal, CallFunc, PostUpdate
<1>6. CASE UNCHANGED signalVars
  BY <1>1, <1>6, RaiseKeeps
<1> QED  BY <1>2, <1>3, <1>4, <1>5, <1>6
         DEF Next, OwnerStep, WriterStep, WorkerStep, SubGetRead, Bind, PostUnsubscribe, Sync, Write,
             RaiseRow, TakeBuffer, EndRaise, TakeBatch, Perform, Performed, InvokeSync, EndBatch, vars
-----------------------------------------------------------------------------
(* The pool of buffers.                                                    *)

\* More buffers than values: two of them are for the same write.
LEMMA MoreThanFit ==
  ASSUME NEW p \in Nat, NEW v \in Nat, v < p, NEW g \in [1 .. p -> 0 .. v - 1]
  PROVE  \E b, c \in 1 .. p : b # c /\ g[b] = g[c]
<1>1. 1 \in Int /\ p \in Int /\ 0 \in Int /\ v - 1 \in Int
  OBVIOUS
<1>2. IsFiniteSet(1 .. p) /\ Cardinality(1 .. p) = IF 1 > p THEN 0 ELSE p - 1 + 1
  BY <1>1, FS_Interval
<1>3. IsFiniteSet(0 .. v - 1) /\ Cardinality(0 .. v - 1) = IF 0 > v - 1 THEN 0 ELSE v - 1 - 0 + 1
  BY <1>1, FS_Interval, Zenon
<1>4. Cardinality(0 .. v - 1) < Cardinality(1 .. p)
  BY <1>2, <1>3
<1> QED  BY <1>2, <1>3, <1>4, FS_PigeonHole

\* While a function is called, each buffer in use has an update of an earlier write: a
\* pool without a free buffer is not larger than the number of writes.
LEMMA PoolFits ==
  ASSUME DispatcherInv, NEW f \in Funcs, calling = f, FreeBuffers(f) = {}
  PROVE  poolSize[f] <= value
<1>1. poolSize[f] \in Nat /\ value \in Nat
  BY Bounds DEF DispatcherInv, TypeOK, Buffers
<1> DEFINE Holds(b, n) == /\ IsUpdate(Line[n], f) /\ Line[n].action \in ActionIds
                          /\ carried[f][Line[n].action] = b
           job == [b \in 1 .. poolSize[f] |-> CHOOSE n \in DOMAIN Line : Holds(b, n)]
           g == [b \in 1 .. poolSize[f] |-> Line[job[b]].value]
<1>2. ASSUME NEW b \in 1 .. poolSize[f] PROVE \E n \in DOMAIN Line : Holds(b, n)
  <2>1. PICK i \in ActionIds : carried[f][i] = b
    BY DEF FreeBuffers, InUse
  <2>2. b # NoBuffer
    BY <1>1 DEF NoBuffer
  <2>3. PICK n \in Waiting : IsUpdate(Line[n], f) /\ Line[n].action = i
    BY <2>1, <2>2 DEF DispatcherInv, PoolDiscipline
  <2> QED  BY <2>1, <2>3, WaitingIs DEF DispatcherInv
<1>3. \A b \in 1 .. poolSize[f] : job[b] \in DOMAIN Line /\ Holds(b, job[b])
  BY <1>2
<1> HIDE DEF job
<1>4. ASSUME NEW n \in DOMAIN Line, IsUpdate(Line[n], f) PROVE Line[n].value \in 0 .. value - 1
  <2>1. Line[n].value < value
    BY <1>4 DEF DispatcherInv, OrderDiscipline, IsUpdate, WillCall
  <2>2. Line[n].value \in 0 .. MaxWrites
    BY <1>4, LineIs, JobKinds DEF IsUpdate, DispatcherInv
  <2> QED  BY <1>1, <2>1, <2>2, Bounds
<1>5. g \in [1 .. poolSize[f] -> 0 .. value - 1]
  BY <1>3, <1>4
<1>6. ASSUME NEW b \in 1 .. poolSize[f], NEW c \in 1 .. poolSize[f], g[b] = g[c] PROVE b = c
  <2>1. PICK n \in DOMAIN Line, m \in DOMAIN Line :
          Holds(b, n) /\ Holds(c, m) /\ Line[n].value = Line[m].value
    BY <1>3, <1>6
  <2>2. n = m
    <3>1. n \in Nat /\ m \in Nat /\ Line[n].value \in 0 .. value - 1
      BY <1>4, <2>1, LineIs DEF DispatcherInv
    <3>2. ~(m < n) /\ ~(n < m)
      BY <1>1, <2>1, <3>1 DEF DispatcherInv, OrderDiscipline, IsUpdate
    <3> QED  BY <3>1, <3>2
  <2> QED  BY <2>1, <2>2
<1> HIDE DEF g
<1>7. CASE poolSize[f] > value
  <2>2. \E b, c \in 1 .. poolSize[f] : b # c /\ g[b] = g[c]
    BY <1>1, <1>5, <1>7, MoreThanFit
  <2> QED  BY <1>6, <2>2
<1> QED  BY <1>1, <1>7

\* get_item: the buffer that it returns is nobody else's, and the pool is large enough.
LEMMA BufferTaken ==
  ASSUME DispatcherInv, TakeBuffer
  PROVE  /\ calling \in Funcs /\ calling' = calling
         /\ buffer' \in 1 .. poolSize'[calling] /\ buffer' \in Buffers
         /\ ~InUse(calling, buffer')
         /\ poolSize' \in [Funcs -> Buffers]
         /\ \A f \in Funcs : poolSize[f] <= poolSize'[f]
         /\ data' = [data EXCEPT ![calling][buffer'] = value]
<1> DEFINE f == calling
           full == FreeBuffers(f) = {}
<1>1. f \in Funcs /\ calling' = calling
  BY DEF TakeBuffer, DispatcherInv, TypeOK, SignalTypeOK, signalVars
<1>2. /\ poolSize' = [poolSize EXCEPT ![f] = IF full THEN 2 * @ ELSE @]
      /\ buffer' \in IF full THEN {poolSize[f] + 1} ELSE FreeBuffers(f)
      /\ data' = [data EXCEPT ![f][buffer'] = value]
  BY DEF TakeBuffer
<1>3. /\ poolSize \in [Funcs -> Buffers] /\ \A h \in Funcs : poolSize[h] \in Nat \ {0}
      /\ value \in 0 .. MaxWrites
  BY Bounds DEF DispatcherInv, TypeOK, Buffers
<1>4. CASE full
  <2>1. poolSize[f] <= value
    BY <1>1, <1>4, PoolFits
  <2>2. 2 * poolSize[f] \in Buffers /\ poolSize[f] + 1 \in 1 .. 2 * poolSize[f] /\ poolSize[f] + 1 \in Buffers
    BY <1>1, <1>3, <2>1, Bounds DEF Buffers
  <2>3. poolSize' = [poolSize EXCEPT ![f] = 2 * poolSize[f]] /\ buffer' = poolSize[f] + 1
    BY <1>1, <1>2, <1>3, <1>4
  <2>4. \A i \in ActionIds : carried[f][i] <= poolSize[f] /\ carried[f][i] \in Nat
    <3>1. \A i \in ActionIds : carried[f][i] <= poolSize[f]
      BY <1>1 DEF DispatcherInv, PoolDiscipline
    <3>2. carried[f] \in [ActionIds -> Buffers \cup {NoBuffer}]
      BY <1>1 DEF DispatcherInv, TypeOK
    <3>3. Buffers \cup {NoBuffer} \subseteq Nat
      BY Bounds DEF Buffers, NoBuffer
    <3> QED  BY <3>1, <3>2, <3>3
  <2>5. ~InUse(f, buffer')
    BY <1>1, <1>3, <2>3, <2>4 DEF InUse
  <2>6. poolSize'[f] = 2 * poolSize[f] /\ poolSize' \in [Funcs -> Buffers]
    BY <1>1, <1>3, <2>2, <2>3
  <2>7. ASSUME NEW h \in Funcs PROVE poolSize[h] <= poolSize'[h]
    BY <1>1, <1>3, <2>3, <2>6
  <2> QED  BY <1>1, <1>2, <2>2, <2>3, <2>5, <2>6, <2>7
<1>5. CASE ~full
  <2>1. poolSize' = poolSize
    BY <1>1, <1>2, <1>3, <1>5
  <2>2. buffer' \in 1 .. poolSize[f] /\ ~InUse(f, buffer')
    BY <1>2, <1>5 DEF FreeBuffers
  <2>3. buffer' \in Buffers
    BY <1>1, <1>3, <2>2, Bounds DEF Buffers
  <2>4. \A h \in Funcs : poolSize[h] <= poolSize'[h]
    BY <1>3, <2>1
  <2> QED  BY <1>1, <1>2, <1>3, <2>1, <2>2, <2>3, <2>4
<1> QED  BY <1>4, <1>5
-----------------------------------------------------------------------------
(* The inductive invariant, part by part.                                  *)

\* A step that leaves the jobs alone leaves the line alone.
LEMMA SameLine ==
  ASSUME UNCHANGED <<queue, worker>>
  PROVE  Line' = Line /\ Waiting' = Waiting /\ UNCHANGED <<batch, at, running>>
<1>1. UNCHANGED <<queue, batch, at, running>>
  BY DEF worker
<1>2. Line' = Line
  BY <1>1 DEF Line
<1> QED  BY <1>1, <1>2 DEF Waiting

\* The worker goes on to the next job of the batch.
LEMMA NextJob ==
  ASSUME TypeOK, NEW kind, Begins(kind), UNCHANGED <<queue, batch>>
  PROVE  /\ Line' = Line /\ ~running /\ at + 1 \in DOMAIN Line /\ Line[at + 1] = batch[at + 1]
         /\ batch[at + 1] \in JobRecords /\ batch[at + 1].kind = kind /\ at + 1 \in Waiting
         /\ at' = at + 1 /\ at' \in Nat /\ at' <= Len(batch)
         /\ running' => Waiting' = Waiting
         /\ ~running' => Waiting' = Waiting \ {at + 1}
<1>1. /\ ~running /\ at < Len(batch) /\ batch[at + 1].kind = kind /\ at' = at + 1
  BY DEF Begins
<1>2. Line' = Line
  BY DEF Line
<1>3. /\ DOMAIN Line = 1 .. Len(Line) /\ Len(Line) \in Nat /\ at \in Nat /\ Len(batch) \in Nat
      /\ at + 1 \in DOMAIN Line /\ Line[at + 1] = batch[at + 1] /\ batch[at + 1] \in JobRecords
  BY <1>1, LineIs, BatchIs
<1>4. Waiting = at + 1 .. Len(Line) /\ at + 1 \in Waiting
  BY <1>1, <1>3 DEF Waiting
<1>5. running' => Waiting' = at + 1 .. Len(Line)
  BY <1>1, <1>2 DEF Waiting
<1>6. ~running' => Waiting' = at + 1 + 1 .. Len(Line)
  BY <1>1, <1>2 DEF Waiting
<1>7. at + 1 + 1 .. Len(Line) = (at + 1 .. Len(Line)) \ {at + 1}
  BY <1>3
<1> QED  BY <1>1, <1>2, <1>3, <1>4, <1>5, <1>6, <1>7

\* The function of the job that was begun last returns.
LEMMA JobReturns ==
  ASSUME TypeOK, OrderDiscipline, Performed
  PROVE  /\ Line' = Line /\ at \in DOMAIN Line /\ Line[at] = batch[at] /\ batch[at].kind = "update"
         /\ batch[at].func \in Funcs /\ batch[at].action \in ActionIds
         /\ at \in Waiting /\ Waiting' = Waiting \ {at} /\ running /\ ~running'
<1>1. running /\ ~running' /\ UNCHANGED <<queue, batch, at>>
  BY DEF Performed
<1>2. Line' = Line
  BY <1>1 DEF Line
<1>3. at > 0 /\ batch[at].kind = "update"
  BY <1>1 DEF OrderDiscipline
<1>4. at \in DOMAIN Line /\ Line[at] = batch[at] /\ batch[at] \in JobRecords
  BY <1>3, BatchIs
<1>5. batch[at].func \in Funcs /\ batch[at].action \in ActionIds
  BY <1>3, <1>4, JobKinds
<1>6. DOMAIN Line = 1 .. Len(Line) /\ Len(Line) \in Nat /\ at \in Nat
  BY LineIs
<1>7. Waiting = at .. Len(Line) /\ Waiting' = at + 1 .. Len(Line)
  BY <1>1, <1>2 DEF Waiting
<1>8. at \in Waiting /\ at + 1 .. Len(Line) = (at .. Len(Line)) \ {at}
  BY <1>4, <1>6, <1>7
<1> QED  BY <1>1, <1>2, <1>3, <1>4, <1>5, <1>7, <1>8

\* Every step keeps the types; the pools do not outgrow the writes.
LEMMA TypeStep ==
  ASSUME DispatcherInv, [Next]_vars
  PROVE  TypeOK'
<1>1. TypeOK /\ SignalTypeOK' /\ SignalTypeOK
  BY SignalStep DEF DispatcherInv, TypeOK
<1>2. value \in 0 .. MaxWrites /\ MaxWrites \in Nat /\ Len(batch) \in Nat /\ at \in Nat /\ at <= Len(batch)
  BY <1>1, Bounds, LineIs DEF TypeOK
<1>3. ASSUME NEW f \in Funcs, OwnerStep(f) PROVE TypeOK'
  <2>1. Job("unsubscribe", f) \in JobRecords /\ Job("sync", f) \in JobRecords
    BY DEF Job, JobRecords
  <2> HIDE DEF JobRecords
  <2>2. CASE SubGet(f)
    BY <1>1, <2>2 DEF SubGet, Stage, TypeOK, row, pools, worker
  <2>3. CASE SubGetRead(f)
    BY <1>1, <2>3 DEF SubGetRead, Stage, TypeOK, row, pools, worker
  <2>4. CASE Bind(f)
    BY <1>1, <2>4 DEF Bind, Stage, TypeOK, row, pools, worker
  <2>5. CASE BindSubscribe(f)
    BY <1>1, <2>5 DEF BindSubscribe, Stage, TypeOK, row, pools, worker
  <2>6. CASE Unregister(f)
    BY <1>1, <2>6 DEF Unregister, Leave, Stage, TypeOK, pools, worker
  <2>7. CASE PostUnsubscribe(f)
    BY <1>1, <2>1, <2>7 DEF PostUnsubscribe, Stage, TypeOK, row, pools, worker
  <2>8. CASE Sync(f)
    BY <1>1, <2>1, <2>8 DEF Sync, Stage, TypeOK, row, pools, worker
  <2> QED  BY <1>3, <2>2, <2>3, <2>4, <2>5, <2>6, <2>7, <2>8 DEF OwnerStep
<1>4. CASE Write
  <2>1. value' \in 0 .. MaxWrites
    BY <1>2, <1>4 DEF Write
  <2> QED  BY <1>1, <1>4, <2>1 DEF Write, TypeOK, pools, worker
<1>5. CASE RaiseRow
  BY <1>1, <1>5 DEF RaiseRow, TypeOK, pools, worker
<1>6. CASE RaiseSignal
  BY <1>1, <1>6 DEF RaiseSignal, TypeOK, pools, worker
<1>7. CASE CallFunc
  BY <1>1, <1>7 DEF CallFunc, TypeOK, row, pools, worker
<1>8. CASE TakeBuffer
  <2>1. data' \in [Funcs -> [Buffers -> 0 .. MaxWrites]]
    <3>1. PICK f \in Funcs, b \in Buffers : data' = [data EXCEPT ![f][b] = value]
      BY <1>8, BufferTaken
    <3> QED  BY <1>1, <3>1 DEF TypeOK
  <2>2. UNCHANGED <<value, wpc, dropped, carried, queue, worker, stage, known, late, missed>>
    BY <1>8 DEF TakeBuffer
  <2> QED  BY <1>1, <1>8, <2>1, <2>2, BufferTaken DEF TypeOK, worker
<1>9. CASE PostUpdate
  <2>1. calling \in Funcs
    BY <1>1, <1>9 DEF PostUpdate, Invoked, SignalTypeOK
  <2>2. PICK i \in ActionIds :
          /\ carried' = [carried EXCEPT ![calling][i] = buffer]
          /\ queue' = Append(queue, Update(calling, i))
    BY <1>9 DEF PostUpdate, FreeActions
  <2>3. Update(calling, i) \in JobRecords
    BY <1>2, <2>1, <2>2 DEF Update, JobRecords
  <2>4. queue' \in Seq(JobRecords) /\ carried' \in [Funcs -> [ActionIds -> Buffers \cup {NoBuffer}]]
    BY <1>1, <2>1, <2>2, <2>3 DEF TypeOK
  <2> QED  BY <1>1, <1>9, <2>4 DEF PostUpdate, TypeOK, worker
<1>10. CASE EndRaise
  BY <1>1, <1>10 DEF EndRaise, TypeOK, pools, worker
<1>11. CASE TakeBatch
  <2>1. at' \in 0 .. Len(batch') /\ queue' \in Seq(JobRecords) /\ batch' \in Seq(JobRecords)
    <3>1. at = 0
      BY <1>1, <1>11 DEF TakeBatch, TypeOK
    <3> HIDE DEF JobRecords
    <3> QED  BY <1>1, <1>11, <3>1 DEF TakeBatch, TypeOK
  <2> QED  BY <1>1, <1>11, <2>1 DEF TakeBatch, TypeOK, row, pools
<1>12. CASE Perform
  <2>1. /\ batch[at + 1] \in JobRecords /\ batch[at + 1].kind = "update"
        /\ at' \in 0 .. Len(batch)
    BY <1>1, <1>2, <1>12, NextJob DEF Perform
  <2>2. PICK j \in JobRecords : j = batch[at + 1] /\ j.func \in Funcs /\ j.action \in ActionIds
    BY <2>1, JobKinds
  <2>3. carried[j.func][j.action] \in Buffers
    <3>1. at + 1 \in Waiting /\ Line[at + 1] = j /\ j.kind = "update"
      BY <1>1, <1>12, <2>1, <2>2, NextJob DEF Perform
    <3>2. carried[j.func][j.action] # NoBuffer
      BY <3>1 DEF DispatcherInv, PoolDiscipline
    <3> QED  BY <1>1, <2>2, <3>2 DEF TypeOK
  <2>4. known' = [known EXCEPT ![j.func] = data[j.func][carried[j.func][j.action]]]
    BY <1>12, <2>2 DEF Perform
  <2>5. known' \in [Funcs -> 0 .. MaxWrites]
    BY <1>1, <2>2, <2>3, <2>4 DEF TypeOK
  <2> QED  BY <1>1, <1>12, <2>1, <2>5 DEF Perform, TypeOK, row, pools
<1>13. CASE Performed
  <2>1. batch[at].func \in Funcs /\ batch[at].action \in ActionIds
    BY <1>1, <1>13, JobReturns DEF DispatcherInv
  <2>2. carried' \in [Funcs -> [ActionIds -> Buffers \cup {NoBuffer}]]
    BY <1>1, <1>13, <2>1 DEF Performed, TypeOK
  <2> QED  BY <1>1, <1>13, <2>2 DEF Performed, TypeOK, row
<1>14. CASE InvokeUnsubscribe
  <2>1. batch[at + 1].func \in Funcs /\ at' \in 0 .. Len(batch)
    BY <1>1, <1>2, <1>14, NextJob, JobKinds DEF InvokeUnsubscribe
  <2> QED  BY <1>1, <1>14, <2>1 DEF InvokeUnsubscribe, Leave, Stage, TypeOK, pools
<1>15. CASE InvokeSync
  <2>1. batch[at + 1].func \in Funcs /\ at' \in 0 .. Len(batch)
    BY <1>1, <1>2, <1>15, NextJob, JobKinds DEF InvokeSync
  <2> QED  BY <1>1, <1>15, <2>1 DEF InvokeSync, Stage, TypeOK, row, pools
<1>16. CASE EndBatch
  <2>1. batch' \in Seq(JobRecords) /\ at' \in 0 .. Len(batch')
    BY <1>16 DEF EndBatch
  <2> QED  BY <1>1, <1>16, <2>1 DEF EndBatch, TypeOK, row, pools
<1>17. CASE UNCHANGED vars
  BY <1>1, <1>17 DEF TypeOK, vars, row, pools, worker
<1> QED  BY <1>3, <1>4, <1>5, <1>6, <1>7, <1>8, <1>9, <1>10, <1>11, <1>12, <1>13, <1>14, <1>15, <1>16,
            <1>17 DEF Next, WriterStep, WorkerStep

\* The write under way calls each function at most once.
LEMMA WriterKept ==
  ASSUME DispatcherInv, [Next]_vars
  PROVE  WriterDiscipline'
<1>1. TypeOK /\ WriterDiscipline /\ Subscriptions
  BY DEF DispatcherInv
<1> USE DEF Raised
<1>2. ASSUME UNCHANGED <<cloned, calling, wpc, value, buffer, pools>>, dropped' => wpc = "row"
      PROVE  WriterDiscipline'
  BY <1>1, <1>2 DEF WriterDiscipline, InUse, pools
<1>3. ASSUME NEW f \in Funcs, SubGet(f) \/ BindSubscribe(f) PROVE WriterDiscipline'
  <2>1. UNCHANGED <<cloned, calling, wpc, value, buffer, pools, dropped>>
    BY <1>3 DEF SubGet, BindSubscribe, Subscribe, row
  <2> QED  BY <1>1, <1>2, <2>1 DEF WriterDiscipline
<1>4. ASSUME NEW f, Leave(f), UNCHANGED <<wpc, value, buffer, pools>> PROVE WriterDiscipline'
  <2>1. UNCHANGED <<cloned, calling>> /\ (dropped' => wpc = "row")
    BY <1>1, <1>4 DEF Leave, Unsubscribe, WriterDiscipline
  <2> QED  BY <1>2, <1>4, <2>1
<1>5. CASE UNCHANGED <<signalVars, row, pools>>
  <2>1. UNCHANGED <<cloned, calling, wpc, value, buffer, pools, dropped>>
    BY <1>5 DEF signalVars, row
  <2> QED  BY <1>1, <1>2, <2>1 DEF WriterDiscipline
<1>6. CASE Write
  <2>1. wpc = "idle" /\ cloned = {} /\ calling = None /\ buffer = NoBuffer /\ ~dropped
    BY <1>1, <1>6 DEF Write, WriterDiscipline
  <2> QED  BY <1>6, <2>1 DEF Write, WriterDiscipline, signalVars
<1>7. CASE RaiseRow
  <2>1. wpc = "stored" /\ cloned = {} /\ calling = None /\ buffer = NoBuffer /\ ~dropped
    BY <1>1, <1>7 DEF RaiseRow, WriterDiscipline
  <2> QED  BY <1>7, <2>1 DEF RaiseRow, WriterDiscipline, signalVars
<1>8. CASE RaiseSignal
  <2>1. wpc = "row" /\ cloned = {} /\ calling = None /\ buffer = NoBuffer
    BY <1>1, <1>8 DEF RaiseSignal, WriterDiscipline
  <2>2. wpc' = "raise" /\ dropped' = FALSE /\ buffer' = NoBuffer /\ calling' = None
    BY <1>8, <2>1 DEF RaiseSignal, Raise, signalVars
  <2>3. cloned' = {} \/ cloned' = subscribers
    BY <1>8, <2>1 DEF RaiseSignal, Raise, signalVars
  <2>4. \A s \in subscribers : s[2] # None /\ s \in Tokens \X Funcs
    BY <1>1, NoneIsNoFunc DEF TypeOK, SignalTypeOK
  <2>5. \A s, u \in subscribers : s[2] = u[2] => s = u
    <3>1. \A s, u \in subscribers : s[2] = u[2] => s[1] = u[1]
      BY <1>1 DEF Subscriptions, TokenOwned
    <3> QED  BY <1>1, <3>1 DEF Subscriptions, Distinct
  <2> QED  BY <2>2, <2>3, <2>4, <2>5 DEF WriterDiscipline
<1>9. CASE CallFunc
  <2>1. wpc = "raise" /\ calling = None /\ UNCHANGED <<wpc, dropped, buffer>>
    BY <1>9 DEF CallFunc, Invoke, row
  <2>2. PICK s \in cloned : cloned' = cloned \ {s} /\ calling' = s[2]
    BY <1>9 DEF CallFunc, Invoke
  <2>3. buffer = NoBuffer /\ ~dropped
    BY <1>1, <2>1 DEF WriterDiscipline
  <2>4. \A u \in cloned' : u[2] # calling' /\ \A v \in cloned' : u[2] = v[2] => u = v
    BY <1>1, <2>2 DEF WriterDiscipline
  <2> QED  BY <2>1, <2>3, <2>4 DEF WriterDiscipline
<1>10. CASE TakeBuffer
  <2>1. UNCHANGED <<cloned, calling, wpc, dropped, value, carried>> /\ calling # None
    BY <1>10 DEF TakeBuffer, signalVars
  <2>2. PICK f \in Funcs, b \in Buffers :
          /\ calling = f /\ buffer' = b /\ data' = [data EXCEPT ![f][b] = value]
          /\ b \in 1 .. poolSize'[f] /\ ~InUse(f, b)
    BY <1>10, BufferTaken
  <2>3. ~InUse(f, b)' /\ b <= poolSize'[f]
    BY <1>1, <1>10, <2>1, <2>2, BufferTaken DEF InUse
  <2>4. data'[f][b] = value
    BY <1>1, <2>2 DEF TypeOK
  <2>5. ~InUse(calling, buffer)' /\ buffer' <= poolSize'[calling'] /\ data'[calling'][buffer'] = value'
    BY <2>1, <2>2, <2>3, <2>4 DEF InUse
  <2> QED  BY <1>1, <2>1, <2>5 DEF WriterDiscipline
<1>11. CASE PostUpdate
  <2>1. calling # None /\ calling' = None /\ cloned' = cloned /\ buffer' = NoBuffer /\ UNCHANGED <<wpc, dropped>>
    BY <1>11 DEF PostUpdate, Invoked
  <2>2. \A s \in cloned : s[2] # None
    BY <1>1, NoneIsNoFunc DEF TypeOK, SignalTypeOK
  <2> QED  BY <1>1, <2>1, <2>2 DEF WriterDiscipline
<1>12. CASE EndRaise
  <2>1. /\ cloned = {} /\ calling = None /\ wpc = "raise" /\ wpc' = "idle"
        /\ UNCHANGED <<cloned, calling, dropped, buffer>>
    BY <1>12 DEF EndRaise, signalVars
  <2> QED  BY <1>1, <2>1 DEF WriterDiscipline
<1>13. CASE Performed
  <2>1. UNCHANGED <<cloned, calling, wpc, value, buffer, dropped, poolSize, data>>
    BY <1>13 DEF Performed, row, signalVars
  <2>2. PICK f \in Funcs, i \in ActionIds : carried' = [carried EXCEPT ![f][i] = NoBuffer]
    BY <1>1, <1>13, JobReturns DEF Performed, DispatcherInv
  <2>3. \A g \in Funcs : \A b : b # NoBuffer /\ ~InUse(g, b) => ~InUse(g, b)'
    BY <1>1, <2>2 DEF InUse, TypeOK
  <2>4. calling # None => calling \in Funcs
    BY <1>1 DEF TypeOK, SignalTypeOK
  <2>5. buffer # NoBuffer => calling # None /\ ~InUse(calling, buffer)'
    <3>1. buffer # NoBuffer => calling # None /\ ~InUse(calling, buffer)
      BY <1>1 DEF WriterDiscipline
    <3>2. buffer # NoBuffer /\ calling # None /\ ~InUse(calling, buffer) =>
            \A k \in ActionIds : carried'[calling][k] # buffer
      BY <2>3, <2>4 DEF InUse
    <3> QED  BY <2>1, <3>1, <3>2 DEF InUse
  <2> QED  BY <1>1, <2>1, <2>5 DEF WriterDiscipline
<1>14. CASE InvokeUnsubscribe
  BY <1>4, <1>14 DEF InvokeUnsubscribe
<1>15. ASSUME NEW f \in Funcs, Unregister(f) PROVE WriterDiscipline'
  BY <1>4, <1>15 DEF Unregister
<1>16. CASE \/ TakeBatch \/ Perform \/ InvokeSync \/ EndBatch \/ UNCHANGED vars
            \/ \E f \in Funcs : SubGetRead(f) \/ Bind(f) \/ PostUnsubscribe(f) \/ Sync(f)
  BY <1>5, <1>16 DEF TakeBatch, Perform, InvokeSync, EndBatch, vars, SubGetRead, Bind, PostUnsubscribe, Sync
<1> QED  BY <1>3, <1>6, <1>7, <1>8, <1>9, <1>10, <1>11, <1>12, <1>13, <1>14, <1>15, <1>16
         DEF Next, OwnerStep, WriterStep, WorkerStep

\* After the write has begun, only fewer functions remain to be called.
LEMMA CallsShrink ==
  ASSUME DispatcherInv, [Next]_vars, ~Write, NEW f \in Funcs, WillCall(f)'
  PROVE  WillCall(f) /\ value' = value
<1>1. TypeOK /\ WriterDiscipline
  BY DEF DispatcherInv
<1>2. ASSUME UNCHANGED <<cloned, calling, wpc, value>>, dropped => dropped' PROVE WillCall(f) /\ value' = value
  BY <1>2 DEF WillCall
<1>3. ASSUME NEW g \in Funcs, SubGet(g) \/ BindSubscribe(g) PROVE WillCall(f) /\ value' = value
  <2>1. UNCHANGED <<cloned, calling, wpc, value, dropped>>
    BY <1>3 DEF SubGet, BindSubscribe, Subscribe, row
  <2> QED  BY <1>2, <2>1
<1>4. ASSUME NEW g, Leave(g), UNCHANGED <<wpc, value>> PROVE WillCall(f) /\ value' = value
  <2>1. UNCHANGED <<cloned, calling>> /\ (dropped => dropped')
    BY <1>4 DEF Leave, Unsubscribe
  <2> QED  BY <1>2, <1>4, <2>1
<1>5. CASE UNCHANGED <<signalVars, row>>
  BY <1>2, <1>5 DEF signalVars, row
<1>6. CASE RaiseRow
  BY <1>6 DEF RaiseRow, WillCall
<1>7. CASE RaiseSignal
  <2>1. cloned = {} /\ calling = None /\ wpc = "row" /\ wpc' = "raise" /\ value' = value
    BY <1>1, <1>7 DEF RaiseSignal, WriterDiscipline, Raised
  <2>2. CASE dropped
    BY <1>7, <2>1, <2>2, NoneIsNoFunc DEF RaiseSignal, WillCall, signalVars
  <2>3. CASE ~dropped
    BY <2>1, <2>3 DEF WillCall
  <2> QED  BY <2>2, <2>3
<1>8. CASE CallFunc
  <2>1. PICK s \in cloned : cloned' = cloned \ {s} /\ calling' = s[2]
    BY <1>8 DEF CallFunc, Invoke
  <2> QED  BY <1>8, <2>1 DEF CallFunc, row, WillCall
<1>9. CASE TakeBuffer
  <2>1. UNCHANGED <<cloned, calling, wpc, value, dropped>>
    BY <1>9 DEF TakeBuffer, signalVars
  <2> QED  BY <1>2, <2>1
<1>10. CASE PostUpdate
  BY <1>10, NoneIsNoFunc DEF PostUpdate, Invoked, WillCall
<1>11. CASE EndRaise
  BY <1>11 DEF EndRaise, WillCall, signalVars
<1>12. CASE InvokeUnsubscribe
  BY <1>4, <1>12 DEF InvokeUnsubscribe
<1>13. ASSUME NEW g \in Funcs, Unregister(g) PROVE WillCall(f) /\ value' = value
  BY <1>4, <1>13 DEF Unregister
<1>14. CASE \/ TakeBatch \/ Perform \/ Performed \/ InvokeSync \/ EndBatch \/ UNCHANGED vars
            \/ \E g \in Funcs : SubGetRead(g) \/ Bind(g) \/ PostUnsubscribe(g) \/ Sync(g)
  BY <1>5, <1>14 DEF TakeBatch, Perform, Performed, InvokeSync, EndBatch, vars, SubGetRead, Bind, PostUnsubscribe,
                     Sync
<1> QED  BY <1>3, <1>6, <1>7, <1>8, <1>9, <1>10, <1>11, <1>12, <1>13, <1>14
         DEF Next, OwnerStep, WriterStep, WorkerStep

\* Only Write changes the row.
LEMMA SameValue ==
  ASSUME [Next]_vars, ~Write
  PROVE  value' = value
BY DEF Next, OwnerStep, WriterStep, WorkerStep, SubGet, SubGetRead, Bind, BindSubscribe, Unregister, PostUnsubscribe,
       Sync, RaiseRow, RaiseSignal, CallFunc, TakeBuffer, PostUpdate, EndRaise, TakeBatch, Perform, Performed,
       InvokeUnsubscribe, InvokeSync, EndBatch, vars, row

\* What PostUpdate appends: the write under way, with an action that nobody refers to.
LEMMA UpdatePosted ==
  ASSUME DispatcherInv, PostUpdate
  PROVE  \E f \in Funcs, i \in ActionIds, b \in Buffers :
           /\ f = calling /\ b = buffer /\ buffer' = NoBuffer
           /\ carried' = [carried EXCEPT ![f][i] = b]
           /\ queue' = Append(queue, Update(f, i)) /\ Update(f, i) \in JobRecords
           /\ Update(f, i).kind = "update" /\ Update(f, i).func = f
           /\ Update(f, i).action = i /\ Update(f, i).value = value
           /\ ~InUse(f, b) /\ b <= poolSize[f] /\ data[f][b] = value
           /\ wpc = "raise" /\ calling' = None /\ ~WillCall(f)' /\ cloned' = cloned
           /\ carried[f][i] = NoBuffer
           /\ \A n \in DOMAIN Line : IsUpdate(Line[n], f) => Line[n].action # i
           /\ UNCHANGED <<batch, at, running, value, poolSize, data, stage, late, token, known>>
<1>1. TypeOK /\ WriterDiscipline /\ value \in 0 .. MaxWrites
  BY DEF DispatcherInv, TypeOK
<1>2. PICK i \in FreeActions(calling) :
        carried' = [carried EXCEPT ![calling][i] = buffer] /\ queue' = Append(queue, Update(calling, i))
  BY DEF PostUpdate
<1>3. i \in ActionIds /\ ~Posted(calling, i)
  BY <1>2 DEF FreeActions
<1>4. PICK f \in Funcs, b \in Buffers : f = calling /\ b = buffer
  BY <1>1, NoneIsNoFunc DEF PostUpdate, Invoked, TypeOK, SignalTypeOK
<1>5. Update(f, i) \in JobRecords
  BY <1>1, <1>3, <1>4 DEF Update, JobRecords
<1>6. /\ Update(f, i).kind = "update" /\ Update(f, i).func = f
      /\ Update(f, i).action = i /\ Update(f, i).value = value
  BY DEF Update
<1>7. ~InUse(f, b) /\ b <= poolSize[f] /\ data[f][b] = value /\ wpc = "raise" /\ ~\E s \in cloned : s[2] = f
  BY <1>1, <1>4, NoneIsNoFunc DEF WriterDiscipline, PostUpdate, Raised
<1>8. calling' = None /\ cloned' = cloned /\ ~WillCall(f)'
  BY <1>4, <1>7, NoneIsNoFunc DEF PostUpdate, Invoked, WillCall
<1>9. \A n \in DOMAIN Line : IsUpdate(Line[n], f) => Line[n].action # i
  BY <1>1, <1>3, <1>4, PostedIs
<1>10. carried[f][i] = NoBuffer
  <2>1. CASE carried[f][i] # NoBuffer
    <3>1. PICK n \in Waiting : IsUpdate(Line[n], f) /\ Line[n].action = i
      BY <1>3, <1>4, <2>1 DEF DispatcherInv, PoolDiscipline
    <3> QED  BY <1>9, <3>1, WaitingIs DEF DispatcherInv
  <2> QED  BY <2>1
<1>11. UNCHANGED <<batch, at, running, value, poolSize, data, stage, late, token, known>> /\ buffer' = NoBuffer
  BY DEF PostUpdate, Invoked, worker
<1> QED  BY <1>2, <1>3, <1>4, <1>5, <1>6, <1>7, <1>8, <1>9, <1>10, <1>11

\* The updates of a function stay in the order of the writes.
LEMMA OrderKept ==
  ASSUME DispatcherInv, [Next]_vars
  PROVE  OrderDiscipline'
<1>1. TypeOK /\ WriterDiscipline /\ OrderDiscipline
  BY DEF DispatcherInv
<1>2. \A n \in DOMAIN Line : Line[n].func \in Funcs /\ (Line[n].kind = "update" => Line[n].value \in 0 .. MaxWrites)
  BY <1>1, LineIs, JobKinds
<1>3. ASSUME Line' = Line, ~Write, running' => at' > 0 /\ batch'[at'].kind = "update"
      PROVE  OrderDiscipline'
  <2>1. value' = value /\ \A f \in Funcs : WillCall(f)' => WillCall(f)
    BY <1>3, SameValue, CallsShrink
  <2> QED  BY <1>1, <1>2, <1>3, <2>1 DEF OrderDiscipline
<1>4. ASSUME UNCHANGED <<queue, worker>>, ~Write PROVE OrderDiscipline'
  <2>1. running' => at' > 0 /\ batch'[at'].kind = "update"
    BY <1>1, <1>4, SameLine DEF OrderDiscipline
  <2> QED  BY <1>3, <1>4, <2>1, SameLine
<1>5. CASE Write
  <2>1. /\ value' = value + 1 /\ value \in 0 .. MaxWrites /\ UNCHANGED <<queue, worker>>
    BY <1>1, <1>5 DEF Write, TypeOK
  <2>2. Line' = Line /\ UNCHANGED <<batch, at, running>>
    BY <2>1, SameLine
  <2>3. \A n \in DOMAIN Line : Line[n].kind = "update" => Line[n].value <= value' /\ Line[n].value < value'
    <3>1. ASSUME NEW n \in DOMAIN Line, Line[n].kind = "update"
          PROVE  Line[n].value <= value' /\ Line[n].value < value'
      <4>1. Line[n].value <= value /\ Line[n].value \in 0 .. MaxWrites
        BY <1>1, <1>2, <3>1 DEF OrderDiscipline
      <4> QED  BY <2>1, <4>1, Bounds
    <3> QED  BY <3>1
  <2> QED  BY <1>1, <2>2, <2>3 DEF OrderDiscipline
<1>6. ASSUME NEW f \in Funcs, PostUnsubscribe(f) \/ Sync(f), ~Write PROVE OrderDiscipline'
  <2>1. PICK j \in JobRecords : j.kind # "update" /\ queue' = Append(queue, j) /\ UNCHANGED <<batch, at, running>>
    BY <1>6 DEF PostUnsubscribe, Sync, Job, JobRecords, worker
  <2>2. value' = value /\ \A g \in Funcs : WillCall(g)' => WillCall(g)
    BY <1>6, SameValue, CallsShrink
  <2>3. \A n \in DOMAIN Line' : Line'[n].kind = "update" => n \in DOMAIN Line /\ Line'[n] = Line[n]
    BY <1>1, <2>1, LineAppends
  <2> QED  BY <1>1, <1>2, <2>1, <2>2, <2>3 DEF OrderDiscipline, IsUpdate
<1>7. CASE PostUpdate /\ ~Write
  <2>1. PICK f \in Funcs, i \in ActionIds, j \in JobRecords :
          /\ f = calling /\ j.kind = "update" /\ j.func = f /\ j.action = i /\ j.value = value
          /\ queue' = Append(queue, j) /\ UNCHANGED <<batch, at, running>> /\ ~WillCall(f)'
          /\ \A n \in DOMAIN Line : IsUpdate(Line[n], f) => Line[n].action # i
    BY <1>7, UpdatePosted
  <2>2. value' = value /\ \A g \in Funcs : WillCall(g)' => WillCall(g)
    BY <1>7, SameValue, CallsShrink
  <2>3. PICK L \in Nat : /\ Line'[L + 1] = j /\ DOMAIN Line = 1 .. L
                         /\ \A n \in DOMAIN Line : n \in DOMAIN Line' /\ Line'[n] = Line[n] /\ n < L + 1
                         /\ \A n \in DOMAIN Line' : n \in DOMAIN Line \/ n = L + 1
    BY <1>1, <2>1, LineAppends, LineIs
  <2>4. WillCall(f)
    BY <2>1 DEF WillCall
  <2>5. value \in Nat
    BY <1>1 DEF TypeOK
  <2>6. ASSUME NEW n \in DOMAIN Line', Line'[n].kind = "update"
        PROVE  /\ Line'[n].value <= value'
               /\ WillCall(Line[n].func)' => Line'[n].value < value'
               /\ \A m \in DOMAIN Line' : m < n /\ IsUpdate(Line[m], Line[n].func)' =>
                    Line'[m].value < Line'[n].value /\ Line'[m].action # Line'[n].action
    <3>1. CASE n \in DOMAIN Line
      <4>1. Line'[n] = Line[n] /\ n \in Nat /\ \A m \in DOMAIN Line' : m < n => m \in DOMAIN Line /\ Line'[m] = Line[m]
        BY <2>3, <3>1
      <4>2. /\ Line[n].value <= value /\ (WillCall(Line[n].func) => Line[n].value < value)
            /\ \A m \in DOMAIN Line : m < n /\ IsUpdate(Line[m], Line[n].func) =>
                    Line[m].value < Line[n].value /\ Line[m].action # Line[n].action
        BY <1>1, <2>6, <3>1, <4>1 DEF OrderDiscipline
      <4>3. Line[n].func \in Funcs
        BY <1>2, <3>1
      <4>4. WillCall(Line[n].func)' => WillCall(Line[n].func)
        BY <2>2, <4>1, <4>3 DEF WillCall
      <4> QED  BY <2>2, <4>1, <4>2, <4>4
    <3>2. CASE n = L + 1
      <4>1. Line'[n] = j /\ \A m \in DOMAIN Line' : m < n => m \in DOMAIN Line /\ Line'[m] = Line[m]
        BY <2>3, <3>2
      <4>2. \A m \in DOMAIN Line : IsUpdate(Line[m], f) => Line[m].value < value
        BY <1>1, <2>4 DEF OrderDiscipline, IsUpdate
      <4>3. ~WillCall(Line[n].func)'
        BY <2>1, <4>1 DEF WillCall
      <4> QED  BY <2>1, <2>2, <2>5, <4>1, <4>2, <4>3
    <3> QED  BY <2>3, <3>1, <3>2
  <2>7. running' => at' > 0 /\ batch'[at'].kind = "update"
    BY <1>1, <2>1 DEF OrderDiscipline
  <2> HIDE DEF JobRecords
  <2> QED  BY <2>6, <2>7 DEF OrderDiscipline
<1>8. CASE TakeBatch /\ ~Write
  <2>1. ~running' /\ Line' = Line
    <3>1. at = 0 /\ running' = running
      BY <1>1, <1>8 DEF TakeBatch, TypeOK
    <3> QED  BY <1>1, <1>8, <3>1, LineTaken DEF OrderDiscipline
  <2> QED  BY <1>3, <1>8, <2>1
<1>9. CASE Perform /\ ~Write
  <2>1. Line' = Line /\ at' = at + 1 /\ at' > 0 /\ batch' = batch /\ batch[at + 1].kind = "update"
    BY <1>1, <1>9, NextJob, LineIs DEF Perform
  <2> QED  BY <1>3, <1>9, <2>1
<1>10. CASE Performed /\ ~Write
  BY <1>1, <1>3, <1>10, JobReturns
<1>11. CASE (InvokeUnsubscribe \/ InvokeSync) /\ ~Write
  <2>1. Line' = Line /\ ~running'
    BY <1>1, <1>11, NextJob DEF InvokeUnsubscribe, InvokeSync
  <2> QED  BY <1>3, <1>11, <2>1
<1>12. CASE EndBatch /\ ~Write
  <2>1. value' = value /\ \A f \in Funcs : WillCall(f)' => WillCall(f)
    BY <1>12, SameValue, CallsShrink
  <2>2. PICK B \in Nat : /\ \A n \in DOMAIN Line' : n \in Nat /\ n + B \in DOMAIN Line /\ Line'[n] = Line[n + B]
                         /\ ~running'
    BY <1>1, <1>12, LineEnds
  <2>3. ASSUME NEW n \in DOMAIN Line', Line'[n].kind = "update"
        PROVE  /\ Line'[n].value <= value'
               /\ WillCall(Line[n].func)' => Line'[n].value < value'
               /\ \A m \in DOMAIN Line' : m < n /\ IsUpdate(Line[m], Line[n].func)' =>
                    Line'[m].value < Line'[n].value /\ Line'[m].action # Line'[n].action
    <3>1. n \in Nat /\ n + B \in DOMAIN Line /\ Line'[n] = Line[n + B]
      BY <2>2
    <3>2. /\ Line[n + B].value <= value /\ (WillCall(Line[n + B].func) => Line[n + B].value < value)
          /\ \A m \in DOMAIN Line : m < n + B /\ IsUpdate(Line[m], Line[n + B].func) =>
                    Line[m].value < Line[n + B].value /\ Line[m].action # Line[n + B].action
      BY <1>1, <2>3, <3>1 DEF OrderDiscipline
    <3>3. Line[n + B].func \in Funcs
      BY <1>2, <3>1
    <3>4. WillCall(Line[n].func)' => WillCall(Line[n + B].func)
      BY <2>1, <3>1, <3>3 DEF WillCall
    <3>5. \A m \in DOMAIN Line' : m < n => m + B \in DOMAIN Line /\ m + B < n + B /\ Line'[m] = Line[m + B]
      BY <2>2, <3>1
    <3> QED  BY <2>1, <3>1, <3>2, <3>4, <3>5
  <2> QED  BY <2>2, <2>3 DEF OrderDiscipline
<1>13. CASE \/ RaiseRow \/ RaiseSignal \/ CallFunc \/ TakeBuffer \/ EndRaise \/ UNCHANGED vars
            \/ \E f \in Funcs : SubGet(f) \/ SubGetRead(f) \/ Bind(f) \/ BindSubscribe(f) \/ Unregister(f)
  <2>1. UNCHANGED <<queue, worker>>
    BY <1>13 DEF RaiseRow, RaiseSignal, CallFunc, TakeBuffer, EndRaise, vars, SubGet, SubGetRead, Bind,
                 BindSubscribe, Unregister
  <2> QED  BY <1>4, <1>5, <2>1
<1> QED  BY <1>5, <1>6, <1>7, <1>8, <1>9, <1>10, <1>11, <1>12, <1>13 DEF Next, OwnerStep, WriterStep, WorkerStep

\* Which jobs are pending updates: all that the pools need to know of the line.
LEMMA PoolFrame ==
  ASSUME PoolDiscipline, UNCHANGED pools,
         \A n \in Waiting : Line[n].kind = "update" => \E k \in Waiting' : Line'[k] = Line[n],
         \A n \in Waiting' : Line'[n].kind = "update" => \E k \in Waiting : Line[k] = Line'[n]
  PROVE  PoolDiscipline'
<1>1. UNCHANGED <<poolSize, data, carried>>
  BY DEF pools
<1>2. ASSUME NEW f \in Funcs, NEW i \in ActionIds
      PROVE  /\ carried[f][i] <= poolSize[f]
             /\ carried[f][i] # NoBuffer =>
                  /\ \E n \in Waiting' : IsUpdate(Line'[n], f) /\ Line'[n].action = i
                  /\ \A k \in ActionIds : carried[f][k] = carried[f][i] => k = i
  <2>1. /\ carried[f][i] <= poolSize[f]
        /\ carried[f][i] # NoBuffer =>
             /\ \E n \in Waiting : IsUpdate(Line[n], f) /\ Line[n].action = i
             /\ \A k \in ActionIds : carried[f][k] = carried[f][i] => k = i
    BY DEF PoolDiscipline
  <2> QED  BY <2>1 DEF IsUpdate
<1>3. ASSUME NEW n \in Waiting', Line'[n].kind = "update"
      PROVE  /\ carried[Line'[n].func][Line'[n].action] # NoBuffer
             /\ data[Line'[n].func][carried[Line'[n].func][Line'[n].action]] = Line'[n].value
  <2>1. PICK k \in Waiting : Line[k] = Line'[n]
    BY <1>3
  <2> QED  BY <1>3, <2>1 DEF PoolDiscipline
<1> QED  BY <1>1, <1>2, <1>3 DEF PoolDiscipline, IsUpdate

\* Every step keeps the buffers in use apart, each with the value it was posted for.
LEMMA PoolKept ==
  ASSUME DispatcherInv, [Next]_vars
  PROVE  PoolDiscipline'
<1>1. TypeOK /\ WriterDiscipline /\ OrderDiscipline /\ PoolDiscipline /\ Waiting \subseteq DOMAIN Line
  BY WaitingIs DEF DispatcherInv
<1>2. ASSUME NEW n \in Waiting, Line[n].kind = "update"
      PROVE  /\ Line[n].func \in Funcs /\ Line[n].action \in ActionIds
             /\ carried[Line[n].func][Line[n].action] \in Buffers
             /\ data[Line[n].func][carried[Line[n].func][Line[n].action]] = Line[n].value
  <2>1. PICK j \in JobRecords : j = Line[n] /\ j.kind = "update"
    BY <1>1, <1>2, LineIs
  <2>2. j.func \in Funcs /\ j.action \in ActionIds
    BY <2>1, JobKinds
  <2>3. carried[j.func][j.action] # NoBuffer /\ data[j.func][carried[j.func][j.action]] = j.value
    BY <1>1, <1>2, <2>1 DEF PoolDiscipline
  <2>4. carried[j.func][j.action] \in Buffers
    BY <1>1, <2>2, <2>3 DEF TypeOK
  <2> QED  BY <2>1, <2>2, <2>3, <2>4
<1>3. CASE UNCHANGED <<pools, queue, worker>>
  BY <1>1, <1>3, SameLine, PoolFrame
<1>4. CASE TakeBatch
  BY <1>1, <1>4, LineTaken, PoolFrame DEF TakeBatch
<1>5. CASE Perform
  <2>1. Line' = Line /\ Waiting' = Waiting
    BY <1>1, <1>5, NextJob DEF Perform
  <2> QED  BY <1>1, <1>5, <2>1, PoolFrame DEF Perform
<1>6. CASE InvokeUnsubscribe \/ InvokeSync
  <2>1. Line' = Line /\ Waiting' = Waiting \ {at + 1} /\ Line[at + 1].kind # "update" /\ UNCHANGED pools
    BY <1>1, <1>6, NextJob DEF InvokeUnsubscribe, InvokeSync
  <2> QED  BY <1>1, <2>1, PoolFrame
<1>7. CASE EndBatch
  <2>1. \A n \in Waiting' : n \in DOMAIN Line' /\ n + Len(batch) \in Waiting /\ Line'[n] = Line[n + Len(batch)]
    BY <1>1, <1>7, LineEnds
  <2>2. \A n \in Waiting : \E k \in Waiting' : Line'[k] = Line[n]
    BY <1>1, <1>7, <2>1, LineEnds
  <2> QED  BY <1>1, <1>7, <2>1, <2>2, PoolFrame DEF EndBatch
<1>8. ASSUME NEW f \in Funcs, PostUnsubscribe(f) \/ Sync(f) PROVE PoolDiscipline'
  <2>1. PICK j \in JobRecords : j.kind # "update" /\ queue' = Append(queue, j) /\ UNCHANGED <<batch, at, running>>
    BY <1>8 DEF PostUnsubscribe, Sync, Job, JobRecords, worker
  <2>2. \A n \in Waiting : n \in Waiting' /\ Line'[n] = Line[n]
    BY <1>1, <2>1, LineAppends
  <2>3. \A n \in Waiting' : Line'[n].kind = "update" => n \in Waiting /\ Line'[n] = Line[n]
    BY <1>1, <2>1, LineAppends
  <2>4. UNCHANGED pools
    BY <1>8 DEF PostUnsubscribe, Sync
  <2> QED  BY <1>1, <2>2, <2>3, <2>4, PoolFrame
<1>9. CASE TakeBuffer
  <2>1. UNCHANGED <<queue, worker, carried>>
    BY <1>9 DEF TakeBuffer
  <2>2. PICK f \in Funcs, b \in Buffers : ~InUse(f, b) /\ data' = [data EXCEPT ![f][b] = value]
    BY <1>9, BufferTaken
  <2>3. ASSUME NEW g \in Funcs, NEW i \in ActionIds PROVE carried[g][i] <= poolSize'[g]
    <3>1. carried[g][i] <= poolSize[g]
      BY <1>1 DEF PoolDiscipline
    <3>2. carried[g][i] \in Nat /\ poolSize[g] \in Nat
      <4>1. carried[g][i] \in Buffers \cup {NoBuffer} /\ poolSize[g] \in Buffers
        BY <1>1 DEF TypeOK
      <4> QED  BY <4>1, Bounds DEF Buffers, NoBuffer
    <3>3. poolSize[g] <= poolSize'[g] /\ poolSize'[g] \in Nat
      BY <1>9, BufferTaken, Bounds DEF Buffers
    <3> QED  BY <3>1, <3>2, <3>3
  <2>4. ASSUME NEW g \in Funcs, NEW i \in ActionIds, carried[g][i] \in Buffers
        PROVE  data'[g][carried[g][i]] = data[g][carried[g][i]]
    <3>1. ~(g = f /\ carried[g][i] = b)
      BY <2>2 DEF InUse
    <3> QED  BY <1>1, <2>2, <2>4, <3>1 DEF TypeOK
  <2>5. ASSUME NEW n \in Waiting, Line[n].kind = "update"
        PROVE  /\ carried[Line[n].func][Line[n].action] # NoBuffer
               /\ data'[Line[n].func][carried[Line[n].func][Line[n].action]] = Line[n].value
    <3>1. carried[Line[n].func][Line[n].action] # NoBuffer
      BY <1>1, <2>5 DEF PoolDiscipline
    <3> QED  BY <1>2, <2>4, <2>5, <3>1
  <2>6. Line' = Line /\ Waiting' = Waiting /\ carried' = carried
    BY <2>1, SameLine
  <2> QED  BY <1>1, <2>3, <2>5, <2>6 DEF PoolDiscipline
<1>10. CASE PostUpdate
  <2>1. PICK f \in Funcs, i \in ActionIds, b \in Buffers, j \in JobRecords :
          /\ carried' = [carried EXCEPT ![f][i] = b]
          /\ queue' = Append(queue, j)
          /\ j.kind = "update" /\ j.func = f /\ j.action = i /\ j.value = value
          /\ ~InUse(f, b) /\ b <= poolSize[f] /\ data[f][b] = value /\ carried[f][i] = NoBuffer
          /\ \A n \in DOMAIN Line : IsUpdate(Line[n], f) => Line[n].action # i
          /\ UNCHANGED <<batch, at, running, value, poolSize, data>>
    BY <1>10, UpdatePosted
  <2>2. PICK L \in Nat : /\ Line'[L + 1] = j /\ L + 1 \in Waiting'
                         /\ \A n \in DOMAIN Line : Line'[n] = Line[n]
                         /\ \A n \in Waiting : n \in Waiting'
                         /\ \A n \in Waiting' : n \in Waiting \/ n = L + 1
    BY <1>1, <2>1, LineAppends, LineIs
  <2>3. /\ carried'[f][i] = b /\ b # NoBuffer
        /\ \A g \in Funcs, k \in ActionIds : ~(g = f /\ k = i) => carried'[g][k] = carried[g][k]
    <3>1. b # NoBuffer
      BY Bounds DEF Buffers, NoBuffer
    <3>2. carried'[f][i] = b
      BY <1>1, <2>1 DEF TypeOK
    <3>3. \A g \in Funcs, k \in ActionIds : ~(g = f /\ k = i) => carried'[g][k] = carried[g][k]
      BY <1>1, <2>1 DEF TypeOK
    <3> QED  BY <3>1, <3>2, <3>3
  <2>4. ASSUME NEW g \in Funcs, NEW k \in ActionIds
        PROVE  /\ carried'[g][k] <= poolSize'[g]
               /\ carried'[g][k] # NoBuffer =>
                    /\ \E n \in Waiting' : IsUpdate(Line'[n], g) /\ Line'[n].action = k
                    /\ \A h \in ActionIds : carried'[g][h] = carried'[g][k] => h = k
    <3>1. CASE g = f /\ k = i
      <4>1. \E n \in Waiting' : IsUpdate(Line'[n], g) /\ Line'[n].action = k
        BY <2>1, <2>2, <3>1 DEF IsUpdate
      <4>2. \A h \in ActionIds : h # i => carried'[f][h] # b
        BY <2>1, <2>3 DEF InUse
      <4> QED  BY <2>1, <2>3, <3>1, <4>1, <4>2
    <3>2. CASE ~(g = f /\ k = i)
      <4>1. carried'[g][k] = carried[g][k] /\ carried[g][k] <= poolSize'[g]
        BY <1>1, <2>1, <2>3, <3>2 DEF PoolDiscipline
      <4>2. ASSUME carried[g][k] # NoBuffer PROVE \E n \in Waiting' : IsUpdate(Line'[n], g) /\ Line'[n].action = k
        <5>1. PICK n \in Waiting : IsUpdate(Line[n], g) /\ Line[n].action = k
          BY <1>1, <4>2 DEF PoolDiscipline
        <5> QED  BY <1>1, <2>2, <5>1
      <4>3. ASSUME carried[g][k] # NoBuffer, NEW h \in ActionIds, carried'[g][h] = carried[g][k] PROVE h = k
        <5>1. CASE g = f /\ h = i
          BY <2>1, <2>3, <4>3, <5>1 DEF InUse
        <5>2. CASE ~(g = f /\ h = i)
          BY <1>1, <2>3, <4>3, <5>2 DEF PoolDiscipline
        <5> QED  BY <5>1, <5>2
      <4> QED  BY <4>1, <4>2, <4>3
    <3> QED  BY <3>1, <3>2
  <2>5. ASSUME NEW n \in Waiting', Line'[n].kind = "update"
        PROVE  /\ carried'[Line'[n].func][Line'[n].action] # NoBuffer
               /\ data'[Line'[n].func][carried'[Line'[n].func][Line'[n].action]] = Line'[n].value
    <3>1. CASE n \in Waiting
      <4>1. Line'[n] = Line[n] /\ n \in DOMAIN Line
        BY <1>1, <2>2, <3>1
      <4>2. /\ Line[n].func \in Funcs /\ Line[n].action \in ActionIds
            /\ carried[Line[n].func][Line[n].action] # NoBuffer
            /\ data[Line[n].func][carried[Line[n].func][Line[n].action]] = Line[n].value
        BY <1>1, <1>2, <2>5, <3>1, <4>1 DEF PoolDiscipline
      <4>3. ~(Line[n].func = f /\ Line[n].action = i)
        BY <2>1, <2>5, <4>1 DEF IsUpdate
      <4> QED  BY <2>1, <2>3, <4>1, <4>2, <4>3
    <3>2. CASE n = L + 1
      BY <2>1, <2>2, <2>3, <3>2
    <3> QED  BY <2>2, <3>1, <3>2
  <2> QED  BY <2>4, <2>5 DEF PoolDiscipline, IsUpdate
<1>11. CASE Performed
  <2>1. /\ Line' = Line /\ at \in Waiting /\ at \in DOMAIN Line /\ Waiting' = Waiting \ {at}
        /\ UNCHANGED <<poolSize, data>>
    BY <1>1, <1>11, JobReturns DEF Performed
  <2>2. PICK f \in Funcs, i \in ActionIds :
          /\ IsUpdate(Line[at], f) /\ Line[at].action = i
          /\ carried' = [carried EXCEPT ![f][i] = NoBuffer]
    BY <1>1, <1>11, JobReturns DEF Performed, IsUpdate
  <2>3. /\ carried'[f][i] = NoBuffer
        /\ \A g \in Funcs, k \in ActionIds : ~(g = f /\ k = i) => carried'[g][k] = carried[g][k]
    BY <1>1, <2>2 DEF TypeOK
  <2>4. ASSUME NEW g \in Funcs, NEW k \in ActionIds
        PROVE  /\ carried'[g][k] <= poolSize'[g]
               /\ carried'[g][k] # NoBuffer =>
                    /\ \E n \in Waiting' : IsUpdate(Line'[n], g) /\ Line'[n].action = k
                    /\ \A h \in ActionIds : carried'[g][h] = carried'[g][k] => h = k
    <3>1. CASE g = f /\ k = i
      <4>1. poolSize[g] \in Nat
        BY <1>1, Bounds DEF TypeOK, Buffers
      <4> QED  BY <2>1, <2>3, <3>1, <4>1 DEF NoBuffer
    <3>2. CASE ~(g = f /\ k = i)
      <4>1. carried'[g][k] = carried[g][k] /\ carried[g][k] <= poolSize'[g]
        BY <1>1, <2>1, <2>3, <3>2 DEF PoolDiscipline
      <4>2. ASSUME carried[g][k] # NoBuffer PROVE \E n \in Waiting' : IsUpdate(Line'[n], g) /\ Line'[n].action = k
        <5>1. PICK n \in Waiting : IsUpdate(Line[n], g) /\ Line[n].action = k
          BY <1>1, <4>2 DEF PoolDiscipline
        <5>2. n # at
          BY <2>2, <3>2, <5>1 DEF IsUpdate
        <5> QED  BY <2>1, <5>1, <5>2
      <4>3. ASSUME carried[g][k] # NoBuffer, NEW h \in ActionIds, carried'[g][h] = carried[g][k] PROVE h = k
        <5>1. ~(g = f /\ h = i)
          BY <2>3, <4>3
        <5> QED  BY <1>1, <2>3, <4>3, <5>1 DEF PoolDiscipline
      <4> QED  BY <4>1, <4>2, <4>3
    <3> QED  BY <3>1, <3>2
  <2>5. ASSUME NEW n \in Waiting', Line'[n].kind = "update"
        PROVE  /\ carried'[Line'[n].func][Line'[n].action] # NoBuffer
               /\ data'[Line'[n].func][carried'[Line'[n].func][Line'[n].action]] = Line'[n].value
    <3>1. Line'[n] = Line[n] /\ n \in Waiting /\ n # at /\ n \in DOMAIN Line
      BY <1>1, <2>1
    <3>2. /\ Line[n].func \in Funcs /\ Line[n].action \in ActionIds
          /\ carried[Line[n].func][Line[n].action] # NoBuffer
          /\ data[Line[n].func][carried[Line[n].func][Line[n].action]] = Line[n].value
      BY <1>1, <1>2, <2>5, <3>1 DEF PoolDiscipline
    <3>3. ~(Line[n].func = f /\ Line[n].action = i)
      <4>1. n \in Nat /\ at \in Nat /\ Line[n].kind = "update"
        BY <1>1, <2>5, <3>1, LineIs
      <4>2. CASE n < at
        BY <1>1, <2>1, <2>2, <3>1, <4>1, <4>2 DEF OrderDiscipline, IsUpdate
      <4>3. CASE at < n
        BY <1>1, <2>1, <2>2, <3>1, <4>1, <4>3 DEF OrderDiscipline, IsUpdate
      <4> QED  BY <3>1, <4>1, <4>2, <4>3
    <3> QED  BY <2>1, <2>3, <3>1, <3>2, <3>3
  <2> QED  BY <2>4, <2>5 DEF PoolDiscipline, IsUpdate
<1>12. CASE \/ Write \/ RaiseRow \/ RaiseSignal \/ CallFunc \/ EndRaise \/ UNCHANGED vars
            \/ \E f \in Funcs : SubGet(f) \/ SubGetRead(f) \/ Bind(f) \/ BindSubscribe(f) \/ Unregister(f)
  BY <1>3, <1>12 DEF Write, RaiseRow, RaiseSignal, CallFunc, EndRaise, vars, SubGet, SubGetRead, Bind,
                     BindSubscribe, Unregister
<1> QED  BY <1>4, <1>5, <1>6, <1>7, <1>8, <1>9, <1>10, <1>11, <1>12 DEF Next, OwnerStep, WriterStep, WorkerStep

\* How a step moves an owner on.
Moves(f) ==
  /\ token'[f] # Undefined <=> stage'[f] \in {"subscribed", "ready", "leaving"}
  /\ late \subseteq late'
  /\ stage'[f] \in {"new", "copied"} => stage[f] \in {"new", "copied"}
  /\ stage[f] \in {"syncing", "synced"} => stage'[f] \in {"syncing", "synced"}
  /\ stage'[f] \in {"gone", "syncing", "synced"} /\ f \notin late' =>
       \/ stage[f] \in {"gone", "syncing", "synced"}
       \/ calling # f /\ (\A s \in cloned : s[2] # f) /\ UNCHANGED <<calling, cloned>>
  /\ stage'[f] = "synced" => stage[f] = "synced" \/ (InvokeSync /\ batch[at + 1].func = f)

\* An owner goes through its stages in order, and its token comes and goes with them.
LEMMA StageMoves ==
  ASSUME DispatcherInv, [Next]_vars, NEW f \in Funcs
  PROVE  Moves(f)
<1>1. /\ SignalTypeOK /\ Subscriptions /\ TypeOK
      /\ \A g \in Funcs : token[g] # Undefined <=> stage[g] \in {"subscribed", "ready", "leaving"}
  BY DEF DispatcherInv, TypeOK, StageDiscipline
<1>2. ASSUME token' = token, late' = late, stage' = stage PROVE Moves(f)
  BY <1>1, <1>2 DEF Moves
<1>3. ASSUME NEW g \in Funcs, NEW a, NEW b, Stage(g, a, b)
      PROVE  stage[g] = a /\ stage'[g] = b /\ \A h \in Funcs : h # g => stage'[h] = stage[h]
  BY <1>1, <1>3 DEF Stage, TypeOK
<1>4. ASSUME NEW g \in Funcs, SubGet(g) \/ BindSubscribe(g) PROVE Moves(f)
  <2>1. /\ token'[g] # Undefined /\ \A h \in Funcs : h # g => token'[h] = token[h]
    BY <1>1, <1>4, SubscribeKeeps DEF SubGet, BindSubscribe
  <2>2. late' = late
    BY <1>4 DEF SubGet, BindSubscribe
  <2>3. /\ stage[g] \in {"new", "copied"} /\ stage'[g] \in {"subscribed", "ready"}
        /\ \A h \in Funcs : h # g => stage'[h] = stage[h]
    BY <1>3, <1>4 DEF SubGet, BindSubscribe
  <2> QED  BY <1>1, <2>1, <2>2, <2>3 DEF Moves
<1>5. ASSUME NEW g \in Funcs, SubGetRead(g) \/ Bind(g) \/ PostUnsubscribe(g) \/ Sync(g) PROVE Moves(f)
  <2>1. token' = token /\ late' = late
    BY <1>5 DEF SubGetRead, Bind, PostUnsubscribe, Sync, signalVars
  <2>2. /\ \/ stage[g] = "subscribed" /\ stage'[g] = "ready"
           \/ stage[g] = "new" /\ stage'[g] = "copied"
           \/ stage[g] = "ready" /\ stage'[g] = "leaving"
           \/ stage[g] = "gone" /\ stage'[g] = "syncing"
        /\ \A h \in Funcs : h # g => stage'[h] = stage[h]
    BY <1>3, <1>5 DEF SubGetRead, Bind, PostUnsubscribe, Sync
  <2> QED  BY <1>1, <2>1, <2>2 DEF Moves
<1>6. ASSUME NEW g \in Funcs, NEW a \in {"ready", "leaving"}, Stage(g, a, "gone"), Leave(g) PROVE Moves(f)
  <2>1. token'[g] = Undefined /\ (\A h \in Funcs : h # g => token'[h] = token[h]) /\ UNCHANGED <<calling, cloned>>
    BY <1>1, <1>6, UnsubscribeKeeps DEF Leave
  <2>2. late \subseteq late' /\ (g \notin late' => calling # g /\ \A s \in cloned : s[2] # g)
    BY <1>6 DEF Leave
  <2>3. stage[g] = a /\ stage'[g] = "gone" /\ \A h \in Funcs : h # g => stage'[h] = stage[h]
    BY <1>3, <1>6
  <2> QED  BY <1>1, <1>6, <2>1, <2>2, <2>3 DEF Moves
<1>7. CASE InvokeUnsubscribe
  <2>1. batch[at + 1].func \in Funcs
    BY <1>1, <1>7, NextJob, JobKinds DEF InvokeUnsubscribe
  <2> QED  BY <1>6, <1>7, <2>1 DEF InvokeUnsubscribe
<1>8. ASSUME NEW g \in Funcs, Unregister(g) PROVE Moves(f)
  BY <1>6, <1>8 DEF Unregister
<1>9. CASE InvokeSync
  <2>1. PICK g \in Funcs : g = batch[at + 1].func
    BY <1>1, <1>9, NextJob, JobKinds DEF InvokeSync
  <2>2. stage[g] = "syncing" /\ stage'[g] = "synced" /\ \A h \in Funcs : h # g => stage'[h] = stage[h]
    BY <1>3, <1>9, <2>1 DEF InvokeSync
  <2>3. token' = token /\ late' = late
    BY <1>9 DEF InvokeSync, signalVars
  <2> QED  BY <1>1, <1>9, <2>1, <2>2, <2>3 DEF Moves
<1>10. CASE RaiseSignal \/ CallFunc \/ PostUpdate
  <2>1. token' = token /\ late' = late /\ stage' = stage
    BY <1>10 DEF RaiseSignal, CallFunc, PostUpdate, Raise, Invoke, Invoked, signalVars
  <2> QED  BY <1>2, <2>1
<1>11. CASE \/ Write \/ RaiseRow \/ TakeBuffer \/ EndRaise \/ TakeBatch \/ Perform \/ Performed \/ EndBatch
            \/ UNCHANGED vars
  <2>1. token' = token /\ late' = late /\ stage' = stage
    BY <1>11 DEF Write, RaiseRow, TakeBuffer, EndRaise, TakeBatch, Perform, Performed, EndBatch, signalVars, vars
  <2> QED  BY <1>2, <2>1
<1> QED  BY <1>4, <1>5, <1>7, <1>8, <1>9, <1>10, <1>11 DEF Next, OwnerStep, WriterStep, WorkerStep

\* A function that is called, or waits to be, was so before or was subscribed when the
\* raise copied the list.
LEMMA CalledWas ==
  ASSUME DispatcherInv, [Next]_vars, NEW f \in Funcs, calling' = f \/ \E s \in cloned' : s[2] = f
  PROVE  \/ calling = f \/ \E s \in cloned : s[2] = f
         \/ token[f] # Undefined /\ UNCHANGED <<stage, late>>
<1>1. TypeOK /\ Subscriptions /\ None \notin Funcs
  BY NoneIsNoFunc DEF DispatcherInv
<1>2. CASE UNCHANGED <<cloned, calling>>
  BY <1>2
<1>3. ASSUME NEW g \in Funcs, SubGet(g) \/ BindSubscribe(g) \/ Unregister(g) PROVE UNCHANGED <<cloned, calling>>
  BY <1>3 DEF SubGet, BindSubscribe, Unregister, Subscribe, Unsubscribe, Leave
<1>4. CASE InvokeUnsubscribe
  BY <1>2, <1>4 DEF InvokeUnsubscribe, Leave, Unsubscribe
<1>5. CASE RaiseSignal
  <2>1. UNCHANGED <<stage, late>> /\ calling' = calling /\ (cloned' = cloned \/ cloned' = subscribers)
    BY <1>5 DEF RaiseSignal, Raise, signalVars
  <2>2. ASSUME NEW s \in subscribers, s[2] = f PROVE token[f] # Undefined
    <3>1. token[f] = s[1] /\ s[1] \in Tokens
      BY <1>1, <2>2 DEF Subscriptions, TokenOwned, TypeOK, SignalTypeOK
    <3> QED  BY <3>1, TokensAreNat
  <2> QED  BY <2>1, <2>2
<1>6. CASE CallFunc
  BY <1>6 DEF CallFunc, Invoke
<1>7. CASE PostUpdate
  BY <1>1, <1>7 DEF PostUpdate, Invoked
<1>8. CASE UNCHANGED signalVars
  BY <1>2, <1>8 DEF signalVars
<1> QED  BY <1>2, <1>3, <1>4, <1>5, <1>6, <1>7, <1>8
         DEF Next, OwnerStep, WriterStep, WorkerStep, SubGetRead, Bind, PostUnsubscribe, Sync, Write,
             RaiseRow, TakeBuffer, EndRaise, TakeBatch, Perform, Performed, InvokeSync, EndBatch, vars

\* What the line says of the jobs of one function.
JobsOf(f) ==
  /\ stage[f] \in {"new", "copied"} => \A n \in DOMAIN Line : Line[n].func # f
  /\ \A m \in DOMAIN Line : Line[m].kind = "sync" /\ Line[m].func = f =>
       /\ stage[f] \in {"syncing", "synced"}
       /\ f \notin late => \A n \in DOMAIN Line : Line[n].func = f => n <= m
  /\ f \notin late /\ stage[f] = "synced" => \A n \in Waiting : Line[n].func # f

CallsOf(f) ==
  stage[f] \in {"new", "copied"} \/ (stage[f] \in {"gone", "syncing", "synced"} /\ f \notin late) =>
    calling # f /\ \A s \in cloned : s[2] # f

\* A raise calls only functions whose owner is subscribed or left during the raise.
LEMMA CallsKept ==
  ASSUME DispatcherInv, [Next]_vars, NEW f \in Funcs
  PROVE  CallsOf(f)'
<1>1. CallsOf(f) /\ (token[f] # Undefined <=> stage[f] \in {"subscribed", "ready", "leaving"}) /\ Moves(f)
  BY StageMoves DEF DispatcherInv, StageDiscipline, CallsOf
<1>2. SUFFICES ASSUME stage'[f] \in {"new", "copied"} \/ (stage'[f] \in {"gone", "syncing", "synced"} /\ f \notin late'),
                      calling' = f \/ \E s \in cloned' : s[2] = f
               PROVE  FALSE
  BY DEF CallsOf
<1>3. CASE stage[f] \in {"new", "copied"} \/ (stage[f] \in {"gone", "syncing", "synced"} /\ f \notin late)
  <2>1. calling # f /\ \A s \in cloned : s[2] # f
    BY <1>1, <1>3 DEF CallsOf
  <2>2. token[f] # Undefined
    BY <1>2, <2>1, CalledWas
  <2> QED  BY <1>1, <1>3, <2>2
<1>4. CASE calling # f /\ (\A s \in cloned : s[2] # f) /\ UNCHANGED <<calling, cloned>>
  BY <1>2, <1>4
<1> QED  BY <1>1, <1>2, <1>3, <1>4 DEF Moves

\* No job of a function comes before it subscribes, and none waits behind its sync.
LEMMA JobsKept ==
  ASSUME DispatcherInv, [Next]_vars, NEW f \in Funcs
  PROVE  JobsOf(f)'
<1>1. /\ TypeOK /\ OrderDiscipline /\ JobsOf(f) /\ CallsOf(f) /\ Moves(f) /\ Waiting \subseteq DOMAIN Line
      /\ \A n \in DOMAIN Line : n \in Nat
  BY StageMoves, WaitingIs, LineIs DEF DispatcherInv, StageDiscipline, JobsOf, CallsOf
<1>2. ASSUME Line' = Line, Waiting' \subseteq Waiting, ~InvokeSync PROVE JobsOf(f)'
  BY <1>1, <1>2 DEF JobsOf, Moves
<1>3. CASE UNCHANGED <<queue, worker>>
  <2>1. ~InvokeSync
    <3>1. at' = at /\ at \in Nat
      BY <1>1, <1>3, SameLine, LineIs
    <3> QED  BY <3>1 DEF InvokeSync, Begins
  <2> QED  BY <1>2, <1>3, <2>1, SameLine
<1>4. CASE TakeBatch
  <2>1. ~InvokeSync
    <3>1. at' = at /\ at \in Nat
      BY <1>1, <1>4, LineIs DEF TakeBatch
    <3> QED  BY <3>1 DEF InvokeSync, Begins
  <2> QED  BY <1>1, <1>2, <1>4, <2>1, LineTaken
<1>5. CASE Perform \/ InvokeUnsubscribe
  <2>1. Line' = Line /\ Waiting' \subseteq Waiting /\ ~InvokeSync
    BY <1>1, <1>5, NextJob DEF Perform, InvokeUnsubscribe, InvokeSync, Begins
  <2> QED  BY <1>2, <2>1
<1>6. CASE Performed
  <2>1. Line' = Line /\ Waiting' \subseteq Waiting /\ ~InvokeSync
    BY <1>1, <1>6, JobReturns DEF InvokeSync, Begins
  <2> QED  BY <1>2, <2>1
<1>7. CASE InvokeSync
  <2>1. /\ Line' = Line /\ Waiting' = Waiting \ {at + 1} /\ at + 1 \in DOMAIN Line
        /\ Line[at + 1] = batch[at + 1] /\ Line[at + 1].kind = "sync" /\ ~running /\ at \in Nat
    BY <1>1, <1>7, NextJob, LineIs DEF InvokeSync
  <2>2. \A n \in Waiting' : n > at + 1
    BY <1>1, <2>1 DEF Waiting
  <2>3. /\ stage'[f] \in {"new", "copied"} => \A n \in DOMAIN Line : Line[n].func # f
        /\ \A m \in DOMAIN Line : Line[m].kind = "sync" /\ Line[m].func = f =>
             /\ stage'[f] \in {"syncing", "synced"}
             /\ f \notin late' => \A n \in DOMAIN Line : Line[n].func = f => n <= m
    BY <1>1 DEF JobsOf, Moves
  <2>4. ASSUME f \notin late', stage'[f] = "synced", NEW n \in Waiting' PROVE Line[n].func # f
    <3>1. f \notin late /\ n \in DOMAIN Line /\ n \in Nat /\ n \in Waiting
      BY <1>1, <2>1, <2>4 DEF Moves
    <3>2. CASE stage[f] = "synced"
      BY <1>1, <3>1, <3>2 DEF JobsOf
    <3>3. CASE batch[at + 1].func = f
      <4>1. Line[n].func = f => n <= at + 1
        BY <1>1, <2>1, <3>1, <3>3 DEF JobsOf
      <4> QED  BY <2>1, <2>2, <2>4, <3>1, <4>1
    <3> QED  BY <1>1, <2>4, <3>2, <3>3 DEF Moves
  <2> QED  BY <2>1, <2>3, <2>4 DEF JobsOf
<1>8. CASE EndBatch
  <2>1. PICK B \in Nat : /\ \A n \in DOMAIN Line' : n \in Nat /\ n + B \in DOMAIN Line /\ Line'[n] = Line[n + B]
                         /\ \A n \in Waiting' : n \in DOMAIN Line' /\ n + B \in Waiting
    BY <1>1, <1>8, LineEnds
  <2>2. stage' = stage /\ late' = late
    BY <1>8 DEF EndBatch
  <2>3. stage[f] \in {"new", "copied"} => \A n \in DOMAIN Line' : Line'[n].func # f
    BY <1>1, <2>1 DEF JobsOf
  <2>4. ASSUME NEW m \in DOMAIN Line', Line'[m].kind = "sync", Line'[m].func = f
        PROVE  /\ stage[f] \in {"syncing", "synced"}
               /\ f \notin late => \A n \in DOMAIN Line' : Line'[n].func = f => n <= m
    <3>1. m \in Nat /\ m + B \in DOMAIN Line /\ Line[m + B].kind = "sync" /\ Line[m + B].func = f
      BY <2>1, <2>4
    <3>2. /\ stage[f] \in {"syncing", "synced"}
          /\ f \notin late => \A n \in DOMAIN Line : Line[n].func = f => n <= m + B
      BY <1>1, <3>1 DEF JobsOf
    <3>3. ASSUME f \notin late, NEW n \in DOMAIN Line', Line'[n].func = f PROVE n <= m
      <4>1. n \in Nat /\ n + B <= m + B
        BY <2>1, <3>2, <3>3
      <4> QED  BY <3>1, <4>1
    <3> QED  BY <3>2, <3>3
  <2>5. f \notin late /\ stage[f] = "synced" => \A n \in Waiting' : Line'[n].func # f
    BY <1>1, <2>1 DEF JobsOf
  <2> QED  BY <2>2, <2>3, <2>4, <2>5 DEF JobsOf
<1>9. ASSUME NEW g \in Funcs, NEW j \in JobRecords, j.func = g, queue' = Append(queue, j),
             UNCHANGED <<batch, at, running>>,
             stage'[f] \in {"new", "copied"} => g # f,
             g = f /\ j.kind = "sync" => stage[f] = "gone" /\ stage'[f] = "syncing",
             g = f /\ j.kind # "sync" =>
               f \in late \/ stage[f] \in {"subscribed", "ready", "leaving"}
      PROVE  JobsOf(f)'
  <2>1. PICK L \in Nat : /\ Line'[L + 1] = j
                         /\ \A n \in DOMAIN Line : n \in DOMAIN Line' /\ Line'[n] = Line[n] /\ n < L + 1
                         /\ \A n \in DOMAIN Line' : n \in DOMAIN Line \/ n = L + 1
                         /\ \A n \in Waiting' : n \in Waiting \/ n = L + 1
    BY <1>1, <1>9, LineAppends, LineIs
  <2>2. ~InvokeSync
    <3>1. at' = at /\ at \in Nat
      BY <1>1, <1>9, LineIs
    <3> QED  BY <3>1 DEF InvokeSync, Begins
  <2>3. stage'[f] \in {"new", "copied"} => \A n \in DOMAIN Line' : Line'[n].func # f
    BY <1>1, <1>9, <2>1 DEF JobsOf, Moves
  <2>4. ASSUME NEW m \in DOMAIN Line', Line'[m].kind = "sync", Line'[m].func = f
        PROVE  /\ stage'[f] \in {"syncing", "synced"}
               /\ f \notin late' => \A n \in DOMAIN Line' : Line'[n].func = f => n <= m
    <3>1. CASE m = L + 1
      <4>1. \A n \in DOMAIN Line' : n <= m
        BY <1>1, <2>1, <3>1
      <4> QED  BY <1>9, <2>1, <2>4, <3>1, <4>1
    <3>2. CASE m \in DOMAIN Line
      <4>1. /\ stage[f] \in {"syncing", "synced"}
            /\ f \notin late => \A n \in DOMAIN Line : Line[n].func = f => n <= m
        BY <1>1, <2>1, <2>4, <3>2 DEF JobsOf
      <4>2. g = f => f \in late
        BY <1>9, <4>1
      <4>3. f \notin late' => \A n \in DOMAIN Line' : Line'[n].func = f => n <= m
        BY <1>1, <1>9, <2>1, <4>1, <4>2 DEF Moves
      <4> QED  BY <1>1, <4>1, <4>3 DEF Moves
    <3> QED  BY <2>1, <3>1, <3>2
  <2>5. f \notin late' /\ stage'[f] = "synced" => \A n \in Waiting' : Line'[n].func # f
    <3>1. f \notin late' /\ stage'[f] = "synced" => f \notin late /\ stage[f] = "synced"
      BY <1>1, <2>2 DEF Moves
    <3> QED  BY <1>1, <1>9, <2>1, <3>1 DEF JobsOf
  <2> QED  BY <2>3, <2>4, <2>5 DEF JobsOf
<1>10. ASSUME NEW g \in Funcs, PostUnsubscribe(g) PROVE JobsOf(f)'
  <2>1. Job("unsubscribe", g) \in JobRecords /\ Job("unsubscribe", g).func = g /\ Job("unsubscribe", g).kind # "sync"
    BY DEF Job, JobRecords
  <2>2. /\ queue' = Append(queue, Job("unsubscribe", g)) /\ UNCHANGED <<batch, at, running>>
        /\ stage[g] = "ready" /\ stage'[g] = "leaving"
    BY <1>1, <1>10 DEF PostUnsubscribe, worker, Stage, TypeOK
  <2> HIDE DEF JobRecords
  <2> QED  BY <1>9, <2>1, <2>2
<1>11. ASSUME NEW g \in Funcs, Sync(g) PROVE JobsOf(f)'
  <2>1. Job("sync", g) \in JobRecords /\ Job("sync", g).func = g /\ Job("sync", g).kind = "sync"
    BY DEF Job, JobRecords
  <2>2. /\ queue' = Append(queue, Job("sync", g)) /\ UNCHANGED <<batch, at, running>>
        /\ stage[g] = "gone" /\ stage'[g] = "syncing"
    BY <1>1, <1>11 DEF Sync, worker, Stage, TypeOK
  <2> HIDE DEF JobRecords
  <2> QED  BY <1>9, <2>1, <2>2
<1>12. CASE PostUpdate
  <2>1. PICK g \in Funcs, j \in JobRecords :
          /\ g = calling /\ j.kind = "update" /\ j.func = g /\ queue' = Append(queue, j)
          /\ UNCHANGED <<batch, at, running, stage, late>>
    BY <1>12, UpdatePosted
  <2>2. g = f => /\ stage[f] \notin {"new", "copied"}
                 /\ f \in late \/ stage[f] \in {"subscribed", "ready", "leaving"}
    <3>1. stage[f] \in {"new", "copied", "subscribed", "ready", "leaving", "gone", "syncing", "synced"}
      BY <1>1 DEF TypeOK
    <3> QED  BY <1>1, <2>1, <3>1 DEF CallsOf
  <2> HIDE DEF JobRecords
  <2> QED  BY <1>9, <2>1, <2>2
<1>13. CASE \/ Write \/ RaiseRow \/ RaiseSignal \/ CallFunc \/ TakeBuffer \/ EndRaise \/ UNCHANGED vars
            \/ \E g \in Funcs : SubGet(g) \/ SubGetRead(g) \/ Bind(g) \/ BindSubscribe(g) \/ Unregister(g)
  BY <1>3, <1>13 DEF Write, RaiseRow, RaiseSignal, CallFunc, TakeBuffer, EndRaise, vars, SubGet, SubGetRead, Bind,
                     BindSubscribe, Unregister
<1> QED  BY <1>4, <1>5, <1>6, <1>7, <1>8, <1>10, <1>11, <1>12, <1>13 DEF Next, OwnerStep, WriterStep, WorkerStep

\* Every step keeps what the stage of an owner says about its calls and jobs.
LEMMA StageKept ==
  ASSUME DispatcherInv, [Next]_vars
  PROVE  StageDiscipline'
<1>1. ASSUME NEW f \in Funcs
      PROVE  JobsOf(f)' /\ CallsOf(f)' /\ (token'[f] # Undefined <=> stage'[f] \in {"subscribed", "ready", "leaving"})
  <2>1. Moves(f)
    BY StageMoves
  <2> QED  BY <2>1, JobsKept, CallsKept DEF Moves
<1> QED  BY <1>1 DEF StageDiscipline, JobsOf, CallsOf

\* Before the first subscription and the first write the invariant holds.
LEMMA InitHolds == Init => DispatcherInv
<1> SUFFICES ASSUME Init PROVE DispatcherInv
  OBVIOUS
<1>1. Line = <<>> /\ DOMAIN Line = {} /\ Waiting = {} /\ ~running
  <2>1. Line = <<>> /\ Len(Line) = 0
    BY DEF Init, Line
  <2> QED  BY <2>1 DEF Init, Waiting
<1>2. SignalTypeOK /\ Subscriptions
  BY NoneIsNoFunc DEF Init, SignalInit, SignalTypeOK, Subscriptions, TokenOwned, Distinct
<1>3. TypeOK
  <2>1. poolSize \in [Funcs -> Buffers] /\ value \in 0 .. MaxWrites
    BY Bounds DEF Init, Buffers
  <2>2. data \in [Funcs -> [Buffers -> 0 .. MaxWrites]] /\ known \in [Funcs -> 0 .. MaxWrites]
    BY Bounds DEF Init
  <2>3. carried \in [Funcs -> [ActionIds -> Buffers \cup {NoBuffer}]]
    BY DEF Init
  <2>4. queue \in Seq(JobRecords) /\ batch \in Seq(JobRecords) /\ at \in 0 .. Len(batch)
    BY DEF Init
  <2> QED  BY <1>2, <2>1, <2>2, <2>3, <2>4 DEF Init, TypeOK
<1>4. WriterDiscipline
  BY DEF Init, SignalInit, WriterDiscipline, Raised
<1>5. OrderDiscipline
  BY <1>1 DEF OrderDiscipline
<1>6. PoolDiscipline
  <2>1. ASSUME NEW f \in Funcs, NEW i \in ActionIds PROVE carried[f][i] = NoBuffer /\ carried[f][i] <= poolSize[f]
    BY Bounds DEF Init, NoBuffer
  <2> QED  BY <1>1, <2>1 DEF PoolDiscipline
<1>7. StageDiscipline
  BY <1>1, NoneIsNoFunc DEF StageDiscipline, Init, SignalInit
<1> QED  BY <1>2, <1>3, <1>4, <1>5, <1>6, <1>7 DEF DispatcherInv

\* The inductive invariant holds throughout, for any functions, pools and number of writes.
THEOREM DispatcherInvariant == Spec => []DispatcherInv
<1>1. ASSUME DispatcherInv, [Next]_vars PROVE DispatcherInv'
  BY <1>1, SignalStep, TypeStep, WriterKept, OrderKept, PoolKept, StageKept DEF DispatcherInv
<1> QED  BY <1>1, InitHolds, PTL DEF Spec
-----------------------------------------------------------------------------
(* What the invariant gives.                                               *)

\* Pending is what is at the waiting positions of the line.
LEMMA PendingIs ==
  ASSUME TypeOK, OrderDiscipline
  PROVE  /\ \A j \in Pending : \E n \in Waiting : Line[n] = j
         /\ \A n \in Waiting : Line[n] \in Pending
<1>1. PICK w \in Nat : /\ w = (IF running THEN at ELSE at + 1) /\ w >= 1 /\ w <= Len(batch) + 1
                       /\ Waiting = w .. Len(Line)
                       /\ Pending = Range(queue) \cup {batch[i] : i \in w .. Len(batch)}
  <2>1. at \in Nat /\ at <= Len(batch) /\ Len(batch) \in Nat /\ (running => at > 0)
    BY LineIs DEF OrderDiscipline
  <2>2. (IF running THEN at ELSE at + 1) \in Nat /\ (IF running THEN at ELSE at + 1) >= 1
        /\ (IF running THEN at ELSE at + 1) <= Len(batch) + 1
    BY <2>1
  <2> QED  BY <2>2 DEF Waiting, Pending
<1>2. /\ Len(Line) = Len(batch) + Len(queue) /\ Len(batch) \in Nat /\ Len(queue) \in Nat
      /\ \A n \in 1 .. Len(batch) : Line[n] = batch[n]
      /\ \A n \in 1 .. Len(queue) : Line[n + Len(batch)] = queue[n]
      /\ DOMAIN queue = 1 .. Len(queue)
  BY LineIs
<1>3. ASSUME NEW j \in Pending PROVE \E n \in Waiting : Line[n] = j
  <2>1. CASE j \in Range(queue)
    <3>1. PICK k \in 1 .. Len(queue) : j = queue[k]
      BY <1>2, <2>1 DEF Range
    <3>2. k + Len(batch) \in Waiting /\ Line[k + Len(batch)] = j
      BY <1>1, <1>2, <3>1
    <3> QED  BY <3>2
  <2>2. CASE j \in {batch[i] : i \in w .. Len(batch)}
    <3>1. PICK i \in w .. Len(batch) : j = batch[i]
      BY <2>2
    <3>2. i \in Waiting /\ Line[i] = j
      BY <1>1, <1>2, <3>1
    <3> QED  BY <3>2
  <2> QED  BY <1>1, <2>1, <2>2
<1>4. ASSUME NEW n \in Waiting PROVE Line[n] \in Pending
  <2>1. CASE n <= Len(batch)
    BY <1>1, <1>2, <2>1
  <2>2. CASE n > Len(batch)
    <3>1. n - Len(batch) \in 1 .. Len(queue) /\ n = (n - Len(batch)) + Len(batch)
      BY <1>1, <1>2, <2>2
    <3>2. PICK k \in 1 .. Len(queue) : n = k + Len(batch)
      BY <3>1
    <3>3. Line[n] = queue[k] /\ k \in DOMAIN queue
      BY <1>2, <3>2
    <3> QED  BY <1>1, <3>3 DEF Range
  <2> QED  BY <1>1, <1>2, <2>1, <2>2
<1> QED  BY <1>3, <1>4

\* Every variable of the dispatcher keeps its range: no pool ever needs more buffers than
\* its base size and two for each write.
THEOREM TypeCorrect == Spec => []TypeOK
<1>1. DispatcherInv => TypeOK
  BY DEF DispatcherInv
<1> QED  BY <1>1, DispatcherInvariant, PTL

\* Until its function has returned, an update carries the value it was posted for, although
\* registration_wrapper uses buffers and actions again as soon as they are free.
THEOREM UpdatesCarryTheirReport == Spec => []CarriesReport
<1>1. ASSUME DispatcherInv PROVE CarriesReport
  <2>1. SUFFICES ASSUME NEW j \in Pending, j.kind = "update"
                 PROVE  /\ carried[j.func][j.action] # NoBuffer
                        /\ data[j.func][carried[j.func][j.action]] = j.value
    BY DEF CarriesReport
  <2>2. PICK n \in Waiting : Line[n] = j
    BY <1>1, PendingIs DEF DispatcherInv
  <2> QED  BY <1>1, <2>1, <2>2 DEF DispatcherInv, PoolDiscipline
<1> QED  BY <1>1, DispatcherInvariant, PTL

\* A function that was unsubscribed while no raise held it is not called after the sync
\* of the dispatcher that followed.
THEOREM SyncSilences == Spec => []QuietAfterSync
<1>1. ASSUME DispatcherInv PROVE QuietAfterSync
  <2>1. SUFFICES ASSUME NEW f \in Funcs \ late, stage[f] = "synced", NEW j \in Pending PROVE j.func # f
    BY DEF QuietAfterSync
  <2>2. PICK n \in Waiting : Line[n] = j
    BY <1>1, PendingIs DEF DispatcherInv
  <2> QED  BY <1>1, <2>1, <2>2 DEF DispatcherInv, StageDiscipline
<1> QED  BY <1>1, DispatcherInvariant, PTL
-----------------------------------------------------------------------------
(* What the owners know.                                                   *)

\* The share of one owner in KnowDiscipline.
KnowsOrWaits(f) ==
  stage[f] \in {"subscribed", "ready"} /\ ~WillCall(f) =>
    \/ \E n \in Waiting : IsUpdate(Line[n], f) /\ Line[n].value = value
    \/ /\ \A n \in Waiting : ~IsUpdate(Line[n], f)
       /\ stage[f] = "ready" => Informed(f)

\* A step that neither writes the row nor takes an update from the line keeps what an owner can count on.
LEMMA KnowFrame ==
  ASSUME NEW f \in Funcs, KnowsOrWaits(f), value' = value, missed' = missed, ~WillCall(f)' => ~WillCall(f),
         stage'[f] \in {"subscribed", "ready"} =>
           /\ stage[f] \in {"subscribed", "ready"}
           /\ known'[f] = value \/ (stage'[f] = stage[f] /\ known'[f] = known[f]),
         \A n \in Waiting : IsUpdate(Line[n], f) => \E k \in Waiting' : Line'[k] = Line[n],
         \A n \in Waiting' : IsUpdate(Line'[n], f) => \E k \in Waiting : Line[k] = Line'[n]
  PROVE  KnowsOrWaits(f)'
<1>1. SUFFICES ASSUME stage'[f] \in {"subscribed", "ready"}, ~WillCall(f)'
               PROVE  \/ \E n \in Waiting' : IsUpdate(Line'[n], f) /\ Line'[n].value = value
                      \/ /\ \A n \in Waiting' : ~IsUpdate(Line'[n], f)
                         /\ stage'[f] = "ready" => Informed(f)'
  BY DEF KnowsOrWaits, IsUpdate
<1>2. CASE \E n \in Waiting : IsUpdate(Line[n], f) /\ Line[n].value = value
  <2>1. PICK n \in Waiting : IsUpdate(Line[n], f) /\ Line[n].value = value
    BY <1>2
  <2>2. PICK k \in Waiting' : Line'[k] = Line[n]
    BY <2>1
  <2> QED  BY <2>1, <2>2
<1>3. CASE (\A n \in Waiting : ~IsUpdate(Line[n], f)) /\ (stage[f] = "ready" => Informed(f))
  BY <1>1, <1>3 DEF Informed
<1> QED  BY <1>1, <1>2, <1>3 DEF KnowsOrWaits

\* The function that runs has brought what it was posted for.
LEMMA RunningKnows ==
  ASSUME DispatcherInv, KnowDiscipline, [Next]_vars, running', batch'[at'].value = value'
  PROVE  known'[batch'[at'].func] = value'
<1>1. TypeOK /\ OrderDiscipline
  BY DEF DispatcherInv
<1>2. ASSUME UNCHANGED <<worker, known, value>> PROVE known'[batch'[at'].func] = value'
  BY <1>2 DEF KnowDiscipline, worker
<1>3. CASE Perform
  <2>1. /\ batch'[at'] = Line[at + 1] /\ at + 1 \in Waiting /\ Line[at + 1].kind = "update" /\ value' = value
        /\ Line[at + 1] \in JobRecords /\ batch[at + 1] = Line[at + 1]
    BY <1>1, <1>3, NextJob DEF Perform, row
  <2>2. PICK j \in JobRecords : j = Line[at + 1] /\ j.func \in Funcs
    BY <2>1, JobKinds
  <2>3. data[j.func][carried[j.func][j.action]] = j.value
    BY <2>1, <2>2 DEF DispatcherInv, PoolDiscipline
  <2>4. known' = [known EXCEPT ![j.func] = data[j.func][carried[j.func][j.action]]]
    BY <1>3, <2>1, <2>2 DEF Perform
  <2>5. known'[j.func] = j.value
    BY <1>1, <2>2, <2>3, <2>4 DEF TypeOK
  <2> QED  BY <2>1, <2>2, <2>5
<1>4. CASE Write
  <2>1. /\ value' = value + 1 /\ value \in Nat /\ UNCHANGED <<batch, at, running>>
    <3>1. value' = value + 1 /\ UNCHANGED <<queue, worker>>
      BY <1>4 DEF Write
    <3>2. value \in Nat
      BY <1>1 DEF TypeOK
    <3> QED  BY <3>1, <3>2, SameLine
  <2>2. at > 0 /\ batch[at].kind = "update"
    BY <1>1, <2>1 DEF OrderDiscipline
  <2>3. at \in DOMAIN Line /\ Line[at] = batch[at] /\ batch[at] \in JobRecords
    BY <1>1, <2>2, BatchIs
  <2>4. batch[at].value <= value /\ batch[at].value \in Nat
    BY <1>1, <2>2, <2>3, JobKinds DEF OrderDiscipline
  <2> QED  BY <2>1, <2>4
<1>5. ASSUME NEW f \in Funcs, SubGetRead(f) \/ Bind(f) PROVE known'[batch'[at'].func] = value'
  <2>1. UNCHANGED <<batch, at, running, value>> /\ known' = [known EXCEPT ![f] = value]
    BY <1>5 DEF SubGetRead, Bind, worker, row
  <2>2. at > 0
    BY <1>1, <2>1 DEF OrderDiscipline
  <2>3. batch[at].func \in Funcs
    BY <1>1, <2>2, BatchIs, JobKinds
  <2>4. known[batch[at].func] = value
    BY <2>1 DEF KnowDiscipline
  <2> QED  BY <1>1, <2>1, <2>3, <2>4 DEF TypeOK
<1>6. ASSUME NEW f \in Funcs, SubGet(f) \/ BindSubscribe(f) \/ Unregister(f) \/ PostUnsubscribe(f) \/ Sync(f)
      PROVE  known'[batch'[at'].func] = value'
  BY <1>2, <1>6 DEF SubGet, BindSubscribe, Unregister, PostUnsubscribe, Sync, row
<1>7. CASE RaiseRow \/ RaiseSignal \/ CallFunc \/ TakeBuffer \/ PostUpdate \/ EndRaise \/ UNCHANGED vars
  BY <1>2, <1>7 DEF RaiseRow, RaiseSignal, CallFunc, TakeBuffer, PostUpdate, EndRaise, vars, row
<1>8. CASE TakeBatch
  <2>1. at = 0 /\ running
    BY <1>1, <1>8 DEF TakeBatch, TypeOK
  <2> QED  BY <1>1, <2>1 DEF OrderDiscipline
<1>9. CASE Performed \/ InvokeUnsubscribe \/ InvokeSync \/ EndBatch
  BY <1>9 DEF Performed, InvokeUnsubscribe, InvokeSync, EndBatch, Begins
<1> QED  BY <1>3, <1>4, <1>5, <1>6, <1>7, <1>8, <1>9 DEF Next, OwnerStep, WriterStep, WorkerStep

\* Between the halves of bind the owner has what it copied, or the row was written meanwhile.
LEMMA CopiedKnows ==
  ASSUME DispatcherInv, KnowDiscipline, [Next]_vars, NEW f \in Funcs, stage'[f] = "copied"
  PROVE  Informed(f)'
<1>1. TypeOK
  BY DEF DispatcherInv
<1>2. CASE stage[f] = "copied" /\ Write
  BY <1>2 DEF Write, Informed
<1>3. CASE stage[f] = "copied" /\ ~Write
  <2>1. Informed(f) /\ stage[f] = "copied" /\ ~Write
    BY <1>3 DEF KnowDiscipline
  <2>2. value' = value /\ missed' = missed
    <3>1. value' = value
      BY <2>1, SameValue
    <3>2. missed' = missed
      BY <2>1 DEF Next, OwnerStep, WriterStep, WorkerStep, SubGet, SubGetRead, Bind, BindSubscribe, Unregister,
               PostUnsubscribe, Sync, RaiseRow, RaiseSignal, CallFunc, TakeBuffer, PostUpdate, EndRaise, TakeBatch,
               Perform, Performed, InvokeUnsubscribe, InvokeSync, EndBatch, vars
    <3> QED  BY <3>1, <3>2
  <2>3. CASE Perform
    <3>1. PICK g \in Funcs : g = batch[at + 1].func /\ g # f
      <4>1. /\ batch[at + 1].func \in Funcs /\ at + 1 \in DOMAIN Line /\ Line[at + 1] = batch[at + 1]
        BY <1>1, <2>3, NextJob, JobKinds DEF Perform
      <4> QED  BY <2>1, <4>1 DEF DispatcherInv, StageDiscipline
    <3>2. known'[f] = known[f]
      BY <1>1, <2>3, <3>1 DEF Perform, TypeOK
    <3> QED  BY <2>1, <2>2, <3>2 DEF Informed
  <2>4. ASSUME NEW g \in Funcs, SubGetRead(g) \/ Bind(g) PROVE Informed(f)'
    BY <1>1, <2>1, <2>2, <2>4 DEF SubGetRead, Bind, TypeOK, Informed
  <2>5. CASE known' = known
    BY <2>1, <2>2, <2>5 DEF Informed
  <2> QED  BY <2>1, <2>3, <2>4, <2>5
           DEF Next, OwnerStep, WriterStep, WorkerStep, SubGet, BindSubscribe, Unregister, PostUnsubscribe, Sync,
               RaiseRow, RaiseSignal, CallFunc, TakeBuffer, PostUpdate, EndRaise, TakeBatch, Performed,
               InvokeUnsubscribe, InvokeSync, EndBatch, vars
<1>4. CASE stage[f] # "copied"
  <2>1. ASSUME NEW g \in Funcs, Bind(g) PROVE Informed(f)'
    BY <1>1, <1>4, <2>1 DEF Bind, Stage, TypeOK, row, Informed
  <2>2. ASSUME NEW g \in Funcs, NEW a, NEW b, b # "copied", Stage(g, a, b) PROVE FALSE
    BY <1>1, <1>4, <2>2 DEF Stage, TypeOK
  <2>3. ASSUME NEW g \in Funcs, \/ SubGet(g) \/ SubGetRead(g) \/ BindSubscribe(g) \/ Unregister(g)
                                \/ PostUnsubscribe(g) \/ Sync(g) PROVE FALSE
    BY <2>2, <2>3 DEF SubGet, SubGetRead, BindSubscribe, Unregister, PostUnsubscribe, Sync
  <2>4. CASE InvokeUnsubscribe \/ InvokeSync
    <3>1. batch[at + 1].func \in Funcs
      BY <1>1, <2>4, NextJob, JobKinds DEF InvokeUnsubscribe, InvokeSync
    <3> QED  BY <2>2, <2>4, <3>1 DEF InvokeUnsubscribe, InvokeSync
  <2>5. CASE stage' = stage
    BY <1>4, <2>5
  <2> QED  BY <2>1, <2>3, <2>4, <2>5
           DEF Next, OwnerStep, WriterStep, WorkerStep, Write, RaiseRow, RaiseSignal, CallFunc, TakeBuffer,
               PostUpdate, EndRaise, TakeBatch, Perform, Performed, EndBatch, vars
<1> QED  BY <1>2, <1>3, <1>4

\* An owner learns of each write: by the update that waits for it, or it will be called.
LEMMA KnowsKept ==
  ASSUME DispatcherInv, KnowDiscipline, [Next]_vars, NEW f \in Funcs
  PROVE  KnowsOrWaits(f)'
<1>1. /\ TypeOK /\ Subscriptions /\ WriterDiscipline /\ OrderDiscipline /\ StageDiscipline
      /\ KnowsOrWaits(f) /\ Waiting \subseteq DOMAIN Line
  BY WaitingIs DEF DispatcherInv, KnowDiscipline, KnowsOrWaits
<1>2. /\ value \in Nat /\ (stage[f] \in {"subscribed", "ready"} => subscribers # {})
  <2>1. stage[f] \in {"subscribed", "ready"} => token[f] # Undefined
    BY <1>1 DEF StageDiscipline
  <2>2. value \in Nat
    BY <1>1 DEF TypeOK
  <2> QED  BY <1>1, <2>1, <2>2 DEF Subscriptions, TokenOwned
<1>3. ASSUME UNCHANGED <<queue, worker, value, stage, known, missed>>, ~WillCall(f)' => ~WillCall(f) PROVE KnowsOrWaits(f)'
  <2>1. Line' = Line /\ Waiting' = Waiting
    BY <1>3, SameLine
  <2> QED  BY <1>1, <1>3, <2>1, KnowFrame
<1>4. ASSUME UNCHANGED <<signalVars, row>> PROVE ~WillCall(f)' => ~WillCall(f)
  BY <1>4 DEF WillCall, signalVars, row
<1>5. CASE Write
  BY <1>5 DEF Write, KnowsOrWaits, WillCall
<1>6. ASSUME NEW g \in Funcs, SubGet(g) \/ BindSubscribe(g) PROVE KnowsOrWaits(f)'
  <2>1. /\ UNCHANGED <<queue, worker, value, known, missed>> /\ (~WillCall(f)' => ~WillCall(f))
    BY <1>6 DEF SubGet, BindSubscribe, Subscribe, row, WillCall
  <2>2. Line' = Line /\ Waiting' = Waiting
    BY <2>1, SameLine
  <2>3. CASE g # f
    <3>1. stage'[f] = stage[f]
      BY <1>1, <1>6, <2>3 DEF SubGet, BindSubscribe, Stage, TypeOK
    <3> QED  BY <1>1, <2>1, <2>2, <3>1, KnowFrame
  <2>4. CASE g = f
    <3>1. stage[f] \in {"new", "copied"} /\ (stage'[f] = "ready" => stage[f] = "copied")
      BY <1>1, <1>6, <2>4 DEF SubGet, BindSubscribe, Stage, TypeOK
    <3>2. \A n \in Waiting' : ~IsUpdate(Line'[n], f)
      BY <1>1, <2>2, <3>1 DEF StageDiscipline, IsUpdate
    <3>3. stage'[f] = "ready" => Informed(f)'
      BY <2>1, <3>1 DEF KnowDiscipline, Informed
    <3> QED  BY <3>2, <3>3 DEF KnowsOrWaits, IsUpdate
  <2> QED  BY <2>3, <2>4
<1>7. ASSUME NEW g \in Funcs, SubGetRead(g) \/ Bind(g) PROVE KnowsOrWaits(f)'
  <2>1. /\ UNCHANGED <<queue, worker, value, missed>> /\ (~WillCall(f)' => ~WillCall(f))
    BY <1>4, <1>7 DEF SubGetRead, Bind, row
  <2>2. Line' = Line /\ Waiting' = Waiting
    BY <2>1, SameLine
  <2>3. CASE g # f
    <3>1. stage'[f] = stage[f] /\ known'[f] = known[f]
      BY <1>1, <1>7, <2>3 DEF SubGetRead, Bind, Stage, TypeOK
    <3> QED  BY <1>1, <2>1, <2>2, <3>1, KnowFrame
  <2>4. CASE g = f
    <3>1. known'[f] = value /\ (stage'[f] \in {"subscribed", "ready"} => stage[f] \in {"subscribed", "ready"})
      BY <1>1, <1>7, <2>4 DEF SubGetRead, Bind, Stage, TypeOK
    <3> QED  BY <1>1, <2>1, <2>2, <3>1, KnowFrame
  <2> QED  BY <2>3, <2>4
<1>8. ASSUME NEW g \in Funcs, NEW a, Stage(g, a, "gone"), Leave(g), UNCHANGED <<value, wpc, known, missed>>, ~InvokeSync,
             \A n \in Waiting : IsUpdate(Line[n], f) => n \in Waiting' /\ Line'[n] = Line[n],
             \A n \in Waiting' : n \in Waiting /\ Line'[n] = Line[n]
      PROVE  KnowsOrWaits(f)'
  <2>1. CASE g = f
    <3>1. stage'[f] = "gone"
      BY <1>1, <1>8, <2>1 DEF Stage, TypeOK
    <3> QED  BY <3>1 DEF KnowsOrWaits
  <2>2. CASE g # f /\ stage[f] \in {"subscribed", "ready"}
    <3>1. stage'[f] = stage[f] /\ UNCHANGED <<calling, cloned>>
      BY <1>1, <1>8, <2>2 DEF Stage, TypeOK, Leave, Unsubscribe
    <3>2. subscribers' # {}
      <4>1. token[f] # Undefined
        BY <1>1, <2>2 DEF StageDiscipline
      <4>2. /\ SignalTypeOK' /\ Subscriptions' /\ token'[f] = token[f]
        BY <1>1, <1>8, <2>2, UnsubscribeKeeps DEF Leave, TypeOK
      <4> QED  BY <4>1, <4>2 DEF Subscriptions, TokenOwned
    <3>3. ~WillCall(f)' => ~WillCall(f)
      BY <1>8, <3>1, <3>2 DEF Leave, WillCall
    <3> QED  BY <1>1, <1>8, <3>1, <3>3, KnowFrame
  <2>3. CASE g # f /\ stage[f] \notin {"subscribed", "ready"}
    <3>1. stage'[f] = stage[f]
      BY <1>1, <1>8, <2>3 DEF Stage, TypeOK
    <3> QED  BY <2>3, <3>1 DEF KnowsOrWaits
  <2> QED  BY <2>1, <2>2, <2>3
<1>9. ASSUME NEW g \in Funcs, Unregister(g) PROVE KnowsOrWaits(f)'
  <2>1. Line' = Line /\ Waiting' = Waiting /\ at' = at /\ at \in Nat
    BY <1>1, <1>9, SameLine, LineIs DEF Unregister
  <2>2. ~InvokeSync
    BY <2>1 DEF InvokeSync, Begins
  <2> QED  BY <1>8, <1>9, <2>1, <2>2 DEF Unregister
<1>10. CASE InvokeUnsubscribe
  <2>1. /\ Line' = Line /\ Waiting' = Waiting \ {at + 1} /\ Line[at + 1].kind # "update"
        /\ batch[at + 1].func \in Funcs /\ ~InvokeSync
    BY <1>1, <1>10, NextJob, JobKinds DEF InvokeUnsubscribe, InvokeSync, Begins
  <2> QED  BY <1>8, <1>10, <2>1 DEF InvokeUnsubscribe, IsUpdate
<1>11. ASSUME NEW g \in Funcs, PostUnsubscribe(g) \/ Sync(g) PROVE KnowsOrWaits(f)'
  <2>1. PICK j \in JobRecords : j.kind # "update" /\ queue' = Append(queue, j) /\ UNCHANGED <<batch, at, running>>
    BY <1>11 DEF PostUnsubscribe, Sync, Job, JobRecords, worker
  <2>2. \A n \in Waiting : n \in Waiting' /\ Line'[n] = Line[n]
    BY <1>1, <2>1, LineAppends
  <2>3. \A n \in Waiting' : Line'[n].kind = "update" => n \in Waiting /\ Line'[n] = Line[n]
    BY <1>1, <2>1, LineAppends
  <2>4. UNCHANGED <<value, known, missed>> /\ (~WillCall(f)' => ~WillCall(f))
    BY <1>4, <1>11 DEF PostUnsubscribe, Sync, row
  <2>5. stage'[f] \in {"subscribed", "ready"} => stage'[f] = stage[f]
    BY <1>1, <1>11 DEF PostUnsubscribe, Sync, Stage, TypeOK
  <2> QED  BY <1>1, <2>2, <2>3, <2>4, <2>5, KnowFrame DEF IsUpdate
<1>12. CASE RaiseRow
  <2>1. ~dropped /\ dropped' = dropped /\ stage' = stage /\ wpc' = (IF subscribers = {} THEN "idle" ELSE "row")
    BY <1>1, <1>12 DEF RaiseRow, WriterDiscipline
  <2> QED  BY <1>2, <2>1 DEF KnowsOrWaits, WillCall
<1>13. CASE RaiseSignal
  <2>1. /\ wpc = "row" /\ wpc' = "raise" /\ cloned = {} /\ calling = None
        /\ UNCHANGED <<queue, worker, value, stage, known, missed>>
    BY <1>1, <1>13 DEF RaiseSignal, WriterDiscipline, Raised
  <2>2. CASE dropped
    BY <1>3, <2>1, <2>2, NoneIsNoFunc DEF WillCall
  <2>3. CASE ~dropped
    <3>1. stage[f] \in {"subscribed", "ready"} => <<token[f], f>> \in subscribers
      BY <1>1 DEF StageDiscipline, Subscriptions, TokenOwned
    <3>2. cloned' = subscribers
      BY <1>13, <2>3 DEF RaiseSignal, Raise
    <3>3. stage[f] \in {"subscribed", "ready"} => WillCall(f)'
      BY <3>1, <3>2 DEF WillCall
    <3> QED  BY <2>1, <3>3 DEF KnowsOrWaits
  <2> QED  BY <2>2, <2>3
<1>14. CASE CallFunc
  <2>1. PICK s \in cloned : cloned' = cloned \ {s} /\ calling' = s[2]
    BY <1>14 DEF CallFunc, Invoke
  <2>2. calling = None /\ UNCHANGED <<wpc, dropped>>
    BY <1>14 DEF CallFunc, Invoke, row
  <2>3. ~WillCall(f)' => ~WillCall(f)
    BY <2>1, <2>2, NoneIsNoFunc DEF WillCall
  <2>4. UNCHANGED <<queue, worker, value, stage, known, missed>>
    BY <1>14 DEF CallFunc, row
  <2> QED  BY <1>3, <2>3, <2>4
<1>15. CASE TakeBuffer
  <2>1. UNCHANGED <<queue, worker, value, stage, known, missed>> /\ (~WillCall(f)' => ~WillCall(f))
    BY <1>15 DEF TakeBuffer, WillCall, signalVars
  <2> QED  BY <1>3, <2>1
<1>16. CASE PostUpdate
  <2>1. PICK g \in Funcs, j \in JobRecords :
          /\ g = calling /\ calling' = None /\ cloned' = cloned /\ UNCHANGED <<wpc, dropped>>
          /\ j.kind = "update" /\ j.func = g /\ j.value = value
          /\ queue' = Append(queue, j) /\ UNCHANGED <<batch, at, running, value, stage, known, missed>>
    <3>1. UNCHANGED <<wpc, dropped, missed>>
      BY <1>16 DEF PostUpdate
    <3> QED  BY <1>16, <3>1, UpdatePosted
  <2>2. PICK L \in Nat : /\ Line'[L + 1] = j /\ L + 1 \in Waiting'
                         /\ \A n \in DOMAIN Line : Line'[n] = Line[n]
                         /\ \A n \in Waiting : n \in Waiting'
                         /\ \A n \in Waiting' : n \in Waiting \/ n = L + 1
    BY <1>1, <2>1, LineAppends, LineIs
  <2>3. CASE g = f
    <3>1. IsUpdate(Line'[L + 1], f) /\ Line'[L + 1].value = value'
      BY <2>1, <2>2, <2>3 DEF IsUpdate
    <3> QED  BY <2>2, <3>1 DEF KnowsOrWaits, IsUpdate
  <2>4. CASE g # f
    <3>1. ~WillCall(f)' => ~WillCall(f)
      BY <2>1, <2>4 DEF WillCall
    <3>2. \A n \in Waiting' : IsUpdate(Line'[n], f) => n \in Waiting /\ Line'[n] = Line[n]
      BY <1>1, <2>1, <2>2, <2>4 DEF IsUpdate
    <3>3. \A n \in Waiting : n \in Waiting' /\ Line'[n] = Line[n]
      BY <1>1, <2>2
    <3> QED  BY <1>1, <2>1, <3>1, <3>2, <3>3, KnowFrame
  <2> QED  BY <2>3, <2>4
<1>17. CASE EndRaise
  <2>1. UNCHANGED <<queue, worker, value, stage, known, missed>> /\ (~WillCall(f)' => ~WillCall(f))
    BY <1>17 DEF EndRaise, WillCall, signalVars
  <2> QED  BY <1>3, <2>1
<1>18. CASE TakeBatch
  <2>1. Line' = Line /\ Waiting' = Waiting /\ UNCHANGED <<value, stage, known, missed>> /\ (~WillCall(f)' => ~WillCall(f))
    BY <1>1, <1>4, <1>18, LineTaken DEF TakeBatch, row
  <2> QED  BY <1>1, <2>1, KnowFrame
<1>19. CASE Perform
  <2>1. /\ Line' = Line /\ Waiting' = Waiting /\ at + 1 \in Waiting /\ Line[at + 1].kind = "update"
        /\ batch[at + 1] = Line[at + 1] /\ batch[at + 1].func \in Funcs
    BY <1>1, <1>19, NextJob, JobKinds DEF Perform
  <2>2. UNCHANGED <<value, stage, missed>> /\ (~WillCall(f)' => ~WillCall(f))
    BY <1>4, <1>19 DEF Perform, row
  <2>3. CASE Line[at + 1].func # f
    <3>1. known'[f] = known[f]
      BY <1>1, <1>19, <2>1, <2>3 DEF Perform, TypeOK
    <3> QED  BY <1>1, <2>1, <2>2, <3>1, KnowFrame
  <2>4. CASE Line[at + 1].func = f
    <3>1. IsUpdate(Line[at + 1], f)
      BY <2>1, <2>4 DEF IsUpdate
    <3>2. stage[f] \in {"subscribed", "ready"} /\ ~WillCall(f) =>
            \E n \in Waiting : IsUpdate(Line[n], f) /\ Line[n].value = value
      BY <1>1, <2>1, <3>1 DEF KnowsOrWaits
    <3> QED  BY <2>1, <2>2, <3>2 DEF KnowsOrWaits
  <2> QED  BY <2>3, <2>4
<1>20. CASE Performed
  <2>1. /\ Line' = Line /\ at \in Waiting /\ at \in DOMAIN Line /\ Waiting' = Waiting \ {at} /\ running
        /\ Line[at] = batch[at] /\ Line[at].kind = "update"
    BY <1>1, <1>20, JobReturns
  <2>2. UNCHANGED <<value, stage, known, missed>> /\ (~WillCall(f)' => ~WillCall(f))
    BY <1>4, <1>20 DEF Performed, row
  <2>3. CASE Line[at].func # f
    <3>1. \A n \in Waiting : IsUpdate(Line[n], f) => n \in Waiting'
      BY <2>1, <2>3 DEF IsUpdate
    <3> QED  BY <1>1, <2>1, <2>2, <3>1, KnowFrame
  <2>4. CASE Line[at].func = f /\ Line[at].value = value
    <3>1. known[f] = value
      BY <2>1, <2>4 DEF KnowDiscipline
    <3>2. ASSUME NEW n \in Waiting', IsUpdate(Line[n], f) PROVE FALSE
      <4>1. n \in DOMAIN Line /\ n > at /\ at \in Nat /\ n \in Nat
        BY <1>1, <2>1, LineIs DEF Waiting
      <4>2. Line[at].value < Line[n].value /\ Line[n].value <= value
        BY <1>1, <2>1, <2>4, <3>2, <4>1 DEF OrderDiscipline, IsUpdate
      <4>3. Line[n].value \in Nat
        BY <1>1, <3>2, <4>1, LineIs, JobKinds DEF IsUpdate
      <4> QED  BY <1>2, <2>4, <4>2, <4>3
    <3> QED  BY <2>1, <2>2, <3>1, <3>2 DEF KnowsOrWaits, Informed
  <2>5. CASE Line[at].func = f /\ Line[at].value # value
    <3>1. IsUpdate(Line[at], f)
      BY <2>1, <2>5 DEF IsUpdate
    <3>2. stage[f] \in {"subscribed", "ready"} /\ ~WillCall(f) =>
            \E n \in Waiting' : IsUpdate(Line[n], f) /\ Line[n].value = value
      BY <1>1, <2>1, <2>5, <3>1 DEF KnowsOrWaits
    <3> QED  BY <2>1, <2>2, <3>2 DEF KnowsOrWaits
  <2> QED  BY <2>3, <2>4, <2>5
<1>21. CASE InvokeSync
  <2>1. /\ Line' = Line /\ Waiting' = Waiting \ {at + 1} /\ Line[at + 1].kind # "update"
        /\ batch[at + 1].func \in Funcs
    BY <1>1, <1>21, NextJob, JobKinds DEF InvokeSync
  <2>2. UNCHANGED <<value, known, missed>> /\ (~WillCall(f)' => ~WillCall(f))
    BY <1>4, <1>21 DEF InvokeSync, row
  <2>3. stage'[f] \in {"subscribed", "ready"} => stage'[f] = stage[f]
    BY <1>1, <1>21, <2>1 DEF InvokeSync, Stage, TypeOK
  <2> QED  BY <1>1, <2>1, <2>2, <2>3, KnowFrame DEF IsUpdate
<1>22. CASE EndBatch
  <2>1. \A n \in Waiting' : n + Len(batch) \in Waiting /\ Line'[n] = Line[n + Len(batch)]
    BY <1>1, <1>22, LineEnds
  <2>2. \A n \in Waiting : \E k \in Waiting' : Line'[k] = Line[n]
    BY <1>1, <1>22, <2>1, LineEnds
  <2>3. UNCHANGED <<value, stage, known, missed>> /\ (~WillCall(f)' => ~WillCall(f))
    BY <1>4, <1>22 DEF EndBatch, row
  <2> QED  BY <1>1, <2>1, <2>2, <2>3, KnowFrame
<1>23. CASE UNCHANGED vars
  <2>1. UNCHANGED <<queue, worker, value, stage, known, missed>> /\ (~WillCall(f)' => ~WillCall(f))
    BY <1>4, <1>23 DEF vars, row
  <2> QED  BY <1>3, <2>1
<1> QED  BY <1>5, <1>6, <1>7, <1>9, <1>10, <1>11, <1>12, <1>13, <1>14, <1>15, <1>16, <1>17, <1>18, <1>19, <1>20,
            <1>21, <1>22, <1>23 DEF Next, OwnerStep, WriterStep, WorkerStep

\* Every step keeps that owners know the row or will be told of it.
LEMMA KnowStep ==
  ASSUME DispatcherInv, KnowDiscipline, [Next]_vars
  PROVE  KnowDiscipline'
<1>1. \A f \in Funcs : KnowsOrWaits(f)' /\ (stage'[f] = "copied" => Informed(f)')
  BY KnowsKept, CopiedKnows
<1>2. running' /\ batch'[at'].value = value' => known'[batch'[at'].func] = value'
  BY RunningKnows
<1> QED  BY <1>1, <1>2 DEF KnowDiscipline, KnowsOrWaits

\* An owner who has subscribed knows the row's value whenever no write and no update is under
\* way: no update is lost, taken for another one or overtaken on its way to the dispatcher.
\* Excepted is only an owner whose bind was between its copy and its subscription at the last
\* write; the next write brings it up to date.
THEOREM OwnersKnowTheRow == Spec => []KnowsLast
<1>1. Init => KnowDiscipline
  BY DEF Init, KnowDiscipline, Line, Waiting
<1>2. ASSUME DispatcherInv, KnowDiscipline, [Next]_vars PROVE KnowDiscipline'
  BY <1>2, KnowStep
<1>3. ASSUME DispatcherInv, KnowDiscipline PROVE KnowsLast
  <2>1. SUFFICES ASSUME NEW f \in Funcs \ missed, stage[f] = "ready", wpc = "idle",
                        ~\E j \in Pending : j.func = f
                 PROVE  known[f] = value
    BY DEF KnowsLast, Settled
  <2>2. ~WillCall(f)
    BY <1>3, <2>1, NoneIsNoFunc DEF DispatcherInv, WriterDiscipline, Raised, WillCall
  <2>3. \A n \in Waiting : ~IsUpdate(Line[n], f)
    BY <1>3, <2>1, PendingIs DEF DispatcherInv, IsUpdate
  <2> QED  BY <1>3, <2>1, <2>2, <2>3 DEF KnowDiscipline, Informed
<1> QED  BY <1>1, <1>2, <1>3, DispatcherInvariant, PTL DEF Spec
=============================================================================
