--------------------- MODULE SharedMemoryStreamingProofs ---------------------
(***************************************************************************)
(* For any number of readers, buffers, pools and frames: what OnBuffer is  *)
(* given does not change while anybody has it, whoever dies or starts      *)
(* anew, the publisher runs out of buffers only if all of them are in use, *)
(* and frames never go back.                                               *)
(*                                                                         *)
(* The lock of a buffer is what protects it, and the invariant says who    *)
(* has which: the publisher the buffer that it fills, a reader the one it  *)
(* reads and those it keeps, never both.  What is torn is still locked by  *)
(* the publisher that died with it.  The rest is that readers never look   *)
(* at a buffer that was not filled yet.  That a buffer is free is then a   *)
(* matter of counting: a living reader has locked each as often as it has  *)
(* frames of it.                                                           *)
(***************************************************************************)
EXTENDS SharedMemoryStreaming, TLAPS

\* The publisher has a pool of its own once it made the id, and locks what it fills.
WriterInv ==
  /\ wpc \in {"create", "truncate", "construct", "idle", "writing", "unlock", "set"} =>
       wpool \in Pools /\ wpool <= generated
  /\ wpc \in {"create", "truncate", "construct"} => stage[wpool] # "ready"
  /\ wpc \in {"writing", "unlock"} => wbuf \in unique[wpool]
  /\ wpc \in {"writing", "unlock", "set"} => content[wpool][wbuf].state # "unused"
  /\ wpc = "unlock" => content[wpool][wbuf].state = "whole"
  /\ \A p \in Pools : p > generated => stage[p] = "absent"

Exclusive == \A p \in Pools : \A b \in unique[p] : \A r \in Readers : shared[p][b][r] = 0

TornLocked == \A p \in Pools : \A b \in Buffers : content[p][b].state = "torn" => b \in unique[p]

IndexUsed ==
  \A p \in Pools : stage[p] = "ready" /\ index[p] # Undefined => content[p][index[p]].state # "unused"

ReaderInv ==
  \A r \in Readers :
    /\ rpc[r] \in {"map", "waiting", "lock", "reading"} => rpool[r] \in Pools
    /\ sized[r] => rpool[r] \in Pools /\ stage[rpool[r]] = "ready"
    /\ rpc[r] = "lock" /\ sized[r] /\ rbuf[r] \in Buffers =>
         content[rpool[r]][rbuf[r]].state # "unused"
    /\ rpc[r] = "reading" => rbuf[r] \in Buffers

\* What a living reader has of a buffer: what is kept, and what OnBuffer has.
Held(r, p, b) == kept[p][b][r] + IF rpc[r] = "reading" /\ rpool[r] = p /\ rbuf[r] = b THEN 1 ELSE 0

Counted(r) ==
  \A p \in Pools, b \in Buffers :
    /\ kept[p][b][r] <= shared[p][b][r]
    /\ rpc[r] # "dead" => shared[p][b][r] = Held(r, p, b)

LockCount == \A r \in Readers : Counted(r)

StreamInv ==
  /\ TypeOK /\ WriterInv /\ Exclusive /\ TornLocked /\ IndexUsed /\ ReaderInv /\ LockCount
  /\ StableWhileRead
-----------------------------------------------------------------------------
\* With no segment and no process running, the invariant holds.
LEMMA StreamInit == Init => StreamInv
BY StreamAssumption DEF Init, StreamInv, TypeOK, WriterInv, Exclusive, TornLocked, IndexUsed, ReaderInv,
   LockCount, Counted, Held, StableWhileRead, Pools, Buffers, NoPool, Undefined, Content

-----------------------------------------------------------------------------
(* Who changes what.                                                       *)

WriterAction == WriterStep \/ Start \/ QueryBufferUnique \/ Close \/ Die \/ DieInSet

Releases(r) == \E p \in Pools, b \in Buffers : ReleaseFrame(r, p, b)

PlayerAction(r) ==
  PlayerStep(r) \/ StartPlayer(r) \/ StopPlayer(r) \/ DieReader(r) \/ DieInWait(r) \/ Releases(r)

\* The publisher changes nothing of the players, nor their locks.
LEMMA WriterFrame == WriterAction => UNCHANGED <<players, shared, kept>>
BY DEF WriterAction, WriterStep, Start, CreateSession, InitSession, SetPoolId, CreatePool, TruncatePool,
   Construct, QueryBufferUnique, Serialized, SerializeFails, PublishUnlocks, Set, SetTimesOut, Close,
   Die, DieInSet, Exits, segments, handler, locks, writer

\* A player changes neither segments nor the publisher, nor what buffers hold.
LEMMA PlayerFrame ==
  ASSUME NEW r \in Readers, PlayerAction(r)
  PROVE  UNCHANGED <<segments, writer, sequence, index, unique, content>>
BY DEF PlayerAction, PlayerStep, Open, Map, WaitFails, Wait, Changed, TimesOut, LockShared,
   LockSharedFails, EndRead, Slept, StartPlayer, StopPlayer, DieReader, DieInWait, Releases,
   ReleaseFrame, handler, locks

\* Every step is one of the publisher or of one player.
LEMMA Actor == Next => WriterAction \/ \E r \in Readers : PlayerAction(r)
BY DEF Next, WriterAction, PlayerAction, Releases

\* Types, by who changes them.
WriterTypes ==
  /\ session \in {"absent", "empty", "ready"} /\ poolId \in {NoPool} \cup Pools
  /\ stage \in [Pools -> {"absent", "empty", "zeroed", "ready"}] /\ linked \subseteq Pools
  /\ wpc \in {"down", "session", "initialise", "announce", "create", "truncate", "construct",
              "idle", "writing", "unlock", "set"}
  /\ wpool \in {NoPool} \cup Pools /\ released \in {NoPool} \cup Pools
  /\ wbuf \in Buffers /\ next \in Buffers
  /\ frames \in 0 .. MaxFrames /\ generated \in 0 .. MaxPools

BufferTypes ==
  /\ sequence \in [Pools -> 0 .. SeqBound - 1]
  /\ index \in [Pools -> Buffers \cup {Undefined}]
  /\ unique \in [Pools -> SUBSET Buffers]
  /\ content \in [Pools -> [Buffers -> Content]]

SharedTypes ==
  /\ mutex \in [Pools -> {"free", "orphaned"}]
  /\ shared \in [Pools -> [Buffers -> [Readers -> Nat]]]
  /\ kept \in [Pools -> [Buffers -> [Readers -> Nat]]]

PlayerTypes ==
  /\ rpc \in [Readers -> {"off", "open", "map", "wait", "waiting", "lock", "reading", "sleep",
                          "done", "dead"}]
  /\ running \in [Readers -> BOOLEAN] /\ sized \in [Readers -> BOOLEAN]
  /\ rpool \in [Readers -> {NoPool} \cup Pools]
  /\ seen \in [Readers -> 0 .. SeqBound - 1]
  /\ tries \in [Readers -> 0 .. Iterations - 1]
  /\ rbuf \in [Readers -> Buffers \cup {Undefined}]
  /\ got \in [Readers -> 0 .. MaxFrames]

\* The types are those of the four parts.
LEMMA TypeParts == TypeOK <=> WriterTypes /\ BufferTypes /\ SharedTypes /\ PlayerTypes
BY DEF TypeOK, WriterTypes, BufferTypes, SharedTypes, PlayerTypes

\* 0 and every remainder are buffers, the undefined index is none.
LEMMA BufferRange == 0 \in Buffers /\ Undefined \notin Buffers /\ \A i \in Nat : i % PoolSize \in Buffers
BY StreamAssumption DEF Buffers, Undefined

\* What a reader reads or keeps it has locked.
LEMMA HasLock ==
  ASSUME TypeOK, ReaderInv, LockCount, NEW r \in Readers
  PROVE  /\ rpc[r] = "reading" => shared[rpool[r]][rbuf[r]][r] > 0
         /\ \A p \in Pools, b \in Buffers : kept[p][b][r] > 0 => shared[p][b][r] > 0
<1>1. \A p \in Pools, b \in Buffers : kept[p][b][r] \in Nat /\ shared[p][b][r] \in Nat
  BY DEF TypeOK
<1>2. ASSUME rpc[r] = "reading" PROVE shared[rpool[r]][rbuf[r]][r] > 0
  <2>1. rpool[r] \in Pools /\ rbuf[r] \in Buffers
    BY <1>2 DEF ReaderInv
  <2>2. QED
    BY <1>1, <1>2, <2>1 DEF LockCount, Counted, Held
<1>3. QED
  BY <1>1, <1>2 DEF LockCount, Counted

\* Steps of the publisher keep the types of what it writes.
LEMMA WriterTypeStep ==
  ASSUME WriterTypes, BufferTypes, WriterInv, WriterAction
  PROVE  WriterTypes' /\ BufferTypes'
<1> USE StreamAssumption, BufferRange DEF WriterTypes
<1>1. CASE Start \/ CreateSession \/ InitSession
  BY <1>1 DEF Start, CreateSession, InitSession, NoPool, handler, locks, BufferTypes
<1>2. CASE SetPoolId
  <2>1. generated + 1 \in Pools
    BY <1>2 DEF SetPoolId, Pools
  <2>2. QED
    BY <1>2, <2>1 DEF SetPoolId, handler, locks, BufferTypes
<1>3. CASE CreatePool \/ TruncatePool
  <2>1. wpool \in Pools
    BY <1>3 DEF CreatePool, TruncatePool, WriterInv
  <2>2. WriterTypes'
    BY <1>3, <2>1 DEF CreatePool, TruncatePool
  <2>3. BufferTypes'
    BY <1>3 DEF CreatePool, TruncatePool, handler, locks, BufferTypes
  <2>4. QED
    BY <2>2, <2>3
<1>4. CASE Construct
  <2>1. wpool \in Pools
    BY <1>4 DEF Construct, WriterInv
  <2>2. WriterTypes'
    BY <1>4, <2>1 DEF Construct
  <2>3. BufferTypes'
    BY <1>4, <2>1 DEF Construct, locks, BufferTypes
  <2>4. QED
    BY <2>2, <2>3
<1>5. CASE QueryBufferUnique
  <2>1. wpool \in Pools /\ frames + 1 \in 0 .. MaxFrames
    BY <1>5 DEF QueryBufferUnique, WriterInv
  <2>2. PICK i \in Buffers :
          LET b == (next + i) % PoolSize IN
          /\ unique' = [unique EXCEPT ![wpool] = @ \cup {b}]
          /\ content' = [content EXCEPT ![wpool][b] = [frame |-> frames + 1, state |-> "torn"]]
          /\ wbuf' = b
          /\ next' = (b + 1) % PoolSize
    BY <1>5 DEF QueryBufferUnique
  <2> DEFINE b == (next + i) % PoolSize
  <2>3. b \in Buffers /\ (b + 1) % PoolSize \in Buffers
    BY DEF Buffers
  <2>4. [frame |-> frames + 1, state |-> "torn"] \in Content
    BY <2>1 DEF Content
  <2> HIDE DEF b
  <2>5. WriterTypes'
    BY <1>5, <2>1, <2>2, <2>3 DEF QueryBufferUnique, segments, b
  <2>6. unique' \in [Pools -> SUBSET Buffers] /\ content' \in [Pools -> [Buffers -> Content]]
    BY <2>1, <2>2, <2>3, <2>4 DEF b, BufferTypes
  <2>7. QED
    BY <1>5, <2>5, <2>6 DEF QueryBufferUnique, handler, BufferTypes
<1>6. CASE Serialized \/ SerializeFails
  <2>1. wpool \in Pools
    BY <1>6 DEF Serialized, SerializeFails, WriterInv
  <2>2. PICK st \in {"whole", "broken"} : content' = [content EXCEPT ![wpool][wbuf].state = st]
    BY <1>6 DEF Serialized, SerializeFails
  <2>3. content[wpool][wbuf] \in Content
    BY <2>1 DEF BufferTypes
  <2>4. [content[wpool][wbuf] EXCEPT !.state = st] \in Content
    BY <2>3 DEF Content
  <2>5. content' \in [Pools -> [Buffers -> Content]]
    BY <2>1, <2>2, <2>4 DEF BufferTypes
  <2>6. unique' \in [Pools -> SUBSET Buffers]
    BY <1>6, <2>1 DEF Serialized, SerializeFails, BufferTypes
  <2>7. WriterTypes' /\ UNCHANGED handler
    BY <1>6 DEF Serialized, SerializeFails, segments
  <2>8. QED
    BY <2>5, <2>6, <2>7 DEF BufferTypes, handler
<1>7. CASE PublishUnlocks
  <2>1. wpool \in Pools
    BY <1>7 DEF PublishUnlocks, WriterInv
  <2>2. QED
    BY <1>7, <2>1 DEF PublishUnlocks, segments, handler, BufferTypes
<1>8. CASE Set
  <2>1. wpool \in Pools /\ (sequence[wpool] + 1) % SeqBound \in 0 .. SeqBound - 1
    BY <1>8 DEF Set, WriterInv, BufferTypes
  <2>2. QED
    BY <1>8, <2>1 DEF Set, segments, locks, BufferTypes
<1>9. CASE SetTimesOut \/ Close \/ Die \/ DieInSet
  <2>1. WriterTypes'
    BY <1>9 DEF SetTimesOut, Close, Die, DieInSet, Exits, segments, NoPool
  <2>2. BufferTypes'
    BY <1>9 DEF SetTimesOut, Close, Die, DieInSet, handler, locks, BufferTypes
  <2>3. QED
    BY <2>1, <2>2
<1>10. QED
  BY <1>1, <1>2, <1>3, <1>4, <1>5, <1>6, <1>7, <1>8, <1>9 DEF WriterAction, WriterStep

\* Steps of a player keep the types of what it writes.
LEMMA PlayerTypeStep ==
  ASSUME TypeOK, ReaderInv, LockCount, NEW r \in Readers, PlayerAction(r)
  PROVE  SharedTypes' /\ PlayerTypes'
<1>0. WriterTypes /\ BufferTypes /\ SharedTypes /\ PlayerTypes
  BY TypeParts
<1> USE <1>0, StreamAssumption, BufferRange DEF PlayerTypes
<1>1. CASE StartPlayer(r) \/ StopPlayer(r)
  <2>1. CASE StartPlayer(r)
    BY <2>1 DEF StartPlayer, handler, locks, SharedTypes
  <2>2. CASE StopPlayer(r)
    BY <2>2 DEF StopPlayer, handler, locks, SharedTypes
  <2>3. QED
    BY <1>1, <2>1, <2>2
<1>2. ASSUME Gone(r) PROVE PlayerTypes'
  BY <1>2 DEF Gone, NoPool
<1>3. CASE Open(r)
  <2>1. PlayerTypes'
    BY <1>2, <1>3 DEF Open, WriterTypes, NoPool
  <2>2. QED
    BY <1>3, <2>1 DEF Open, handler, locks, SharedTypes
<1>4. CASE Map(r)
  <2>1. PlayerTypes'
    BY <1>2, <1>4 DEF Map, WriterTypes, NoPool
  <2>2. QED
    BY <1>4, <2>1 DEF Map, handler, locks, SharedTypes
<1>5. CASE WaitFails(r) \/ Slept(r)
  BY <1>5 DEF WaitFails, Slept, Goes, handler, locks, SharedTypes
<1>6. CASE Wait(r)
  <2>1. sequence[rpool[r]] \in 0 .. SeqBound - 1
    BY <1>6 DEF Wait, BufferTypes, NoPool
  <2>2. QED
    BY <1>6, <2>1 DEF Wait, handler, locks, SharedTypes
<1>7. CASE Changed(r)
  <2>1. index[rpool[r]] \in Buffers \cup {Undefined}
    BY <1>7 DEF Changed, BufferTypes, ReaderInv
  <2>2. QED
    BY <1>7, <2>1 DEF Changed, handler, locks, SharedTypes
<1>8. CASE TimesOut(r)
  <2>1. (tries[r] + 1) % Iterations \in 0 .. Iterations - 1
    OBVIOUS
  <2>2. QED
    BY <1>8, <2>1 DEF TimesOut, Goes, handler, locks, SharedTypes
<1>9. CASE LockShared(r)
  <2>1. rpool[r] \in Pools /\ rbuf[r] \in Buffers
    BY <1>9 DEF LockShared, CanRead, ReaderInv
  <2>2. content[rpool[r]][rbuf[r]].frame \in 0 .. MaxFrames
    BY <2>1 DEF BufferTypes, Content
  <2>3. PlayerTypes'
    BY <1>9, <2>2 DEF LockShared, Goes
  <2>4. SharedTypes'
    <3>1. CASE running[r]
      <4>1. shared' = [shared EXCEPT ![rpool[r]][rbuf[r]][r] = @ + 1] /\ UNCHANGED <<mutex, kept>>
        BY <1>9, <3>1 DEF LockShared, handler
      <4>2. shared[rpool[r]][rbuf[r]][r] + 1 \in Nat
        BY <2>1 DEF SharedTypes
      <4>3. QED
        BY <2>1, <4>1, <4>2 DEF SharedTypes
    <3>2. CASE ~running[r]
      BY <1>9, <3>2 DEF LockShared, handler, SharedTypes
    <3>3. QED
      BY <3>1, <3>2
  <2>5. QED
    BY <2>3, <2>4
<1>10. CASE LockSharedFails(r)
  BY <1>10 DEF LockSharedFails, Goes, handler, locks, SharedTypes
<1>11. CASE EndRead(r)
  <2>1. rpool[r] \in Pools /\ rbuf[r] \in Buffers
    BY <1>11 DEF EndRead, ReaderInv
  <2>2. PlayerTypes'
    BY <1>11 DEF EndRead, Goes
  <2>3. shared[rpool[r]][rbuf[r]][r] - 1 \in Nat /\ kept[rpool[r]][rbuf[r]][r] + 1 \in Nat
    BY <1>11, <2>1, HasLock DEF EndRead, SharedTypes
  <2>4. \/ shared' = [shared EXCEPT ![rpool[r]][rbuf[r]][r] = @ - 1] /\ UNCHANGED <<kept, mutex>>
        \/ kept' = [kept EXCEPT ![rpool[r]][rbuf[r]][r] = @ + 1] /\ UNCHANGED <<shared, mutex>>
    BY <1>11 DEF EndRead, handler
  <2>5. SharedTypes'
    <3>1. CASE shared' = [shared EXCEPT ![rpool[r]][rbuf[r]][r] = @ - 1] /\ UNCHANGED <<kept, mutex>>
      BY <2>1, <2>3, <3>1 DEF SharedTypes
    <3>2. CASE kept' = [kept EXCEPT ![rpool[r]][rbuf[r]][r] = @ + 1] /\ UNCHANGED <<shared, mutex>>
      BY <2>1, <2>3, <3>2 DEF SharedTypes
    <3>3. QED
      BY <2>4, <3>1, <3>2
  <2>6. QED
    BY <2>2, <2>5
<1>12. CASE DieReader(r) \/ DieInWait(r)
  <2>1. PlayerTypes'
    BY <1>2, <1>12 DEF DieReader, DieInWait
  <2>2. SharedTypes'
    BY <1>12 DEF DieReader, DieInWait, handler, locks, SharedTypes, NoPool
  <2>3. QED
    BY <2>1, <2>2
<1>13. CASE Releases(r)
  <2>1. PICK p \in Pools, b \in Buffers : ReleaseFrame(r, p, b)
    BY <1>13 DEF Releases
  <2>2. shared[p][b][r] - 1 \in Nat /\ kept[p][b][r] - 1 \in Nat
    BY <2>1, HasLock DEF ReleaseFrame, SharedTypes
  <2>3. SharedTypes'
    BY <2>1, <2>2 DEF ReleaseFrame, handler, SharedTypes
  <2>4. QED
    BY <2>1, <2>3 DEF ReleaseFrame, players
<1>14. QED
  BY <1>1, <1>3, <1>4, <1>5, <1>6, <1>7, <1>8, <1>9, <1>10, <1>11, <1>12, <1>13
  DEF PlayerAction, PlayerStep

\* The variables keep their types.
LEMMA TypeStep == StreamInv /\ [Next]_vars => TypeOK'
<1> SUFFICES ASSUME StreamInv, [Next]_vars PROVE TypeOK'
  OBVIOUS
<1>0. TypeOK /\ WriterInv /\ ReaderInv /\ LockCount /\ WriterTypes /\ BufferTypes /\ SharedTypes /\ PlayerTypes
  BY TypeParts DEF StreamInv
<1>1. CASE WriterAction
  <2>1. WriterTypes' /\ BufferTypes'
    BY <1>0, <1>1, WriterTypeStep
  <2>2. PlayerTypes'
    BY <1>0, <1>1, WriterFrame DEF PlayerTypes, players
  <2>3. mutex' \in [Pools -> {"free", "orphaned"}]
    BY <1>0, <1>1 DEF SharedTypes, WriterInv, WriterAction, WriterStep, Start, CreateSession, InitSession, SetPoolId,
       CreatePool, TruncatePool, Construct, QueryBufferUnique, Serialized, SerializeFails,
       PublishUnlocks, Set, SetTimesOut, Close, Die, DieInSet, handler
  <2>4. SharedTypes'
    BY <1>0, <1>1, <2>3, WriterFrame DEF SharedTypes
  <2>5. QED
    BY <2>1, <2>2, <2>4 DEF TypeOK, WriterTypes, BufferTypes, SharedTypes, PlayerTypes
<1>2. ASSUME NEW r \in Readers, PlayerAction(r) PROVE TypeOK'
  <2>1. SharedTypes' /\ PlayerTypes'
    BY <1>0, <1>2, PlayerTypeStep
  <2>2. WriterTypes' /\ BufferTypes'
    BY <1>0, <1>2, PlayerFrame DEF WriterTypes, BufferTypes, segments, writer
  <2>3. QED
    BY <2>1, <2>2 DEF TypeOK, WriterTypes, BufferTypes, SharedTypes, PlayerTypes
<1>3. CASE UNCHANGED vars
  BY <1>0, <1>3 DEF TypeOK, vars, segments, handler, locks, writer, players
<1>4. QED
  BY <1>1, <1>2, <1>3, Actor
-----------------------------------------------------------------------------
(* Locks and contents: the publisher.                                      *)

\* What the properties of buffers are about, besides the locks of the publisher.
shape == <<stage, index, unique, content>>

LockInv == Exclusive /\ TornLocked /\ IndexUsed /\ ReaderInv /\ LockCount /\ StableWhileRead

\* Counts change with the locks, the frames that are kept and the players only.
LEMMA CountFrame ==
  ASSUME LockCount, UNCHANGED <<shared, kept, players>>
  PROVE  LockCount'
BY DEF LockCount, Counted, Held, players

\* Steps that leave buffers and readers alone.
LEMMA LockFrame ==
  ASSUME LockInv, UNCHANGED <<shape, shared, kept, players>>
  PROVE  LockInv'
<1>1. LockCount'
  BY CountFrame DEF LockInv
<1>2. QED
  BY <1>1 DEF LockInv, Exclusive, TornLocked, IndexUsed, ReaderInv, StableWhileRead, shape, players

\* Making the session and ending touch no buffer; a new id is that of an unused pool.
LEMMA SetupKeeps ==
  ASSUME TypeOK, WriterInv, LockInv,
         Start \/ CreateSession \/ InitSession \/ SetPoolId \/ SetTimesOut \/ Close \/ Die \/ DieInSet
  PROVE  WriterInv' /\ LockInv'
<1>1. UNCHANGED <<shape, shared, kept, players>>
  BY DEF Start, CreateSession, InitSession, SetPoolId, SetTimesOut, Close, Die, DieInSet, Exits, shape,
     segments, handler, locks
<1>2. LockInv'
  BY <1>1, LockFrame
<1>3. CASE SetPoolId
  <2>1. /\ generated \in Nat /\ generated + 1 \in Pools /\ UNCHANGED stage
        /\ wpc' = "create" /\ wpool' = generated + 1 /\ generated' = generated + 1
    BY <1>1, <1>3, StreamAssumption DEF SetPoolId, TypeOK, Pools, shape
  <2>2. \A p \in Pools : p > generated => stage[p] = "absent"
    BY DEF WriterInv
  <2>3. stage'[wpool'] = "absent" /\ \A p \in Pools : p > generated' => stage'[p] = "absent"
    BY <2>1, <2>2 DEF Pools
  <2>4. WriterInv'
    BY <2>1, <2>3 DEF WriterInv
  <2>5. QED
    BY <1>2, <2>4
<1>4. CASE Start \/ CreateSession \/ InitSession \/ SetTimesOut \/ Close \/ Die \/ DieInSet
  <2>1. /\ wpc' \in {"session", "initialise", "announce", "down"}
        /\ UNCHANGED <<stage, generated>>
    BY <1>1, <1>4 DEF Start, CreateSession, InitSession, SetTimesOut, Close, Die, DieInSet, Exits, shape
  <2>2. WriterInv'
    BY <2>1 DEF WriterInv
  <2>3. QED
    BY <1>2, <2>2
<1>5. QED
  BY <1>2, <1>3, <1>4

\* A pool that is being made is not used by anybody.
LEMMA PoolKeeps ==
  ASSUME TypeOK, WriterInv, LockInv, CreatePool \/ TruncatePool \/ Construct
  PROVE  WriterInv' /\ LockInv'
<1>1. /\ wpool \in Pools /\ stage[wpool] # "ready" /\ wpool <= generated
      /\ UNCHANGED <<unique, content, shared, kept, players, wpool, generated>>
  BY DEF CreatePool, TruncatePool, Construct, WriterInv, locks
<1>2. PICK new \in {"empty", "zeroed", "ready"} : stage' = [stage EXCEPT ![wpool] = new]
  BY DEF CreatePool, TruncatePool, Construct
<1>3. \A p \in Pools : p # wpool => stage'[p] = stage[p] /\ index'[p] = index[p]
  BY <1>1, <1>2 DEF TypeOK, CreatePool, TruncatePool, Construct, handler
<1>4. stage'[wpool] # "ready" \/ index'[wpool] = Undefined
  BY <1>1 DEF TypeOK, CreatePool, TruncatePool, Construct
<1>5. WriterInv'
  <2>1. \A p \in Pools : p > generated => p # wpool
    BY <1>1 DEF TypeOK, Pools
  <2>2. \A p \in Pools : p > generated' => stage'[p] = "absent"
    BY <1>1, <1>3, <2>1 DEF WriterInv
  <2>3. wpc' \in {"truncate", "construct", "idle"} /\ (wpc' # "idle" => stage'[wpool] # "ready")
    BY <1>1 DEF TypeOK, CreatePool, TruncatePool, Construct
  <2>4. QED
    BY <1>1, <2>2, <2>3 DEF WriterInv
<1>6. IndexUsed'
  BY <1>1, <1>3, <1>4 DEF LockInv, IndexUsed
<1>7. Exclusive' /\ TornLocked' /\ StableWhileRead' /\ LockCount'
  BY <1>1, CountFrame DEF LockInv, Exclusive, TornLocked, StableWhileRead, players
<1>8. ReaderInv'
  BY <1>1, <1>3 DEF LockInv, ReaderInv, players
<1>9. QED
  BY <1>5, <1>6, <1>7, <1>8 DEF LockInv

\* What the publisher locks nobody reads, and only that is overwritten.
LEMMA QueryKeeps ==
  ASSUME TypeOK, WriterInv, LockInv, QueryBufferUnique
  PROVE  WriterInv' /\ LockInv'
<1>1. wpool \in Pools /\ wpool <= generated /\ wpc' = "writing"
      /\ UNCHANGED <<segments, handler, shared, kept, wpool, generated, players>>
  BY DEF QueryBufferUnique, WriterInv
<1>2. PICK b \in Buffers :
        /\ Lockable(b)
        /\ unique' = [unique EXCEPT ![wpool] = @ \cup {b}]
        /\ content' = [content EXCEPT ![wpool][b] = [frame |-> frames + 1, state |-> "torn"]]
        /\ wbuf' = b
  <2>1. \A i \in Buffers : (next + i) % PoolSize \in Buffers
    BY StreamAssumption DEF TypeOK, Buffers
  <2>2. QED
    BY <2>1 DEF QueryBufferUnique
<1>3. /\ content'[wpool][b].state = "torn" /\ unique'[wpool] = unique[wpool] \cup {b}
      /\ \A p \in Pools, c \in Buffers : p # wpool \/ c # b => content'[p][c] = content[p][c]
      /\ \A p \in Pools : p # wpool => unique'[p] = unique[p]
  BY <1>1, <1>2 DEF TypeOK
<1>4. b \notin unique[wpool] /\ \A r \in Readers : shared[wpool][b][r] = 0
  BY <1>2 DEF Lockable
<1>5. WriterInv'
  BY <1>1, <1>2, <1>3 DEF WriterInv, segments
<1>6. Exclusive'
  BY <1>1, <1>3, <1>4 DEF LockInv, Exclusive
<1>7. TornLocked'
  BY <1>1, <1>3 DEF LockInv, TornLocked
<1>8. \A r \in Readers : /\ rpc[r] = "reading" => rpool[r] # wpool \/ rbuf[r] # b
                         /\ ~(kept[wpool][b][r] > 0)
  BY <1>1, <1>4, HasLock DEF LockInv
<1>9. StableWhileRead' /\ LockCount'
  BY <1>1, <1>3, <1>8, CountFrame DEF LockInv, StableWhileRead, ReaderInv, players
<1>10. \A p \in Pools, c \in Buffers : content[p][c].state # "unused" => content'[p][c].state # "unused"
  BY <1>3
<1>11. ReaderInv'
  BY <1>1, <1>10 DEF LockInv, ReaderInv, players, segments
<1>12. IndexUsed'
  BY <1>1, <1>10 DEF LockInv, IndexUsed, segments, handler, TypeOK
<1>13. QED
  BY <1>5, <1>6, <1>7, <1>9, <1>11, <1>12 DEF LockInv

\* Only the locked buffer changes, and it is unlocked when it is no longer torn.
LEMMA SerializeKeeps ==
  ASSUME TypeOK, WriterInv, LockInv, Serialized \/ SerializeFails
  PROVE  WriterInv' /\ LockInv'
<1>1. /\ wpool \in Pools /\ wpool <= generated /\ wbuf \in Buffers /\ wbuf \in unique[wpool]
      /\ UNCHANGED <<segments, handler, shared, kept, wpool, generated, players>>
  BY DEF Serialized, SerializeFails, WriterInv, TypeOK
<1>2. PICK st \in {"whole", "broken"} : content' = [content EXCEPT ![wpool][wbuf].state = st]
  BY DEF Serialized, SerializeFails
<1>3. content[wpool][wbuf] \in Content
  BY <1>1 DEF TypeOK
<1>4. /\ content'[wpool][wbuf].state = st
      /\ \A p \in Pools, c \in Buffers : p # wpool \/ c # wbuf => content'[p][c] = content[p][c]
  BY <1>1, <1>2, <1>3 DEF TypeOK, Content
<1>5. \A p \in Pools, c \in Buffers : p # wpool \/ c # wbuf => (c \in unique'[p] <=> c \in unique[p])
  BY <1>1 DEF Serialized, SerializeFails, TypeOK
<1>6. \A p \in Pools : unique'[p] \subseteq unique[p]
  <2>1. UNCHANGED unique \/ unique' = [unique EXCEPT ![wpool] = @ \ {wbuf}]
    BY DEF Serialized, SerializeFails
  <2>2. QED
    BY <1>1, <2>1 DEF TypeOK
<1>7. WriterInv'
  <2>1. CASE Serialized
    BY <1>1, <1>2, <1>4, <2>1, <1>3 DEF Serialized, WriterInv, segments, Content, TypeOK
  <2>2. CASE SerializeFails
    BY <1>1, <2>2 DEF SerializeFails, WriterInv, segments
  <2>3. QED
    BY <2>1, <2>2
<1>8. Exclusive'
  BY <1>1, <1>6 DEF LockInv, Exclusive
<1>9. TornLocked'
  BY <1>2, <1>4, <1>5 DEF LockInv, TornLocked
<1>10. \A r \in Readers : /\ rpc[r] = "reading" => rpool[r] # wpool \/ rbuf[r] # wbuf
                          /\ ~(kept[wpool][wbuf][r] > 0)
  BY <1>1, HasLock DEF LockInv, Exclusive
<1>11. StableWhileRead' /\ LockCount'
  BY <1>1, <1>4, <1>10, CountFrame DEF LockInv, StableWhileRead, ReaderInv, players
<1>12. \A p \in Pools, c \in Buffers : content[p][c].state # "unused" => content'[p][c].state # "unused"
  BY <1>2, <1>4
<1>13. ReaderInv'
  BY <1>1, <1>12 DEF LockInv, ReaderInv, players, segments
<1>14. IndexUsed'
  BY <1>1, <1>12 DEF LockInv, IndexUsed, segments, handler, TypeOK
<1>15. QED
  BY <1>7, <1>8, <1>9, <1>11, <1>13, <1>14 DEF LockInv

\* The buffer is unlocked when it is whole, and announced when it is unlocked.
LEMMA PublishKeeps ==
  ASSUME TypeOK, WriterInv, LockInv, PublishUnlocks \/ Set
  PROVE  WriterInv' /\ LockInv'
<1>1. /\ wpool \in Pools /\ wpool <= generated /\ wbuf \in Buffers
      /\ content[wpool][wbuf].state # "unused"
      /\ UNCHANGED <<segments, shared, content, kept, wpool, generated, players>>
  BY DEF PublishUnlocks, Set, WriterInv, TypeOK, locks
<1>2. CASE PublishUnlocks
  <2>1. content[wpool][wbuf].state = "whole" /\ UNCHANGED <<index, wbuf>>
    BY <1>2 DEF PublishUnlocks, WriterInv, handler
  <2>2. \A p \in Pools, c \in Buffers : p # wpool \/ c # wbuf => (c \in unique'[p] <=> c \in unique[p])
    BY <1>1, <1>2 DEF PublishUnlocks, TypeOK
  <2>3. \A p \in Pools : unique'[p] \subseteq unique[p]
    BY <1>1, <1>2 DEF PublishUnlocks, TypeOK
  <2>4. WriterInv'
    BY <1>1, <1>2, <2>1 DEF PublishUnlocks, WriterInv, segments
  <2>5. Exclusive' /\ TornLocked'
    BY <1>1, <2>1, <2>2, <2>3 DEF LockInv, Exclusive, TornLocked
  <2>6. IndexUsed' /\ ReaderInv' /\ StableWhileRead' /\ LockCount'
    BY <1>1, <2>1, CountFrame DEF LockInv, IndexUsed, ReaderInv, StableWhileRead, players, segments
  <2>7. QED
    BY <2>4, <2>5, <2>6 DEF LockInv
<1>3. CASE Set
  <2>1. UNCHANGED unique /\ wpc' = "idle" /\ index' = [index EXCEPT ![wpool] = wbuf]
    BY <1>3 DEF Set, locks
  <2>2. WriterInv'
    BY <1>1, <2>1 DEF WriterInv, segments
  <2>3. IndexUsed'
    BY <1>1, <2>1 DEF LockInv, IndexUsed, segments, TypeOK
  <2>4. Exclusive' /\ TornLocked' /\ ReaderInv' /\ StableWhileRead' /\ LockCount'
    BY <1>1, <2>1, CountFrame DEF LockInv, Exclusive, TornLocked, ReaderInv, StableWhileRead, players, segments
  <2>5. QED
    BY <2>2, <2>3, <2>4 DEF LockInv
<1>4. QED
  BY <1>2, <1>3
-----------------------------------------------------------------------------
(* Locks and contents: the players.                                        *)

\* What the invariant says of one reader.
OneReader(r) ==
  /\ rpc[r] \in {"map", "waiting", "lock", "reading"} => rpool[r] \in Pools
  /\ sized[r] => rpool[r] \in Pools /\ stage[rpool[r]] = "ready"
  /\ rpc[r] = "lock" /\ sized[r] /\ rbuf[r] \in Buffers =>
       content[rpool[r]][rbuf[r]].state # "unused"
  /\ rpc[r] = "reading" => rbuf[r] \in Buffers
  /\ rpc[r] = "reading" =>
       /\ content[rpool[r]][rbuf[r]].frame = got[r]
       /\ content[rpool[r]][rbuf[r]].state \in {"whole", "broken"}

\* Frames that a reader keeps are not written.
KeptStable(r) ==
  \A p \in Pools, b \in Buffers : kept[p][b][r] > 0 => content[p][b].state \in {"whole", "broken"}

\* The invariant of the readers is that of each of them.
LEMMA EachReader ==
  ReaderInv /\ StableWhileRead <=> \A r \in Readers : OneReader(r) /\ KeptStable(r)
BY DEF ReaderInv, StableWhileRead, OneReader, KeptStable

\* A step of one player leaves the variables of the others alone.
LEMMA OthersSame ==
  ASSUME TypeOK, NEW r \in Readers, PlayerAction(r), NEW q \in Readers, q # r
  PROVE  /\ rpc'[q] = rpc[q] /\ rpool'[q] = rpool[q] /\ sized'[q] = sized[q]
         /\ rbuf'[q] = rbuf[q] /\ got'[q] = got[q] /\ seen'[q] = seen[q]
<1> USE DEF TypeOK
<1>1. CASE Open(r) \/ Map(r) \/ DieReader(r) \/ DieInWait(r)
  BY <1>1 DEF Open, Map, DieReader, DieInWait, Gone
<1>2. CASE WaitFails(r) \/ Wait(r) \/ Changed(r) \/ TimesOut(r) \/ Slept(r)
  BY <1>2 DEF WaitFails, Wait, Changed, TimesOut, Slept, Goes
<1>3. CASE LockShared(r) \/ LockSharedFails(r) \/ EndRead(r)
  BY <1>3 DEF LockShared, LockSharedFails, EndRead, Goes
<1>4. CASE StartPlayer(r) \/ StopPlayer(r) \/ Releases(r)
  BY <1>4 DEF StartPlayer, StopPlayer, Releases, ReleaseFrame, players
<1>5. QED
  BY <1>1, <1>2, <1>3, <1>4 DEF PlayerAction, PlayerStep

\* Only these steps lock or unlock.
LEMMA LocksSame ==
  ASSUME NEW r \in Readers, PlayerAction(r), ~LockShared(r), ~EndRead(r), ~Releases(r)
  PROVE  UNCHANGED <<shared, kept>>
BY DEF PlayerAction, PlayerStep, Open, Map, WaitFails, Wait, Changed, TimesOut, LockSharedFails,
   Slept, StartPlayer, StopPlayer, DieReader, DieInWait, locks

\* A player locks and unlocks for itself, and locks nothing that the publisher has.
LEMMA SharedStep ==
  ASSUME TypeOK, ReaderInv, LockCount, NEW r \in Readers, PlayerAction(r),
         NEW p \in Pools, NEW b \in Buffers
  PROVE  /\ \A q \in Readers : q # r =>
              shared'[p][b][q] = shared[p][b][q] /\ kept'[p][b][q] = kept[p][b][q]
         /\ b \in unique[p] => shared'[p][b][r] <= shared[p][b][r]
<1>0. shared[p][b][r] \in Nat
  BY DEF TypeOK
<1>1. CASE LockShared(r)
  <2>1. /\ rpool[r] \in Pools /\ rbuf[r] \in Buffers /\ rbuf[r] \notin unique[rpool[r]]
        /\ UNCHANGED kept
    BY <1>1 DEF LockShared, CanRead, ReaderInv
  <2>2. CASE UNCHANGED shared
    BY <1>0, <2>1, <2>2
  <2>3. CASE shared' = [shared EXCEPT ![rpool[r]][rbuf[r]][r] = @ + 1]
    BY <1>0, <2>1, <2>3 DEF TypeOK
  <2>4. QED
    BY <1>1, <2>2, <2>3 DEF LockShared
<1>2. CASE EndRead(r)
  <2>1. rpool[r] \in Pools /\ rbuf[r] \in Buffers
    BY <1>2 DEF EndRead, ReaderInv
  <2>2. CASE shared' = [shared EXCEPT ![rpool[r]][rbuf[r]][r] = @ - 1] /\ UNCHANGED kept
    BY <1>0, <2>1, <2>2 DEF TypeOK
  <2>3. CASE kept' = [kept EXCEPT ![rpool[r]][rbuf[r]][r] = @ + 1] /\ UNCHANGED shared
    BY <1>0, <2>1, <2>3 DEF TypeOK
  <2>4. QED
    BY <1>2, <2>2, <2>3 DEF EndRead
<1>3. CASE Releases(r)
  <2>1. PICK c \in Pools, d \in Buffers : ReleaseFrame(r, c, d)
    BY <1>3 DEF Releases
  <2>2. QED
    BY <1>0, <2>1 DEF ReleaseFrame, TypeOK
<1>4. CASE ~LockShared(r) /\ ~EndRead(r) /\ ~Releases(r)
  BY <1>0, <1>4, LocksSame
<1>5. QED
  BY <1>1, <1>2, <1>3, <1>4

\* The counts of the player that takes the step.
LEMMA OwnCount ==
  ASSUME TypeOK, ReaderInv, LockCount, NEW r \in Readers, PlayerAction(r)
  PROVE  Counted(r)'
<1>0. /\ Counted(r)
      /\ \A p \in Pools, b \in Buffers : kept[p][b][r] \in Nat /\ shared[p][b][r] \in Nat
  BY DEF LockCount, Counted, TypeOK
<1>1. CASE LockShared(r)
  <2>1. /\ rpc[r] = "lock" /\ rpool[r] \in Pools /\ rbuf[r] \in Buffers /\ UNCHANGED <<kept, rpool>>
    BY <1>1 DEF LockShared, CanRead, ReaderInv
  <2>2. CASE running[r]
    <3>1. /\ rpc'[r] = "reading" /\ UNCHANGED rbuf
          /\ shared' = [shared EXCEPT ![rpool[r]][rbuf[r]][r] = @ + 1]
      BY <1>1, <2>2 DEF LockShared, Goes, TypeOK
    <3>2. \A p \in Pools, b \in Buffers :
            shared'[p][b][r] = IF p = rpool[r] /\ b = rbuf[r] THEN shared[p][b][r] + 1 ELSE shared[p][b][r]
      BY <2>1, <3>1 DEF TypeOK
    <3>3. QED
      BY <1>0, <2>1, <3>1, <3>2 DEF Counted, Held
  <2>3. CASE ~running[r]
    <3>1. rpc'[r] = "done" /\ UNCHANGED shared
      BY <1>1, <2>3 DEF LockShared, Goes, TypeOK
    <3>2. QED
      BY <1>0, <2>1, <3>1 DEF Counted, Held
  <2>4. QED
    BY <2>2, <2>3
<1>2. CASE EndRead(r)
  <2>1. /\ rpc[r] = "reading" /\ rpool[r] \in Pools /\ rbuf[r] \in Buffers
        /\ rpc'[r] \in {"wait", "done"}
    BY <1>2 DEF EndRead, ReaderInv, Goes, TypeOK
  <2>2. CASE shared' = [shared EXCEPT ![rpool[r]][rbuf[r]][r] = @ - 1] /\ UNCHANGED kept
    <3>1. \A p \in Pools, b \in Buffers :
            shared'[p][b][r] = IF p = rpool[r] /\ b = rbuf[r] THEN shared[p][b][r] - 1 ELSE shared[p][b][r]
      BY <2>1, <2>2 DEF TypeOK
    <3>2. QED
      BY <1>0, <2>1, <2>2, <3>1 DEF Counted, Held
  <2>3. CASE kept' = [kept EXCEPT ![rpool[r]][rbuf[r]][r] = @ + 1] /\ UNCHANGED shared
    <3>1. \A p \in Pools, b \in Buffers :
            kept'[p][b][r] = IF p = rpool[r] /\ b = rbuf[r] THEN kept[p][b][r] + 1 ELSE kept[p][b][r]
      BY <2>1, <2>3 DEF TypeOK
    <3>2. QED
      BY <1>0, <2>1, <2>3, <3>1 DEF Counted, Held
  <2>4. QED
    BY <1>2, <2>2, <2>3 DEF EndRead
<1>3. CASE Releases(r)
  <2>1. PICK c \in Pools, d \in Buffers : ReleaseFrame(r, c, d)
    BY <1>3 DEF Releases
  <2>2. UNCHANGED <<rpc, rpool, rbuf>> /\ rpc[r] # "dead"
    BY <2>1 DEF ReleaseFrame, players
  <2>3. \A p \in Pools, b \in Buffers :
          /\ shared'[p][b][r] = IF p = c /\ b = d THEN shared[p][b][r] - 1 ELSE shared[p][b][r]
          /\ kept'[p][b][r] = IF p = c /\ b = d THEN kept[p][b][r] - 1 ELSE kept[p][b][r]
    BY <2>1 DEF ReleaseFrame, TypeOK
  <2>4. QED
    BY <1>0, <2>2, <2>3 DEF Counted, Held
<1>4. CASE ~LockShared(r) /\ ~EndRead(r) /\ ~Releases(r)
  <2>1. UNCHANGED <<shared, kept>>
    BY <1>4, LocksSame
  <2>2. CASE rpc[r] = "reading"
    <3>1. DieReader(r) \/ StopPlayer(r)
      BY <1>4, <2>2 DEF PlayerAction, PlayerStep, Open, Map, WaitFails, Wait, Changed, TimesOut,
         LockSharedFails, Slept, StartPlayer, DieInWait
    <3>2. CASE DieReader(r)
      <4>1. rpc'[r] = "dead"
        BY <3>2 DEF DieReader, Gone, TypeOK
      <4>2. QED
        BY <1>0, <2>1, <4>1 DEF Counted
    <3>3. CASE StopPlayer(r)
      <4>1. UNCHANGED <<rpc, rpool, rbuf>>
        BY <3>3 DEF StopPlayer
      <4>2. QED
        BY <1>0, <2>1, <4>1 DEF Counted, Held
    <3>4. QED
      BY <3>1, <3>2, <3>3
  <2>3. CASE rpc[r] # "reading"
    <3>1. rpc'[r] # "reading" /\ (rpc[r] = "dead" => rpc'[r] = "dead")
      BY <1>4, <2>3 DEF PlayerAction, PlayerStep, Open, Map, WaitFails, Wait, Changed, TimesOut,
         LockSharedFails, Slept, StartPlayer, StopPlayer, DieReader, DieInWait, Gone, Goes, TypeOK
    <3>2. QED
      BY <1>0, <2>1, <2>3, <3>1 DEF Counted, Held
  <2>4. QED
    BY <2>2, <2>3
<1>5. QED
  BY <1>1, <1>2, <1>3, <1>4

\* The player that takes the step: it maps only what is ready, it is told only of
\* buffers that were filled, and what it locks nobody is filling.
LEMMA OwnStep ==
  ASSUME TypeOK, TypeOK', LockInv, NEW r \in Readers, PlayerAction(r)
  PROVE  OneReader(r)'
<1>0. OneReader(r) /\ UNCHANGED <<stage, index, unique, content>>
  BY EachReader, PlayerFrame DEF LockInv, segments
<1>1. ASSUME Gone(r) PROVE OneReader(r)'
  BY <1>1 DEF Gone, OneReader, TypeOK
<1>2. CASE Open(r)
  <2>1. CASE session = "empty"
    BY <1>1, <1>2, <2>1 DEF Open
  <2>2. CASE session # "empty"
    BY <1>2, <2>2 DEF Open, OneReader, TypeOK, NoPool
  <2>3. QED
    BY <2>1, <2>2
<1>3. CASE Map(r)
  <2>1. CASE rpool[r] \in linked /\ stage[rpool[r]] = "empty"
    BY <1>1, <1>3, <2>1 DEF Map
  <2>2. CASE ~(rpool[r] \in linked /\ stage[rpool[r]] = "empty")
    <3>1. /\ rpc'[r] = "wait" /\ rpool'[r] = IF rpool[r] \in linked THEN rpool[r] ELSE NoPool
          /\ sized'[r] = (rpool[r] \in linked /\ stage[rpool[r]] = "ready")
      BY <1>3, <2>2 DEF Map, TypeOK
    <3>2. QED
      BY <1>0, <3>1 DEF OneReader, TypeOK
  <2>3. QED
    BY <2>1, <2>2
<1>4. CASE WaitFails(r) \/ Slept(r) \/ TimesOut(r)
  <2>1. rpc'[r] \in {"sleep", "open", "wait", "done"} /\ UNCHANGED <<rpool, sized>>
    BY <1>4 DEF WaitFails, Slept, TimesOut, Goes, TypeOK
  <2>2. QED
    BY <1>0, <2>1 DEF OneReader
<1>5. CASE Wait(r)
  <2>1. rpc'[r] = "waiting" /\ rpool[r] \in Pools /\ UNCHANGED <<rpool, sized>>
    BY <1>5 DEF Wait, TypeOK, NoPool
  <2>2. QED
    BY <1>0, <2>1 DEF OneReader
<1>6. CASE Changed(r)
  <2>1. /\ rpc[r] = "waiting" /\ rpc'[r] = "lock" /\ rbuf'[r] = index[rpool[r]]
        /\ UNCHANGED <<rpool, sized>>
    BY <1>6 DEF Changed, TypeOK
  <2>2. sized[r] /\ rbuf'[r] \in Buffers => content[rpool[r]][rbuf'[r]].state # "unused"
    BY <1>0, <2>1, BufferRange DEF OneReader, LockInv, IndexUsed
  <2>3. QED
    BY <1>0, <2>1, <2>2 DEF OneReader
<1>7. CASE LockShared(r)
  <2>1. /\ rpool[r] \in Pools /\ rbuf[r] \in Buffers /\ rbuf[r] \notin unique[rpool[r]]
        /\ content[rpool[r]][rbuf[r]].state # "unused" /\ UNCHANGED <<rpool, sized>>
    BY <1>0, <1>7 DEF LockShared, CanRead, OneReader
  <2>2. CASE running[r]
    <3>1. rpc'[r] = "reading" /\ got'[r] = content[rpool[r]][rbuf[r]].frame /\ UNCHANGED rbuf
      BY <1>7, <2>2 DEF LockShared, Goes, TypeOK
    <3>3. content[rpool[r]][rbuf[r]].state \in {"whole", "broken"}
      <4>1. content[rpool[r]][rbuf[r]].state # "torn"
        BY <2>1 DEF LockInv, TornLocked
      <4>2. content[rpool[r]][rbuf[r]].state \in {"unused", "torn", "whole", "broken"}
        BY <2>1 DEF TypeOK, Content
      <4>3. QED
        BY <2>1, <4>1, <4>2
    <3>4. QED
      BY <1>0, <2>1, <3>1, <3>3 DEF OneReader
  <2>3. CASE ~running[r]
    <3>1. rpc'[r] = "done"
      BY <1>7, <2>3 DEF LockShared, Goes, TypeOK
    <3>2. QED
      BY <1>0, <2>1, <3>1 DEF OneReader
  <2>4. QED
    BY <2>2, <2>3
<1>8. CASE LockSharedFails(r) \/ EndRead(r)
  <2>1. rpc'[r] \in {"sleep", "wait", "done"} /\ UNCHANGED <<rpool, sized>>
    BY <1>8 DEF LockSharedFails, EndRead, Goes, TypeOK
  <2>2. QED
    BY <1>0, <2>1 DEF OneReader
<1>9. CASE StartPlayer(r)
  <2>1. rpc'[r] \in {"open", "wait"} /\ UNCHANGED <<rpool, sized>>
    BY <1>9 DEF StartPlayer, TypeOK
  <2>2. QED
    BY <1>0, <2>1 DEF OneReader
<1>10. CASE StopPlayer(r)
  BY <1>0, <1>10 DEF StopPlayer, OneReader, locks
<1>11. CASE DieReader(r) \/ DieInWait(r)
  BY <1>1, <1>11 DEF DieReader, DieInWait
<1>12. CASE Releases(r)
  BY <1>0, <1>12 DEF Releases, ReleaseFrame, OneReader, players
<1>13. QED
  BY <1>2, <1>3, <1>4, <1>5, <1>6, <1>7, <1>8, <1>9, <1>10, <1>11, <1>12 DEF PlayerAction, PlayerStep

\* What it keeps is what OnBuffer had, or what it kept before.
LEMMA OwnKept ==
  ASSUME TypeOK, TypeOK', LockInv, NEW r \in Readers, PlayerAction(r)
  PROVE  KeptStable(r)'
<1>0. OneReader(r) /\ KeptStable(r) /\ UNCHANGED content
  BY EachReader, PlayerFrame DEF LockInv
<1>1. ASSUME NEW p \in Pools, NEW b \in Buffers, kept'[p][b][r] > 0
       PROVE  content[p][b].state \in {"whole", "broken"}
  <2>0. kept[p][b][r] \in Nat
    BY DEF TypeOK
  <2>1. CASE EndRead(r)
    <3>1. rpool[r] \in Pools /\ rbuf[r] \in Buffers /\ rpc[r] = "reading"
      BY <1>0, <2>1 DEF EndRead, OneReader
    <3>2. kept' = [kept EXCEPT ![rpool[r]][rbuf[r]][r] = @ + 1] \/ UNCHANGED kept
      BY <2>1 DEF EndRead
    <3>3. (p = rpool[r] /\ b = rbuf[r]) \/ kept'[p][b][r] = kept[p][b][r]
      BY <3>1, <3>2 DEF TypeOK
    <3>4. QED
      BY <1>0, <1>1, <3>1, <3>3 DEF OneReader, KeptStable
  <2>2. CASE Releases(r)
    <3>1. PICK c \in Pools, d \in Buffers : ReleaseFrame(r, c, d)
      BY <2>2 DEF Releases
    <3>2. kept'[p][b][r] <= kept[p][b][r]
      BY <2>0, <3>1 DEF ReleaseFrame, TypeOK
    <3>3. kept[p][b][r] > 0
      BY <1>1, <2>0, <3>2 DEF TypeOK
    <3>4. QED
      BY <1>0, <3>3 DEF KeptStable
  <2>3. CASE ~EndRead(r) /\ ~Releases(r)
    <3>1. UNCHANGED kept
      BY <2>3, LocksSame DEF LockShared
    <3>2. QED
      BY <1>0, <1>1, <3>1 DEF KeptStable
  <2>4. QED
    BY <2>1, <2>2, <2>3
<1>2. QED
  BY <1>0, <1>1 DEF KeptStable

\* A step of a player keeps the whole invariant.
LEMMA PlayerKeeps ==
  ASSUME TypeOK, TypeOK', WriterInv, LockInv, NEW r \in Readers, PlayerAction(r)
  PROVE  WriterInv' /\ LockInv'
<1>1. UNCHANGED <<stage, index, unique, content, wpc, wpool, wbuf, generated>>
  BY PlayerFrame DEF segments, writer
<1>2. WriterInv' /\ TornLocked' /\ IndexUsed'
  BY <1>1 DEF WriterInv, LockInv, TornLocked, IndexUsed
<1>3. Exclusive'
  <2> SUFFICES ASSUME NEW p \in Pools, NEW b \in unique[p], NEW q \in Readers
               PROVE  shared'[p][b][q] = 0
    BY <1>1 DEF Exclusive
  <2>1. b \in Buffers /\ shared[p][b][q] = 0
    BY DEF TypeOK, LockInv, Exclusive
  <2>2. shared'[p][b][q] \in Nat
    BY <2>1 DEF TypeOK
  <2>3. shared'[p][b][q] <= shared[p][b][q]
    BY <2>1, SharedStep DEF LockInv
  <2>4. QED
    BY <2>1, <2>2, <2>3
<1>4. ASSUME NEW q \in Readers PROVE OneReader(q)' /\ KeptStable(q)' /\ Counted(q)'
  <2>1. CASE q = r
    BY <2>1, OwnStep, OwnKept, OwnCount DEF LockInv
  <2>2. CASE q # r
    <3>1. OneReader(q) /\ KeptStable(q) /\ Counted(q)
      BY EachReader DEF LockInv, LockCount
    <3>2. /\ rpc'[q] = rpc[q] /\ rpool'[q] = rpool[q] /\ sized'[q] = sized[q]
          /\ rbuf'[q] = rbuf[q] /\ got'[q] = got[q]
      BY <2>2, OthersSame
    <3>3. \A p \in Pools, b \in Buffers :
            shared'[p][b][q] = shared[p][b][q] /\ kept'[p][b][q] = kept[p][b][q]
      BY <2>2, SharedStep DEF LockInv
    <3>4. OneReader(q)' /\ KeptStable(q)'
      BY <1>1, <3>1, <3>2, <3>3 DEF OneReader, KeptStable
    <3>5. Counted(q)'
      BY <3>1, <3>2, <3>3 DEF Counted, Held
    <3>6. QED
      BY <3>4, <3>5
  <2>3. QED
    BY <2>1, <2>2
<1>5. ReaderInv' /\ StableWhileRead' /\ LockCount'
  BY <1>4 DEF OneReader, KeptStable, ReaderInv, StableWhileRead, LockCount
<1>6. QED
  BY <1>2, <1>3, <1>5 DEF LockInv
-----------------------------------------------------------------------------
\* Every step keeps the invariant.
LEMMA StreamStep == StreamInv /\ [Next]_vars => StreamInv'
<1> SUFFICES ASSUME StreamInv, [Next]_vars PROVE StreamInv'
  OBVIOUS
<1>1. TypeOK /\ WriterInv /\ LockInv /\ TypeOK'
  BY TypeStep DEF StreamInv, LockInv
<1>2. CASE WriterAction
  BY <1>1, <1>2, SetupKeeps, PoolKeeps, QueryKeeps, SerializeKeeps, PublishKeeps
  DEF WriterAction, WriterStep, StreamInv, LockInv
<1>3. ASSUME NEW r \in Readers, PlayerAction(r) PROVE StreamInv'
  BY <1>1, <1>3, PlayerKeeps DEF StreamInv, LockInv
<1>4. CASE UNCHANGED vars
  <2>1. LockInv'
    BY <1>1, <1>4, LockFrame DEF vars, shape, segments, handler, locks
  <2>2. WriterInv'
    BY <1>1, <1>4 DEF WriterInv, vars, segments, handler, locks, writer
  <2>3. QED
    BY <1>1, <2>1, <2>2 DEF StreamInv, LockInv
<1>5. QED
  BY <1>2, <1>3, <1>4, Actor

\* The inductive invariant: who holds which lock, and what a buffer then holds.
THEOREM StreamInvariant == Spec => []StreamInv
BY StreamInit, StreamStep, PTL DEF Spec

\* Every variable keeps its type: indexes stay in the pool, numbers below their bounds.
THEOREM TypeCorrect == Spec => []TypeOK
<1>1. StreamInv => TypeOK
  BY DEF StreamInv
<1>2. QED
  BY <1>1, StreamInvariant, PTL

\* A frame that OnBuffer has does not change under it, and nobody writes to one that a
\* consumer keeps, for any number of readers, buffers, pools and frames that are kept,
\* whoever dies or starts anew.
THEOREM FramesStable == Spec => []StableWhileRead
<1>1. StreamInv => StableWhileRead
  BY DEF StreamInv
<1>2. QED
  BY <1>1, StreamInvariant, PTL
-----------------------------------------------------------------------------
(* Which buffers can be locked.                                            *)

\* Of its own pool the publisher has no buffer locked but the one it fills.
WriterLocks ==
  /\ wpc \in {"create", "truncate", "construct", "idle", "set"} => unique[wpool] = {}
  /\ wpc \in {"writing", "unlock"} => unique[wpool] \subseteq {wbuf}
  /\ \A p \in Pools : p > generated => unique[p] = {}

\* At the start nothing is locked.
LEMMA LocksInit == Init => WriterLocks
BY DEF Init, WriterLocks

\* The publisher unlocks the buffer before it takes another one.
LEMMA WriterLocksStep ==
  ASSUME TypeOK, WriterInv, WriterLocks, WriterAction
  PROVE  WriterLocks'
<1> USE DEF WriterLocks
<1>1. CASE Start \/ CreateSession \/ InitSession \/ SetTimesOut \/ Close \/ Die \/ DieInSet
  <2>1. wpc' \in {"session", "initialise", "announce", "down"} /\ UNCHANGED <<unique, generated>>
    BY <1>1 DEF Start, CreateSession, InitSession, SetTimesOut, Close, Die, DieInSet, Exits, locks
  <2>2. QED
    BY <2>1
<1>2. CASE SetPoolId
  <2>1. /\ generated \in Nat /\ generated + 1 \in Pools /\ UNCHANGED unique
        /\ wpc' = "create" /\ wpool' = generated + 1 /\ generated' = generated + 1
    BY <1>2, StreamAssumption DEF SetPoolId, TypeOK, Pools, locks
  <2>2. unique'[wpool'] = {} /\ \A p \in Pools : p > generated' => unique'[p] = {}
    BY <2>1 DEF Pools
  <2>3. QED
    BY <2>1, <2>2
<1>3. CASE CreatePool \/ TruncatePool \/ Construct \/ Set
  <2>1. /\ wpc \in {"create", "truncate", "construct", "set"}
        /\ wpc' \in {"truncate", "construct", "idle"} /\ UNCHANGED <<unique, wpool, generated>>
    BY <1>3 DEF CreatePool, TruncatePool, Construct, Set, locks
  <2>2. QED
    BY <2>1
<1>4. CASE QueryBufferUnique
  <2>1. /\ wpool \in Pools /\ wpool <= generated /\ unique[wpool] = {}
        /\ wpc' = "writing" /\ UNCHANGED <<wpool, generated>>
    BY <1>4 DEF QueryBufferUnique, WriterInv
  <2>2. unique' = [unique EXCEPT ![wpool] = @ \cup {wbuf'}]
    BY <1>4 DEF QueryBufferUnique
  <2>3. unique'[wpool] = {wbuf'} /\ \A p \in Pools : p # wpool => unique'[p] = unique[p]
    BY <2>1, <2>2 DEF TypeOK
  <2>4. \A p \in Pools : p > generated => p # wpool
    BY <2>1 DEF TypeOK, Pools
  <2>5. QED
    BY <2>1, <2>3, <2>4
<1>5. CASE Serialized
  BY <1>5 DEF Serialized
<1>6. CASE SerializeFails \/ PublishUnlocks
  <2>1. /\ wpool \in Pools /\ unique[wpool] \subseteq {wbuf} /\ wpc' \in {"idle", "set"}
        /\ unique' = [unique EXCEPT ![wpool] = @ \ {wbuf}] /\ UNCHANGED <<wpool, generated>>
    BY <1>6 DEF SerializeFails, PublishUnlocks, WriterInv
  <2>2. unique'[wpool] = {} /\ \A p \in Pools : unique'[p] \subseteq unique[p]
    BY <2>1 DEF TypeOK
  <2>3. QED
    BY <2>1, <2>2
<1>7. QED
  BY <1>1, <1>2, <1>3, <1>4, <1>5, <1>6 DEF WriterAction, WriterStep

\* Every step keeps that.
LEMMA LocksStep == StreamInv /\ WriterLocks /\ [Next]_vars => WriterLocks'
<1> SUFFICES ASSUME StreamInv, WriterLocks, [Next]_vars PROVE WriterLocks'
  OBVIOUS
<1>0. TypeOK /\ WriterInv
  BY DEF StreamInv
<1>1. CASE WriterAction
  BY <1>0, <1>1, WriterLocksStep
<1>2. ASSUME NEW r \in Readers, PlayerAction(r) PROVE WriterLocks'
  BY <1>2, PlayerFrame DEF WriterLocks, writer
<1>3. CASE UNCHANGED vars
  BY <1>3 DEF WriterLocks, vars, locks, writer
<1>4. QED
  BY <1>1, <1>2, <1>3, Actor

\* What an idle publisher cannot lock a reader has locked, and a living one as often
\* as it has frames of it.
LEMMA FreeBuffer == StreamInv /\ WriterLocks => WriterFindsBuffer
<1> SUFFICES ASSUME StreamInv, WriterLocks, wpc = "idle", NEW b \in Buffers, ~Lockable(b)
             PROVE  InUse(wpool, b)
  BY DEF WriterFindsBuffer
<1>1. wpool \in Pools /\ unique[wpool] = {} /\ TypeOK
  BY DEF StreamInv, WriterInv, WriterLocks
<1>2. PICK r \in Readers : shared[wpool][b][r] # 0
  BY <1>1 DEF Lockable
<1>3. shared[wpool][b][r] > 0 /\ kept[wpool][b][r] \in Nat
  BY <1>1, <1>2 DEF TypeOK
<1>4. rpc[r] = "dead" \/ shared[wpool][b][r] = Held(r, wpool, b)
  BY <1>1 DEF StreamInv, LockCount, Counted
<1>5. QED
  BY <1>3, <1>4 DEF Held, InUse

\* The publisher drops a frame only because all buffers are in use: failures, stops,
\* deaths of the publisher and changes of the pool leave no lock behind, for any
\* number of readers and of frames that they keep.
THEOREM BufferFound == Spec => []WriterFindsBuffer
<1>1. Spec => []WriterLocks
  BY StreamInvariant, LocksInit, LocksStep, PTL DEF Spec
<1>2. QED
  BY <1>1, StreamInvariant, FreeBuffer, PTL
-----------------------------------------------------------------------------
(* The order of the frames.                                                *)

\* A wait ends only with an announcement that was made after it began, and what is
\* announced is then the newest frame of all; later fills only make it newer.
FrameOrder ==
  /\ \A p \in Pools, b \in Buffers : content[p][b].frame <= frames
  /\ wpc \in {"writing", "unlock", "set"} => content[wpool][wbuf].frame = frames
  /\ \A r \in Readers :
       /\ got[r] <= frames
       /\ rpc[r] = "waiting" /\ sequence[rpool[r]] # seen[r] /\ index[rpool[r]] # Undefined =>
            got[r] <= content[rpool[r]][index[rpool[r]]].frame
       /\ rpc[r] = "lock" /\ rbuf[r] # Undefined => got[r] <= content[rpool[r]][rbuf[r]].frame

\* At the start nobody has got a frame.
LEMMA OrderInit == Init => FrameOrder
<1> SUFFICES ASSUME Init PROVE FrameOrder
  OBVIOUS
<1>1. /\ frames = 0 /\ wpc = "down" /\ \A p \in Pools, b \in Buffers : content[p][b].frame = 0
      /\ \A r \in Readers : got[r] = 0 /\ rpc[r] = "off"
  BY DEF Init
<1>2. QED
  BY <1>1 DEF FrameOrder

\* Frames, pools and indexes are where the types say.
LEMMA FrameTypes ==
  ASSUME TypeOK
  PROVE  /\ frames \in Nat /\ \A r \in Readers : got[r] \in Nat
         /\ \A p \in Pools, b \in Buffers : content[p][b].frame \in Nat
BY StreamAssumption DEF TypeOK, Content

\* Steps of the publisher that write no buffer and announce none.
LEMMA OrderFrame ==
  ASSUME FrameOrder, UNCHANGED <<content, sequence, index, frames, players>>,
         wpc' \in {"unlock", "set"} => wpc \in {"writing", "unlock"} /\ UNCHANGED <<wpool, wbuf>>,
         wpc' # "writing"
  PROVE  FrameOrder'
BY DEF FrameOrder, players

\* Every step of the publisher keeps the order.
LEMMA WriterOrder ==
  ASSUME TypeOK, WriterInv, ReaderInv, FrameOrder, WriterAction
  PROVE  FrameOrder'
<1>0. UNCHANGED players
  BY WriterFrame
<1>1. CASE Start \/ CreateSession \/ InitSession \/ SetPoolId \/ CreatePool \/ TruncatePool
           \/ PublishUnlocks \/ SetTimesOut \/ Close \/ Die \/ DieInSet
  <2>1. /\ UNCHANGED <<content, sequence, index, frames>> /\ wpc' # "writing"
        /\ wpc' \in {"unlock", "set"} => wpc \in {"writing", "unlock"} /\ UNCHANGED <<wpool, wbuf>>
    BY <1>1 DEF Start, CreateSession, InitSession, SetPoolId, CreatePool, TruncatePool,
       PublishUnlocks, SetTimesOut, Close, Die, DieInSet, Exits, handler, locks
  <2>2. QED
    BY <1>0, <2>1, OrderFrame
<1>2. CASE Construct
  <2>1. /\ wpool \in Pools /\ wpc' = "idle" /\ UNCHANGED <<content, frames>>
        /\ \A p \in Pools : p # wpool => sequence'[p] = sequence[p] /\ index'[p] = index[p]
        /\ index'[wpool] = Undefined
    BY <1>2 DEF Construct, WriterInv, TypeOK, locks
  <2>2. QED
    BY <1>0, <2>1 DEF FrameOrder, players, ReaderInv
<1>3. CASE QueryBufferUnique
  <2>1. /\ wpool \in Pools /\ wpc' = "writing" /\ frames' = frames + 1
        /\ UNCHANGED <<wpool, sequence, index>>
    BY <1>3 DEF QueryBufferUnique, WriterInv, handler
  <2>2. wbuf' \in Buffers
    <3>1. \A i \in Buffers : (next + i) % PoolSize \in Buffers
      BY StreamAssumption DEF TypeOK, Buffers
    <3>2. QED
      BY <1>3, <3>1 DEF QueryBufferUnique
  <2>3. content' = [content EXCEPT ![wpool][wbuf'] = [frame |-> frames + 1, state |-> "torn"]]
    BY <1>3 DEF QueryBufferUnique
  <2>4. \A p \in Pools, b \in Buffers :
          content'[p][b].frame = IF p = wpool /\ b = wbuf' THEN frames + 1 ELSE content[p][b].frame
    BY <2>1, <2>2, <2>3 DEF TypeOK
  <2>5. \A p \in Pools, b \in Buffers :
          content'[p][b].frame <= frames' /\ content[p][b].frame <= content'[p][b].frame
    BY <2>1, <2>4, FrameTypes DEF FrameOrder
  <2>6. content'[wpool'][wbuf'].frame = frames'
    BY <2>1, <2>2, <2>4
  <2>7. ASSUME NEW p \in Pools, NEW b \in Buffers, NEW r \in Readers, got[r] <= content[p][b].frame
        PROVE  got[r] <= content'[p][b].frame
    BY <2>4, <2>7, FrameTypes DEF FrameOrder
  <2>8. \A r \in Readers :
          /\ got[r] <= frames'
          /\ rpc[r] = "waiting" /\ sequence[rpool[r]] # seen[r] /\ index[rpool[r]] # Undefined =>
               got[r] <= content'[rpool[r]][index[rpool[r]]].frame
          /\ rpc[r] = "lock" /\ rbuf[r] # Undefined => got[r] <= content'[rpool[r]][rbuf[r]].frame
    <3> SUFFICES ASSUME NEW r \in Readers
                 PROVE  /\ got[r] <= frames'
                        /\ rpc[r] = "waiting" /\ sequence[rpool[r]] # seen[r]
                             /\ index[rpool[r]] # Undefined =>
                               got[r] <= content'[rpool[r]][index[rpool[r]]].frame
                        /\ rpc[r] = "lock" /\ rbuf[r] # Undefined =>
                             got[r] <= content'[rpool[r]][rbuf[r]].frame
      OBVIOUS
    <3>1. got[r] <= frames'
      BY <2>1, FrameTypes DEF FrameOrder
    <3>2. /\ rpc[r] \in {"waiting", "lock"} => rpool[r] \in Pools
          /\ rpool[r] \in Pools => index[rpool[r]] \in Buffers \cup {Undefined}
          /\ rbuf[r] \in Buffers \cup {Undefined}
      BY DEF ReaderInv, TypeOK
    <3>3. QED
      BY <2>7, <3>1, <3>2 DEF FrameOrder
  <2>9. QED
    BY <1>0, <2>1, <2>5, <2>6, <2>8 DEF FrameOrder, players
<1>4. CASE Serialized \/ SerializeFails
  <2>1. /\ wpool \in Pools /\ wbuf \in Buffers /\ UNCHANGED <<sequence, index, frames>>
        /\ wpc = "writing" /\ wpc' \in {"unlock", "idle"}
        /\ wpc' = "unlock" => UNCHANGED <<wpool, wbuf>>
    BY <1>4 DEF Serialized, SerializeFails, WriterInv, TypeOK, handler
  <2>2. PICK st \in {"whole", "broken"} : content' = [content EXCEPT ![wpool][wbuf].state = st]
    BY <1>4 DEF Serialized, SerializeFails
  <2>3. \A p \in Pools, b \in Buffers : content'[p][b].frame = content[p][b].frame
    <3> SUFFICES ASSUME NEW p \in Pools, NEW b \in Buffers
                 PROVE  content'[p][b].frame = content[p][b].frame
      OBVIOUS
    <3>1. CASE p = wpool /\ b = wbuf
      <4>1. content'[p][b] = [content[p][b] EXCEPT !.state = st]
        BY <2>1, <2>2, <3>1 DEF TypeOK
      <4>2. content[p][b] \in Content
        BY DEF TypeOK
      <4>3. QED
        BY <4>1, <4>2 DEF Content
    <3>2. CASE ~(p = wpool /\ b = wbuf)
      BY <2>1, <2>2, <3>2 DEF TypeOK
    <3>3. QED
      BY <3>1, <3>2
  <2>4. \A r \in Readers :
          /\ rpc[r] \in {"waiting", "lock"} => rpool[r] \in Pools
          /\ rpool[r] \in Pools => index[rpool[r]] \in Buffers \cup {Undefined}
          /\ rbuf[r] \in Buffers \cup {Undefined}
    BY DEF ReaderInv, TypeOK
  <2>5. QED
    BY <1>0, <2>1, <2>3, <2>4 DEF FrameOrder, players
<1>5. CASE Set
  <2>1. /\ wpool \in Pools /\ wpc = "set" /\ wpc' = "idle" /\ UNCHANGED <<content, frames>>
        /\ \A p \in Pools : p # wpool => sequence'[p] = sequence[p] /\ index'[p] = index[p]
        /\ index'[wpool] = wbuf
    BY <1>5 DEF Set, WriterInv, TypeOK, locks
  <2>2. \A r \in Readers : got[r] <= content[wpool][index'[wpool]].frame
    BY <2>1 DEF FrameOrder
  <2>3. QED
    BY <1>0, <2>1, <2>2 DEF FrameOrder, players, ReaderInv
<1>6. QED
  BY <1>1, <1>2, <1>3, <1>4, <1>5 DEF WriterAction, WriterStep

\* A step of a player keeps the order, and gives it no older frame.
LEMMA PlayerOrder ==
  ASSUME TypeOK, ReaderInv, FrameOrder, NEW r \in Readers, PlayerAction(r)
  PROVE  FrameOrder' /\ \A q \in Readers : got'[q] >= got[q]
<1>0. UNCHANGED <<sequence, index, content, frames, wpc, wpool, wbuf>>
  BY PlayerFrame DEF writer
<1> DEFINE InOrder(q) ==
      /\ got[q] <= frames
      /\ rpc[q] = "waiting" /\ sequence[rpool[q]] # seen[q] /\ index[rpool[q]] # Undefined =>
           got[q] <= content[rpool[q]][index[rpool[q]]].frame
      /\ rpc[q] = "lock" /\ rbuf[q] # Undefined => got[q] <= content[rpool[q]][rbuf[q]].frame
<1>1. \A q \in Readers : InOrder(q)
  BY DEF FrameOrder
<1>2. InOrder(r)' /\ got'[r] >= got[r]
  <2>1. CASE LockShared(r)
    <3>1. rpool[r] \in Pools /\ rbuf[r] \in Buffers /\ rbuf[r] # Undefined
      BY <2>1, BufferRange DEF LockShared, CanRead, ReaderInv
    <3>2. rpc'[r] \in {"reading", "done"}
      BY <2>1 DEF LockShared, Goes, TypeOK
    <3>3. got'[r] = got[r] \/ got'[r] = content[rpool[r]][rbuf[r]].frame
      BY <2>1 DEF LockShared, TypeOK
    <3>4. got[r] <= content[rpool[r]][rbuf[r]].frame /\ content[rpool[r]][rbuf[r]].frame <= frames
      BY <1>1, <2>1, <3>1 DEF LockShared, FrameOrder
    <3>5. QED
      BY <1>0, <1>1, <3>1, <3>2, <3>3, <3>4, FrameTypes
  <2>2. CASE Changed(r)
    <3>1. /\ rpc[r] = "waiting" /\ sequence[rpool[r]] # seen[r] /\ rpc'[r] = "lock"
          /\ rbuf'[r] = index[rpool[r]] /\ UNCHANGED <<rpool, got>>
      BY <2>2 DEF Changed, TypeOK
    <3>2. QED
      BY <1>0, <1>1, <3>1, FrameTypes
  <2>3. CASE Wait(r)
    <3>1. rpc'[r] = "waiting" /\ seen'[r] = sequence[rpool[r]] /\ UNCHANGED <<rpool, got>>
      BY <2>3 DEF Wait, TypeOK
    <3>2. QED
      BY <1>0, <1>1, <3>1, FrameTypes
  <2>4. CASE StopPlayer(r) \/ Releases(r)
    <3>1. UNCHANGED <<rpc, rpool, seen, rbuf, got>>
      BY <2>4 DEF StopPlayer, Releases, ReleaseFrame, players
    <3>2. QED
      BY <1>0, <1>1, <3>1, FrameTypes
  <2>5. CASE ~LockShared(r) /\ ~Changed(r) /\ ~Wait(r) /\ ~StopPlayer(r) /\ ~Releases(r)
    <3>1. rpc'[r] \notin {"waiting", "lock"} /\ UNCHANGED got
      BY <2>5 DEF PlayerAction, PlayerStep, Open, Map, WaitFails, TimesOut, LockSharedFails, EndRead,
         Slept, StartPlayer, DieReader, DieInWait, Gone, Goes, TypeOK
    <3>2. QED
      BY <1>0, <1>1, <3>1, FrameTypes
  <2>6. QED
    BY <2>1, <2>2, <2>3, <2>4, <2>5
<1>3. ASSUME NEW q \in Readers, q # r PROVE InOrder(q)' /\ got'[q] >= got[q]
  <2>1. /\ rpc'[q] = rpc[q] /\ rpool'[q] = rpool[q] /\ seen'[q] = seen[q]
        /\ rbuf'[q] = rbuf[q] /\ got'[q] = got[q]
    BY <1>3, OthersSame
  <2>2. QED
    BY <1>0, <1>1, <2>1, FrameTypes
<1>4. \A q \in Readers : InOrder(q)' /\ got'[q] >= got[q]
  BY <1>2, <1>3
<1>5. QED
  BY <1>0, <1>4 DEF FrameOrder

\* Every step keeps the order of the frames and hands out none that is older.
LEMMA OrderStep ==
  StreamInv /\ FrameOrder /\ [Next]_vars => FrameOrder' /\ \A r \in Readers : got'[r] >= got[r]
<1> SUFFICES ASSUME StreamInv, FrameOrder, [Next]_vars
             PROVE  FrameOrder' /\ \A r \in Readers : got'[r] >= got[r]
  OBVIOUS
<1>0. TypeOK /\ WriterInv /\ ReaderInv
  BY DEF StreamInv
<1>1. CASE WriterAction
  <2>1. FrameOrder'
    BY <1>0, <1>1, WriterOrder
  <2>2. UNCHANGED got
    BY <1>1, WriterFrame DEF players
  <2>3. QED
    BY <1>0, <2>1, <2>2, FrameTypes
<1>2. CASE \E r \in Readers : PlayerAction(r)
  BY <1>0, <1>2, PlayerOrder
<1>3. CASE UNCHANGED vars
  <2>1. FrameOrder'
    BY <1>3 DEF FrameOrder, vars, handler, locks, writer, players
  <2>2. QED
    BY <1>0, <1>3, <2>1, FrameTypes DEF vars, players
<1>4. QED
  BY <1>1, <1>2, <1>3, Actor

\* The frames that OnBuffer gets never go back, for any number of readers, buffers,
\* pools and sequence numbers: not when a buffer is refilled between wake-up and lock
\* or the filling fails, not over a wrap of the sequence, a death or a new pool.
THEOREM FramesGoForward == Spec => NeverBackward
<1>1. Spec => [](StreamInv /\ FrameOrder)
  BY StreamInvariant, OrderInit, OrderStep, PTL DEF Spec
<1>2. StreamInv /\ FrameOrder /\ [Next]_vars => [\A r \in Readers : got'[r] >= got[r]]_vars
  BY OrderStep
<1>3. QED
  BY <1>1, <1>2, PTL DEF Spec, NeverBackward
=============================================================================
