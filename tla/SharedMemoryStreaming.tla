------------------------ MODULE SharedMemoryStreaming ------------------------
(***************************************************************************)
(* Video frames from one publishing process to reading processes           *)
(* (Modules/video/shm_common/shared_memory_streaming.hpp with the          *)
(* publisher of Modules/video/shared_memory_video), as built for Linux.    *)
(*                                                                         *)
(* A session segment, found by its name, holds the id of the current pool; *)
(* a pool segment, found by its id, holds a wait handler (mutex, condition,*)
(* sequence number, buffer index) and one sharable lock per buffer.  The   *)
(* publisher locks a buffer, fills it, unlocks it and then sets index and  *)
(* sequence.  A player waits for the sequence to change, locks the buffer  *)
(* of the index and hands it out; after any error it sleeps and maps       *)
(* everything anew.  Who got a buffer may keep it beyond OnBuffer, as the  *)
(* zero-copy frames of the subscriber do; it is unlocked with the last     *)
(* reference.                                                              *)
(*                                                                         *)
(* Every process may die anywhere.  What it holds stays locked, names stay *)
(* in the system.  The short critical section of the wait handler is one   *)
(* step of whoever enters it, with the case that he dies inside as a step  *)
(* of its own.  The retries of lock_read are one attempt, made at any time *)
(* before they are used up.                                                *)
(***************************************************************************)
EXTENDS Integers

CONSTANTS
  Readers,
  PoolSize,      \* buffers of a pool
  Iterations,    \* waits that time out before a player maps anew (ITERATIONS)
  SeqBound,      \* the sequence number is counted modulo this (UINT32_MAX)
  MaxPools,      \* bound: pool ids that are generated
  MaxFrames      \* bound: frames that the source delivers

ASSUME StreamAssumption ==
  /\ {PoolSize, Iterations, MaxPools, MaxFrames} \subseteq Nat \ {0}
  /\ SeqBound \in Nat /\ SeqBound > 1

Buffers == 0 .. PoolSize - 1
Undefined == PoolSize              \* UNDEFINED_INDEX: no valid index
Pools == 1 .. MaxPools
NoPool == 0                        \* the undefined guid, a null pool pointer

VARIABLES
  \* the session segment: absent, sized 0, or initialised; and its pool id
  session, poolId,
  \* pool segments, by id
  stage,         \* absent, empty (size 0), zeroed, constructed
  linked,        \* the ids under which a segment can be opened
  sequence, index, mutex,   \* the wait handler; mutex is free or orphaned
  unique, shared,           \* buffers locked by the writer; how often by each reader
  content,                  \* what a buffer holds
  kept,                     \* of the locks of a reader, those that outlived OnBuffer
  \* the publisher
  wpc, wpool, wbuf, next, released, frames, generated,
  \* the players
  rpc, running, rpool, sized, seen, tries, rbuf,
  got            \* the last frame handed to OnBuffer (history)

segments == <<session, poolId, stage, linked>>
handler == <<sequence, index, mutex>>
locks == <<unique, shared, content, kept>>
writer == <<wpc, wpool, wbuf, next, released, frames, generated>>
players == <<rpc, running, rpool, sized, seen, tries, rbuf, got>>
vars == <<segments, handler, locks, writer, players>>

Content == [frame : 0 .. MaxFrames, state : {"unused", "torn", "whole", "broken"}]

Init ==
  /\ session = "absent" /\ poolId = NoPool
  /\ stage = [p \in Pools |-> "absent"] /\ linked = {}
  /\ sequence = [p \in Pools |-> 0]
  /\ index = [p \in Pools |-> 0]
  /\ mutex = [p \in Pools |-> "free"]
  /\ unique = [p \in Pools |-> {}]
  /\ shared = [p \in Pools |-> [b \in Buffers |-> [r \in Readers |-> 0]]]
  /\ content = [p \in Pools |-> [b \in Buffers |-> [frame |-> 0, state |-> "unused"]]]
  /\ kept = [p \in Pools |-> [b \in Buffers |-> [r \in Readers |-> 0]]]
  /\ wpc = "down" /\ wpool = NoPool /\ wbuf = 0 /\ next = 0 /\ released = NoPool
  /\ frames = 0 /\ generated = 0
  /\ rpc = [r \in Readers |-> "off"]
  /\ running = [r \in Readers |-> FALSE]
  /\ rpool = [r \in Readers |-> NoPool]
  /\ sized = [r \in Readers |-> FALSE]
  /\ seen = [r \in Readers |-> 0]
  /\ tries = [r \in Readers |-> 0]
  /\ rbuf = [r \in Readers |-> 0]
  /\ got = [r \in Readers |-> 0]
-----------------------------------------------------------------------------
(* The publisher.                                                          *)

\* A publishing process starts: shm_remove takes away what an earlier one left.
Start ==
  /\ wpc = "down" /\ generated < MaxPools
  /\ session' = "absent"
  /\ wpc' = "session"
  /\ UNCHANGED <<poolId, stage, linked, handler, locks, wpool, wbuf, next, released, frames,
                 generated, players>>

\* shm_buffer::map creates the session segment, which has no size yet ...
CreateSession ==
  /\ wpc = "session"
  /\ session' = "empty"
  /\ wpc' = "initialise"
  /\ UNCHANGED <<poolId, stage, linked, handler, locks, wpool, wbuf, next, released, frames,
                 generated, players>>

\* ... truncate gives it zeroes, the constructor writes undefined ids.
InitSession ==
  /\ wpc = "initialise"
  /\ session' = "ready" /\ poolId' = NoPool
  /\ wpc' = "announce"
  /\ UNCHANGED <<stage, linked, handler, locks, wpool, wbuf, next, released, frames, generated, players>>

\* set_pool_id publishes a new id before the pool exists.  Out of ids, the model stops.
SetPoolId ==
  /\ wpc = "announce" /\ generated < MaxPools
  /\ generated' = generated + 1
  /\ poolId' = generated + 1
  /\ wpool' = generated + 1
  /\ wpc' = "create"
  /\ UNCHANGED <<session, stage, linked, handler, locks, wbuf, next, released, frames,
                 players>>

CreatePool ==
  /\ wpc = "create"
  /\ stage' = [stage EXCEPT ![wpool] = "empty"]
  /\ linked' = linked \cup {wpool}
  /\ wpc' = "truncate"
  /\ UNCHANGED <<session, poolId, handler, locks, wpool, wbuf, next, released, frames, generated, players>>

TruncatePool ==
  /\ wpc = "truncate"
  /\ stage' = [stage EXCEPT ![wpool] = "zeroed"]
  /\ wpc' = "construct"
  /\ UNCHANGED <<session, poolId, linked, handler, locks, wpool, wbuf, next, released, frames,
                 generated, players>>

\* construct ends with set(UNDEFINED_INDEX).  The pool that a failed publish gave
\* up is unlinked now that its last buffer is released.
Construct ==
  /\ wpc = "construct"
  /\ stage' = [stage EXCEPT ![wpool] = "ready"]
  /\ linked' = linked \ {released}
  /\ sequence' = [sequence EXCEPT ![wpool] = 1]
  /\ index' = [index EXCEPT ![wpool] = Undefined]
  /\ next' = 0 /\ released' = NoPool
  /\ wpc' = "idle"
  /\ UNCHANGED <<session, poolId, mutex, locks, wpool, wbuf, frames, generated, players>>

\* Mutant: a buffer is taken although readers have it.
MutIgnoresReaders(b) == b \notin unique[wpool]

Lockable(b) == b \notin unique[wpool] /\ \A r \in Readers : shared[wpool][b][r] = 0

\* on_frame, query_buffer_unique: the first lockable buffer from next on; without one
\* the frame is dropped, which changes nothing.
QueryBufferUnique ==
  /\ wpc = "idle" /\ frames < MaxFrames
  /\ \E i \in Buffers :
       LET b == (next + i) % PoolSize IN
       /\ Lockable(b)
       /\ \A j \in 0 .. i - 1 : ~Lockable((next + j) % PoolSize)
       /\ unique' = [unique EXCEPT ![wpool] = @ \cup {b}]
       /\ content' = [content EXCEPT ![wpool][b] = [frame |-> frames + 1, state |-> "torn"]]
       /\ wbuf' = b
       /\ next' = (b + 1) % PoolSize
  /\ frames' = frames + 1
  /\ wpc' = "writing"
  /\ UNCHANGED <<segments, handler, shared, kept, wpool, released, generated, players>>

Serialized ==
  /\ wpc = "writing"
  /\ content' = [content EXCEPT ![wpool][wbuf].state = "whole"]
  /\ wpc' = "unlock"
  /\ UNCHANGED <<segments, handler, unique, shared, kept, wpool, wbuf, next, released, frames, generated, players>>

\* Mutant: the buffer is not unlocked by its destructor.
MutKeepsLock ==
  /\ wpc = "writing"
  /\ content' = [content EXCEPT ![wpool][wbuf].state = "broken"]
  /\ wbuf' = 0
  /\ wpc' = "idle"
  /\ UNCHANGED <<segments, handler, unique, shared, kept, wpool, next, released, frames, generated, players>>

\* serialize fails: on_frame returns, the destructor of the buffer unlocks it.
SerializeFails ==
  /\ wpc = "writing"
  /\ content' = [content EXCEPT ![wpool][wbuf].state = "broken"]
  /\ unique' = [unique EXCEPT ![wpool] = @ \ {wbuf}]
  /\ wbuf' = 0
  /\ wpc' = "idle"
  /\ UNCHANGED <<segments, handler, shared, kept, wpool, next, released, frames, generated, players>>

\* publish_unsafe unlocks the buffer first ...
PublishUnlocks ==
  /\ wpc = "unlock"
  /\ unique' = [unique EXCEPT ![wpool] = @ \ {wbuf}]
  /\ wpc' = "set"
  /\ UNCHANGED <<segments, handler, shared, content, kept, wpool, wbuf, next, released,
                 frames, generated, players>>

\* Mutant: the sequence number does not wrap.
MutNoWrap ==
  /\ wpc = "set" /\ mutex[wpool] = "free"
  /\ sequence' = [sequence EXCEPT ![wpool] = @ + 1]
  /\ index' = [index EXCEPT ![wpool] = wbuf]
  /\ wbuf' = 0
  /\ wpc' = "idle"
  /\ UNCHANGED <<segments, mutex, locks, wpool, next, released, frames, generated,
                 players>>

\* ... and then tells the readers.
Set ==
  /\ wpc = "set" /\ mutex[wpool] = "free"
  /\ sequence' = [sequence EXCEPT ![wpool] = (@ + 1) % SeqBound]
  /\ index' = [index EXCEPT ![wpool] = wbuf]
  /\ wbuf' = 0
  /\ wpc' = "idle"
  /\ UNCHANGED <<segments, mutex, locks, wpool, next, released, frames, generated,
                 players>>

\* The deadline of timed_lock passes: publish calls remap, which drops the session.
SetTimesOut ==
  /\ wpc = "set" /\ mutex[wpool] = "orphaned"
  /\ session' = "absent"
  /\ released' = wpool
  /\ wbuf' = 0
  /\ wpc' = "session"
  /\ UNCHANGED <<poolId, stage, linked, handler, locks, wpool, next, frames, generated, players>>

\* The publishing process ends.
Exits ==
  /\ wpc' = "down" /\ wpool' = NoPool /\ released' = NoPool
  /\ wbuf' = 0 /\ next' = 0

\* ~shm_session: the pool is unlinked, its id cleared, the session unlinked.
Close ==
  /\ wpc = "idle"
  /\ linked' = linked \ {wpool}
  /\ poolId' = NoPool
  /\ session' = "absent"
  /\ Exits
  /\ UNCHANGED <<stage, handler, locks, frames, generated, players>>

\* The publisher dies, in the last case inside set.
Die ==
  /\ wpc # "down"
  /\ Exits
  /\ UNCHANGED <<segments, handler, locks, frames, generated, players>>

DieInSet ==
  /\ wpc = "set" /\ mutex[wpool] = "free"
  /\ mutex' = [mutex EXCEPT ![wpool] = "orphaned"]
  /\ Exits
  /\ UNCHANGED <<segments, sequence, index, locks, frames, generated, players>>
-----------------------------------------------------------------------------
(* The players.                                                            *)

\* The process ends; what it has locked stays locked.
Gone(r) ==
  /\ rpc' = [rpc EXCEPT ![r] = "dead"]
  /\ running' = [running EXCEPT ![r] = FALSE]
  /\ rpool' = [rpool EXCEPT ![r] = NoPool]
  /\ sized' = [sized EXCEPT ![r] = FALSE]
  /\ seen' = [seen EXCEPT ![r] = 0]
  /\ tries' = [tries EXCEPT ![r] = 0]
  /\ rbuf' = [rbuf EXCEPT ![r] = 0]
  /\ UNCHANGED got

\* The session maps when it is made, so a player that is started again begins with
\* what was mapped before.
StartPlayer(r) ==
  /\ rpc[r] \in {"off", "done"}
  /\ running' = [running EXCEPT ![r] = TRUE]
  /\ rpc' = [rpc EXCEPT ![r] = IF @ = "off" THEN "open" ELSE "wait"]
  /\ tries' = [tries EXCEPT ![r] = 0]
  /\ UNCHANGED <<segments, handler, locks, writer, rpool, sized, seen, rbuf, got>>

StopPlayer(r) ==
  /\ running[r] /\ rpc[r] # "dead"
  /\ running' = [running EXCEPT ![r] = FALSE]
  /\ UNCHANGED <<segments, handler, locks, writer, rpc, rpool, sized, seen, tries, rbuf, got>>

\* remap of a reader opens the session.  A segment of size 0 cannot be mapped: the
\* exception of mapped_region is not caught and ends the process.
Open(r) ==
  /\ rpc[r] = "open"
  /\ IF session = "empty"
       THEN Gone(r)
       ELSE LET id == IF session = "ready" THEN poolId ELSE NoPool IN
            /\ rpool' = [rpool EXCEPT ![r] = id]
            /\ sized' = [sized EXCEPT ![r] = FALSE]
            /\ rpc' = [rpc EXCEPT ![r] = IF id = NoPool THEN "wait" ELSE "map"]
            /\ UNCHANGED <<running, seen, tries, rbuf, got>>
  /\ UNCHANGED <<segments, handler, locks, writer>>

\* ... and the pool of the id it read, which may be gone or not be there yet; the
\* size is read once.
Map(r) ==
  /\ rpc[r] = "map"
  /\ IF rpool[r] \in linked /\ stage[rpool[r]] = "empty"
       THEN Gone(r)
       ELSE /\ rpool' = [rpool EXCEPT ![r] = IF @ \in linked THEN @ ELSE NoPool]
            /\ sized' = [sized EXCEPT ![r] = rpool[r] \in linked /\ stage[rpool[r]] = "ready"]
            /\ rpc' = [rpc EXCEPT ![r] = "wait"]
            /\ UNCHANGED <<running, seen, tries, rbuf, got>>
  /\ UNCHANGED <<segments, handler, locks, writer>>

\* Mutant: the listening thread does not look at m_running.
MutGoesOn(r, to) == rpc' = [rpc EXCEPT ![r] = to]

\* Where the listening thread goes: on, unless the player was stopped.
Goes(r, to) == rpc' = [rpc EXCEPT ![r] = IF running[r] THEN to ELSE "done"]

\* wait_for_buffer_share without a mapped pool is an error, ...
WaitFails(r) ==
  /\ rpc[r] = "wait" /\ rpool[r] = NoPool
  /\ Goes(r, "sleep")
  /\ UNCHANGED <<segments, handler, locks, writer, running, rpool, sized, seen, tries, rbuf, got>>

\* ... with one, wait() remembers the sequence number of this moment.
Wait(r) ==
  /\ rpc[r] = "wait" /\ rpool[r] # NoPool /\ mutex[rpool[r]] = "free"
  /\ seen' = [seen EXCEPT ![r] = sequence[rpool[r]]]
  /\ rpc' = [rpc EXCEPT ![r] = "waiting"]
  /\ UNCHANGED <<segments, handler, locks, writer, running, rpool, sized, tries, rbuf, got>>

\* Mutant: a wake-up counts as a change of the sequence.
MutSpuriousWake(r) ==
  /\ rpc[r] = "waiting" /\ mutex[rpool[r]] = "free"
  /\ rbuf' = [rbuf EXCEPT ![r] = index[rpool[r]]]
  /\ seen' = [seen EXCEPT ![r] = 0]
  /\ rpc' = [rpc EXCEPT ![r] = "lock"]
  /\ UNCHANGED <<segments, handler, locks, writer, running, rpool, sized, tries, got>>

Changed(r) ==
  /\ rpc[r] = "waiting" /\ mutex[rpool[r]] = "free"
  /\ sequence[rpool[r]] # seen[r]
  /\ rbuf' = [rbuf EXCEPT ![r] = index[rpool[r]]]
  /\ seen' = [seen EXCEPT ![r] = 0]
  /\ rpc' = [rpc EXCEPT ![r] = "lock"]
  /\ UNCHANGED <<segments, handler, locks, writer, running, rpool, sized, tries, got>>

\* Mutant: a player waits for ever on the pool that it has mapped.
MutNeverRemaps(r) ==
  /\ rpc[r] = "waiting" /\ mutex[rpool[r]] = "free"
  /\ sequence[rpool[r]] = seen[r]
  /\ seen' = [seen EXCEPT ![r] = 0]
  /\ Goes(r, "wait")
  /\ UNCHANGED <<segments, handler, locks, writer, running, rpool, sized, tries, rbuf, got>>

\* After so many timeouts in a row the wait is given up.
TimesOut(r) ==
  /\ rpc[r] = "waiting" /\ mutex[rpool[r]] = "free"
  /\ sequence[rpool[r]] = seen[r]
  /\ tries' = [tries EXCEPT ![r] = (@ + 1) % Iterations]
  /\ seen' = [seen EXCEPT ![r] = 0]
  /\ Goes(r, IF tries[r] + 1 < Iterations THEN "wait" ELSE "sleep")
  /\ UNCHANGED <<segments, handler, locks, writer, running, rpool, sized, rbuf, got>>

CanRead(r) == sized[r] /\ rbuf[r] \in Buffers /\ rbuf[r] \notin unique[rpool[r]]

\* query_buffer_shared; a stopped player gives the buffer back at once.
LockShared(r) ==
  /\ rpc[r] = "lock" /\ CanRead(r)
  /\ Goes(r, "reading")
  /\ IF running[r]
       THEN /\ shared' = [shared EXCEPT ![rpool[r]][rbuf[r]][r] = @ + 1]
            /\ got' = [got EXCEPT ![r] = content[rpool[r]][rbuf[r]].frame]
            /\ UNCHANGED rbuf
       ELSE /\ rbuf' = [rbuf EXCEPT ![r] = 0]
            /\ UNCHANGED <<shared, got>>
  /\ UNCHANGED <<segments, handler, unique, content, kept, writer, running, rpool, sized, seen, tries>>

\* All retries fail, or the index is not one of a buffer this reader knows.
LockSharedFails(r) ==
  /\ rpc[r] = "lock" /\ ~CanRead(r)
  /\ Goes(r, "sleep")
  /\ rbuf' = [rbuf EXCEPT ![r] = 0]
  /\ tries' = [tries EXCEPT ![r] = 0]
  /\ UNCHANGED <<segments, handler, locks, writer, running, rpool, sized, seen, got>>

\* OnBuffer returns.  The listening thread lets go of the buffer, which unlocks it
\* unless somebody keeps it.
EndRead(r) ==
  /\ rpc[r] = "reading"
  /\ \/ /\ shared' = [shared EXCEPT ![rpool[r]][rbuf[r]][r] = @ - 1]
        /\ UNCHANGED kept
     \/ /\ kept' = [kept EXCEPT ![rpool[r]][rbuf[r]][r] = @ + 1]
        /\ UNCHANGED shared
  /\ rbuf' = [rbuf EXCEPT ![r] = 0]
  /\ tries' = [tries EXCEPT ![r] = 0]
  /\ Goes(r, "wait")
  /\ UNCHANGED <<segments, handler, unique, content, writer, running, rpool, sized, seen, got>>

\* The last reference to a kept frame is released, when its consumer is done with it.
ReleaseFrame(r, p, b) ==
  /\ rpc[r] # "dead" /\ kept[p][b][r] > 0
  /\ kept' = [kept EXCEPT ![p][b][r] = @ - 1]
  /\ shared' = [shared EXCEPT ![p][b][r] = @ - 1]
  /\ UNCHANGED <<segments, handler, unique, content, writer, players>>

Slept(r) ==
  /\ rpc[r] = "sleep"
  /\ Goes(r, "open")
  /\ UNCHANGED <<segments, handler, locks, writer, running, rpool, sized, seen, tries, rbuf, got>>

\* The reading process dies, in the second case inside wait; its locks stay.
DieReader(r) ==
  /\ rpc[r] \notin {"off", "dead"}
  /\ Gone(r)
  /\ UNCHANGED <<segments, handler, locks, writer>>

DieInWait(r) ==
  /\ rpc[r] \in {"wait", "waiting"} /\ rpool[r] # NoPool
  /\ mutex[rpool[r]] = "free"
  /\ mutex' = [mutex EXCEPT ![rpool[r]] = "orphaned"]
  /\ Gone(r)
  /\ UNCHANGED <<segments, sequence, index, locks, writer>>
-----------------------------------------------------------------------------
WriterStep ==
  \/ CreateSession \/ InitSession \/ SetPoolId \/ CreatePool \/ TruncatePool \/ Construct
  \/ Serialized \/ SerializeFails \/ PublishUnlocks \/ Set \/ SetTimesOut

PlayerStep(r) ==
  \/ Open(r) \/ Map(r) \/ WaitFails(r) \/ Wait(r) \/ Changed(r) \/ TimesOut(r)
  \/ LockShared(r) \/ LockSharedFails(r) \/ EndRead(r) \/ Slept(r)

Next ==
  \/ WriterStep \/ Start \/ QueryBufferUnique \/ Close \/ Die \/ DieInSet
  \/ \E r \in Readers : \/ PlayerStep(r) \/ StartPlayer(r) \/ StopPlayer(r)
                        \/ DieReader(r) \/ DieInWait(r)
                        \/ \E p \in Pools, b \in Buffers : ReleaseFrame(r, p, b)

Spec == Init /\ [][Next]_vars

\* The operating system schedules the processes that live, deadlines pass and
\* OnBuffer returns.  Nobody has to start, publish, stop, die or let go of a frame.
FairSpec ==
  /\ Spec
  /\ WF_vars(WriterStep)
  /\ \A r \in Readers : WF_vars(PlayerStep(r))
-----------------------------------------------------------------------------
TypeOK ==
  /\ session \in {"absent", "empty", "ready"} /\ poolId \in {NoPool} \cup Pools
  /\ stage \in [Pools -> {"absent", "empty", "zeroed", "ready"}] /\ linked \subseteq Pools
  /\ sequence \in [Pools -> 0 .. SeqBound - 1]
  /\ index \in [Pools -> Buffers \cup {Undefined}]
  /\ mutex \in [Pools -> {"free", "orphaned"}]
  /\ unique \in [Pools -> SUBSET Buffers]
  /\ shared \in [Pools -> [Buffers -> [Readers -> Nat]]]
  /\ kept \in [Pools -> [Buffers -> [Readers -> Nat]]]
  /\ content \in [Pools -> [Buffers -> Content]]
  /\ wpc \in {"down", "session", "initialise", "announce", "create", "truncate", "construct",
              "idle", "writing", "unlock", "set"}
  /\ wpool \in {NoPool} \cup Pools /\ released \in {NoPool} \cup Pools
  /\ wbuf \in Buffers /\ next \in Buffers
  /\ frames \in 0 .. MaxFrames /\ generated \in 0 .. MaxPools
  /\ rpc \in [Readers -> {"off", "open", "map", "wait", "waiting", "lock", "reading", "sleep",
                          "done", "dead"}]
  /\ running \in [Readers -> BOOLEAN] /\ sized \in [Readers -> BOOLEAN]
  /\ rpool \in [Readers -> {NoPool} \cup Pools]
  /\ seen \in [Readers -> 0 .. SeqBound - 1]
  /\ tries \in [Readers -> 0 .. Iterations - 1]
  /\ rbuf \in [Readers -> Buffers \cup {Undefined}]
  /\ got \in [Readers -> 0 .. MaxFrames]

\* A frame stays as it was when OnBuffer got it until OnBuffer returns, and nobody
\* writes to it until the last reference is released, whoever dies, restarts or maps
\* anew.
StableWhileRead ==
  /\ \A r \in Readers : rpc[r] = "reading" =>
       LET c == content[rpool[r]][rbuf[r]] IN c.frame = got[r] /\ c.state \in {"whole", "broken"}
  /\ \A p \in Pools, b \in Buffers, r \in Readers : kept[p][b][r] > 0 =>
       content[p][b].state \in {"whole", "broken"}

\* Frames never go back: although the buffer may be refilled between the wake-up
\* and the lock, and its new frame be seen before it is announced, the next buffer
\* handed out is never an older frame, in this pool or after mapping another one.
NeverBackward == [][\A r \in Readers : got'[r] >= got[r]]_vars

\* A frame of this buffer is in use: OnBuffer has it, a consumer keeps it, or its
\* process died with it.
InUse(p, b) ==
  \E r \in Readers : \/ rpc[r] = "reading" /\ rpool[r] = p /\ rbuf[r] = b
                     \/ kept[p][b][r] > 0
                     \/ rpc[r] = "dead" /\ shared[p][b][r] > 0

\* A frame is dropped only because all buffers are in use: failures of serialize,
\* stops, new pools and frames that were locked twice leave no other lock behind.
WriterFindsBuffer ==
  wpc = "idle" => \A b \in Buffers : Lockable(b) \/ InUse(wpool, b)

\* Blocked for ever: somebody died inside the mutex of the pool this player uses.
Stuck(r) == rpool[r] # NoPool /\ mutex[rpool[r]] = "orphaned"

\* A player finds the pool of a publisher that started anew, or changed pools, by
\* itself, unless it was stopped, died or hangs in the mutex of the old pool.
Reattaches ==
  \A r \in Readers : []<>(\/ rpc[r] \in {"off", "done", "dead"} \/ Stuck(r)
                          \/ wpc # "idle" \/ rpool[r] = wpool)

\* stop joins the listening thread: it ends within its waits and sleeps, unless the
\* player hangs in the mutex of a pool where somebody died.
StopEnds ==
  \A r \in Readers : (rpc[r] # "off" /\ ~running[r]) ~> (rpc[r] \in {"done", "dead"} \/ Stuck(r))
=============================================================================
