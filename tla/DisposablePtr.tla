---------------------------- MODULE DisposablePtr ----------------------------
(***************************************************************************)
(* One reference-counted object (ref_count_base, disposable_base) and the  *)
(* disposable_ptrs that point to it (Include/utils/disposable_ptr.hpp).    *)
(* The release that takes the count to 0 destroys the object on its        *)
(* thread; the destructor tells every registered disposable_ptr to reset.  *)
(* lock() turns a weak pointer into a strong one by adding a reference and *)
(* looking at the count that add_ref returned.                             *)
(*                                                                         *)
(* The mutex of a disposable_ptr is explicit, because lock and operator=   *)
(* hold it over several steps; m_callbacks of the object is only locked    *)
(* inside single steps.  The model stops when the object is freed: the     *)
(* pointers are null from then on, or the next use of them is undefined.   *)
(* A thread makes a plain lock() only when it has no strong pointer.       *)
(***************************************************************************)
EXTENDS Naturals, FiniteSets

CONSTANTS
  Threads,
  Ptrs,      \* disposable_ptrs that may point to the object
  Owners,    \* threads that hold a strong reference at first
  Copies,    \* <<p, q>>: the program executes p = q
  None

ASSUME PtrAssumption ==
  /\ IsFiniteSet(Threads)
  /\ Owners \subseteq Threads /\ Owners # {}
  /\ Copies \subseteq Ptrs \X Ptrs
  /\ None \notin Threads \cup Ptrs

VARIABLES
  refs,        \* m_ref_count
  phase,       \* of the object: alive, dying (destructor entered), raising, freed
  deletes,     \* how often release() executed delete(this) (history)
  registered,  \* m_disposable_callback_handler.m_callbacks
  clone,       \* raise_callbacks' copy of it, not called yet
  ptr,         \* ptr[p]: m_ptr # nullptr
  held,        \* held[p]: the thread that holds p.m_mutex
  strong,      \* strong[t]: t holds a ref_count_ptr to the object
  at,          \* at[t]: where t is
  target,      \* target[t]: the disposable_ptr t locks
  dest,        \* dest[t]: the one t assigns, None in a plain lock()
  count,       \* count[t]: what add_ref returned
  refusedBy,   \* the pointer whose lock found the dying object without references (history)
  lentBy       \* the first one whose lock found it with some (history)

object == <<refs, phase, deletes>>
handler == <<registered, clone>>
threads == <<at, target, dest, count>>
history == <<refusedBy, lentBy>>
vars == <<object, handler, ptr, held, strong, threads, history>>

Phases == {"alive", "dying", "raising", "freed"}
Places == {"idle", "copy", "counted", "assign", "drop", "destroying"}

Init ==
  /\ refs = Cardinality(Owners)
  /\ phase = "alive"
  /\ deletes = 0
  /\ registered = {}
  /\ clone = {}
  /\ ptr = [p \in Ptrs |-> FALSE]
  /\ held = [p \in Ptrs |-> None]
  /\ strong = [t \in Threads |-> t \in Owners]
  /\ at = [t \in Threads |-> "idle"]
  /\ target = [t \in Threads |-> None]
  /\ dest = [t \in Threads |-> None]
  /\ count = [t \in Threads |-> 0]
  /\ refusedBy = None /\ lentBy = None

\* ref_count_base::release: the last reference deletes the object here.
ReleaseRef(t, then) ==
  /\ refs' = refs - 1
  /\ IF refs = 1
       THEN /\ deletes' = deletes + 1
            /\ phase' = "dying"
            /\ at' = [at EXCEPT ![t] = "destroying"]
       ELSE /\ at' = [at EXCEPT ![t] = then]
            /\ UNCHANGED <<deletes, phase>>
-----------------------------------------------------------------------------
\* Mutant: the copy of a strong pointer is not counted.
MutShareUncounted(t, u) ==
  /\ at[t] = "idle" /\ strong[t]
  /\ at[u] = "idle" /\ ~strong[u]
  /\ strong' = [strong EXCEPT ![u] = TRUE]
  /\ UNCHANGED <<object, handler, ptr, held, threads, history>>

\* A strong pointer is copied for another thread: add_ref.
Share(t, u) ==
  /\ at[t] = "idle" /\ strong[t]
  /\ at[u] = "idle" /\ ~strong[u]
  /\ refs' = refs + 1
  /\ strong' = [strong EXCEPT ![u] = TRUE]
  /\ UNCHANGED <<phase, deletes, handler, ptr, held, threads, history>>

\* The strong pointer of t goes out of scope.
Release(t) ==
  /\ at[t] = "idle" /\ strong[t]
  /\ strong' = [strong EXCEPT ![t] = FALSE]
  /\ ReleaseRef(t, "idle")
  /\ UNCHANGED <<handler, ptr, held, target, dest, count, history>>

\* p = raw pointer, by a thread that holds a strong one: clear, then register.
Assign(t, p) ==
  /\ at[t] = "idle" /\ strong[t]
  /\ held[p] = None
  /\ ptr' = [ptr EXCEPT ![p] = TRUE]
  /\ registered' = registered \cup {p}
  /\ UNCHANGED <<object, clone, held, strong, threads, history>>

\* clear(): unregister, then forget.
Clear(p) ==
  /\ ptr' = [ptr EXCEPT ![p] = FALSE]
  /\ registered' = IF ptr[p] THEN registered \ {p} ELSE registered

\* reset(), or the destructor of p.
Reset(t, p) ==
  /\ at[t] = "idle"
  /\ held[p] = None
  /\ Clear(p)
  /\ UNCHANGED <<object, clone, held, strong, threads, history>>

\* lock(), first half: take the mutex and add a reference.
AddRef(t, p) ==
  /\ held[p] = None
  /\ ptr[p]
  /\ held' = [held EXCEPT ![p] = t]
  /\ refs' = refs + 1
  /\ count' = [count EXCEPT ![t] = refs + 1]
  /\ at' = [at EXCEPT ![t] = "counted"]
  /\ target' = [target EXCEPT ![t] = p]
  /\ refusedBy' = IF phase # "alive" /\ refs = 0 THEN p ELSE refusedBy
  /\ lentBy' = IF phase # "alive" /\ refs > 0 /\ lentBy = None THEN p ELSE lentBy
  /\ UNCHANGED <<phase, deletes, handler, ptr, strong>>

Lock(t, p) ==
  /\ at[t] = "idle" /\ ~strong[t]
  /\ AddRef(t, p)
  /\ UNCHANGED dest

\* Mutant: the refused pointer is not cleared.
MutNotCleared(t) ==
  /\ at[t] = "counted" /\ dest[t] = None
  /\ held' = [held EXCEPT ![target[t]] = None]
  /\ at' = [at EXCEPT ![t] = "idle"]
  /\ strong' = [strong EXCEPT ![t] = count[t] >= 2]
  /\ UNCHANGED <<object, handler, ptr, target, dest, count, history>>

\* Mutant: the refused reference is given back with release().
MutGiveBack(t) ==
  /\ at[t] = "counted" /\ dest[t] = None
  /\ held' = [held EXCEPT ![target[t]] = None]
  /\ IF count[t] < 2
       THEN Clear(target[t]) /\ ReleaseRef(t, "idle") /\ UNCHANGED strong
       ELSE /\ strong' = [strong EXCEPT ![t] = TRUE]
            /\ at' = [at EXCEPT ![t] = "idle"]
            /\ UNCHANGED <<object, ptr, registered>>
  /\ UNCHANGED <<clone, target, dest, count, history>>

\* Mutant: the early return keeps the mutex.
MutKeepMutex(t) ==
  /\ at[t] = "counted" /\ dest[t] = None
  /\ at' = [at EXCEPT ![t] = "idle"]
  /\ held' = IF count[t] < 2 THEN held ELSE [held EXCEPT ![target[t]] = None]
  /\ strong' = [strong EXCEPT ![t] = count[t] >= 2]
  /\ UNCHANGED <<object, handler, ptr, target, dest, count, history>>

\* lock(), second half: a count below 2 means the destructor has begun; the
\* reference is not given back.
LockReturns(t) ==
  /\ at[t] = "counted" /\ dest[t] = None
  /\ held' = [held EXCEPT ![target[t]] = None]
  /\ at' = [at EXCEPT ![t] = "idle"]
  /\ IF count[t] < 2
       THEN Clear(target[t]) /\ UNCHANGED strong
       ELSE strong' = [strong EXCEPT ![t] = TRUE] /\ UNCHANGED <<ptr, registered>>
  /\ UNCHANGED <<object, clone, target, dest, count, history>>
-----------------------------------------------------------------------------
\* operator=(const disposable_ptr&): own mutex, clear() ...
CopyBegin(t, p, q) ==
  /\ at[t] = "idle"
  /\ held[p] = None
  /\ held' = [held EXCEPT ![p] = t]
  /\ Clear(p)
  /\ at' = [at EXCEPT ![t] = "copy"]
  /\ dest' = [dest EXCEPT ![t] = p]
  /\ target' = [target EXCEPT ![t] = q]
  /\ UNCHANGED <<object, clone, strong, count, history>>

\* ... other.lock(), under the other's mutex ...
CopyLock(t) ==
  /\ at[t] = "copy"
  /\ AddRef(t, target[t])
  /\ UNCHANGED dest

\* ... which finds nothing ...
CopyNothing(t) ==
  /\ at[t] = "copy"
  /\ held[target[t]] = None /\ ~ptr[target[t]]
  /\ held' = [held EXCEPT ![dest[t]] = None]
  /\ at' = [at EXCEPT ![t] = "idle"]
  /\ dest' = [dest EXCEPT ![t] = None]
  /\ UNCHANGED <<object, handler, ptr, strong, target, count, history>>

\* ... or a dying object ...
CopyRefused(t) ==
  /\ at[t] = "counted" /\ dest[t] # None
  /\ count[t] < 2
  /\ Clear(target[t])
  /\ held' = [held EXCEPT ![target[t]] = None, ![dest[t]] = None]
  /\ at' = [at EXCEPT ![t] = "idle"]
  /\ dest' = [dest EXCEPT ![t] = None]
  /\ UNCHANGED <<object, clone, strong, target, count, history>>

\* ... or hands out a strong pointer, with which p registers ...
CopyLocked(t) ==
  /\ at[t] = "counted" /\ dest[t] # None
  /\ count[t] >= 2
  /\ held' = [held EXCEPT ![target[t]] = None]
  /\ at' = [at EXCEPT ![t] = "assign"]
  /\ UNCHANGED <<object, handler, ptr, strong, target, dest, count, history>>

CopyAssign(t) ==
  /\ at[t] = "assign"
  /\ ptr' = [ptr EXCEPT ![dest[t]] = TRUE]
  /\ registered' = registered \cup {dest[t]}
  /\ at' = [at EXCEPT ![t] = "drop"]
  /\ UNCHANGED <<object, clone, held, strong, target, dest, count, history>>

\* ... and which is released before the lock_guard on p.m_mutex.
CopyDrop(t) ==
  /\ at[t] = "drop"
  /\ ReleaseRef(t, "idle")
  /\ IF refs = 1
       THEN UNCHANGED <<held, dest>>
       ELSE /\ held' = [held EXCEPT ![dest[t]] = None]
            /\ dest' = [dest EXCEPT ![t] = None]
  /\ UNCHANGED <<handler, ptr, strong, target, count, history>>
-----------------------------------------------------------------------------
\* ~disposable_base: raise_callbacks copies the callbacks ...
RaiseBegin(t) ==
  /\ at[t] = "destroying" /\ phase = "dying"
  /\ phase' = "raising"
  /\ clone' = registered
  /\ UNCHANGED <<refs, deletes, registered, ptr, held, strong, threads, history>>

\* Mutant: a pointer whose mutex is taken is not waited for.
MutRaiseSkips(t, p) ==
  /\ at[t] = "destroying" /\ phase = "raising"
  /\ p \in clone
  /\ clone' = clone \ {p}
  /\ IF held[p] = None THEN Clear(p) ELSE UNCHANGED <<ptr, registered>>
  /\ UNCHANGED <<object, held, strong, threads, history>>

\* ... and calls each: smart_disposable_callback -> reset().
Raise(t, p) ==
  /\ at[t] = "destroying" /\ phase = "raising"
  /\ p \in clone
  /\ held[p] = None
  /\ clone' = clone \ {p}
  /\ Clear(p)
  /\ UNCHANGED <<object, held, strong, threads, history>>

Free(t) ==
  /\ at[t] = "destroying" /\ phase = "raising"
  /\ clone = {}
  /\ phase' = "freed"
  /\ at' = [at EXCEPT ![t] = "idle"]
  /\ held' = [p \in Ptrs |-> IF p = dest[t] THEN None ELSE held[p]]
  /\ dest' = [dest EXCEPT ![t] = None]
  /\ UNCHANGED <<refs, deletes, handler, ptr, strong, target, count, history>>

ThreadStep(t) ==
  /\ phase # "freed"
  /\ \/ LockReturns(t)
     \/ CopyLock(t) \/ CopyNothing(t) \/ CopyRefused(t) \/ CopyLocked(t)
     \/ CopyAssign(t) \/ CopyDrop(t)
     \/ RaiseBegin(t) \/ Free(t)
     \/ \E p \in Ptrs : Raise(t, p)

\* What a thread may or may not begin.
Begin(t) ==
  /\ phase # "freed"
  /\ \/ Release(t)
     \/ \E u \in Threads : Share(t, u)
     \/ \E p \in Ptrs : Assign(t, p) \/ Reset(t, p) \/ Lock(t, p)
     \/ \E pq \in Copies : CopyBegin(t, pq[1], pq[2])

Next == \E t \in Threads : ThreadStep(t) \/ Begin(t)

Spec == Init /\ [][Next]_vars

\* A thread inside lock, operator= or the destructor is scheduled.
FairSpec == Spec /\ \A t \in Threads : WF_vars(ThreadStep(t))
-----------------------------------------------------------------------------
TypeOK ==
  /\ refs \in Nat /\ deletes \in Nat
  /\ phase \in Phases
  /\ registered \subseteq Ptrs /\ clone \subseteq Ptrs
  /\ ptr \in [Ptrs -> BOOLEAN]
  /\ held \in [Ptrs -> Threads \cup {None}]
  /\ strong \in [Threads -> BOOLEAN]
  /\ at \in [Threads -> Places]
  /\ target \in [Threads -> Ptrs \cup {None}]
  /\ dest \in [Threads -> Ptrs \cup {None}]
  /\ count \in [Threads -> Nat]
  /\ refusedBy \in Ptrs \cup {None} /\ lentBy \in Ptrs \cup {None}

\* However lock() and operator= add references to a dying object, release()
\* never deletes it a second time.
DeletedOnce == deletes <= 1

\* lock() hands out an object whose destructor has begun only after the lock of
\* another disposable_ptr was refused there, whose reference keeps the count
\* up. The refused pointer itself is cleared in time: "We have to clear in order
\* to handle cases where another thread is trying to lock".
StrongMeansAlive ==
  \A t \in Threads : strong[t] /\ phase # "alive" =>
    None \notin {refusedBy, lentBy} /\ lentBy # refusedBy

\* The destructor does not end before every disposable_ptr has forgotten the
\* object, whatever lock(), reset() and assignments run meanwhile, unless a
\* lock got hold of the dying object.
WeakNeverDangles == phase = "freed" /\ lentBy = None => \A p \in Ptrs : ~ptr[p]

\* t needs a mutex that u holds.
WaitsFor(t, u) ==
  \/ at[t] = "copy" /\ held[target[t]] = u
  \/ at[t] = "destroying" /\ phase = "raising" /\ \E p \in clone : held[p] = u

\* Threads inside operator= wait for each other, or for themselves.
CopiesDeadlocked ==
  \E S \in SUBSET {t \in Threads : dest[t] # None} \ {{}} :
    \A t \in S : \E u \in S : WaitsFor(t, u)

\* A destructor that was entered ends: lock() on a pointer whose mutex it waits for
\* ("it might be even blocked on our mutex") lets it go on. Only operator= can hang
\* it, which keeps its mutex while it locks the other pointer and while it releases
\* what may be the last reference. The promise ends with a lock that got hold of the
\* dying object, and for a program that assigns for ever, since a mutex is not fair.
DestructionEnds ==
  <>[][~ \E t \in Threads, pq \in Copies : CopyBegin(t, pq[1], pq[2])]_vars =>
    (phase = "dying" ~> phase = "freed" \/ lentBy # None \/ CopiesDeadlocked)

\* The references that are counted: strong pointers, and lock() calls that
\* have added theirs.
Strong == {t \in Threads : strong[t]}
InFlight == {t \in Threads : at[t] \in {"assign", "drop"} \/ (at[t] = "counted" /\ count[t] >= 2)}
Refused == {t \in Threads : at[t] = "counted" /\ count[t] < 2}

\* The count of a living object is exact; of a dying one it has lost at least
\* one reference, which is why no release reaches 0 again.
Counted ==
  /\ phase = "alive" =>
       /\ refs = Cardinality(Strong) + Cardinality(InFlight)
       /\ refs > 0 /\ deletes = 0 /\ Refused = {}
  /\ phase # "alive" =>
       /\ deletes = 1
       /\ refs >= Cardinality(Strong) + Cardinality(InFlight)
       /\ Strong \cup InFlight # {} => refs > Cardinality(Strong) + Cardinality(InFlight)

\* A plain lock() is made by a thread without a strong pointer; a thread in
\* lock() or operator= knows its pointers and holds their mutexes.
LockDiscipline ==
  \A t \in Threads :
    /\ at[t] = "counted" /\ dest[t] = None => ~strong[t]
    /\ at[t] \in {"copy", "assign", "drop"} => dest[t] # None
    /\ at[t] \in {"copy", "counted"} => target[t] # None
    /\ at[t] = "idle" => dest[t] = None

Mutexes ==
  \A t \in Threads :
    /\ dest[t] # None => held[dest[t]] = t
    /\ at[t] = "counted" => held[target[t]] = t /\ target[t] # dest[t]

\* The first lock on a dying object is refused and clears its pointer under the
\* mutex; until another pointer is locked, nobody has a reference.
FirstRefused ==
  /\ phase = "alive" => refusedBy = None
  /\ phase # "alive" /\ refusedBy = None => refs = 0
  /\ phase # "alive" /\ lentBy = None => Strong = {} /\ InFlight = {}
  /\ refusedBy # None => refs > 0
  /\ refusedBy = None => lentBy = None
  /\ lentBy # None => lentBy # refusedBy
  /\ \A t \in Refused : target[t] = refusedBy
  /\ refusedBy # None /\ lentBy = None /\ Refused = {} => ~ptr[refusedBy]

\* A pointer to the object is registered; while the destructor calls the
\* pointers and nobody got hold of the object, it is still to be called.
StillKnown ==
  /\ \A p \in Ptrs : ptr[p] => p \in registered
  /\ phase = "raising" /\ lentBy = None => \A p \in Ptrs : ptr[p] => p \in clone
  /\ WeakNeverDangles

WeakInv == Mutexes /\ FirstRefused /\ StillKnown
=============================================================================
