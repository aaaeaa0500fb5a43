------------------------- MODULE DisposablePtrProofs -------------------------
(***************************************************************************)
(* Proofs about DisposablePtr for any number of threads: an object is      *)
(* deleted once, however many disposable_ptrs point to it; lock() returns  *)
(* a dying object only after another pointer's lock was refused, and else  *)
(* the destructor leaves no pointer behind.                                *)
(***************************************************************************)
EXTENDS DisposablePtr, FiniteSetTheorems, TLAPS

IInv == TypeOK /\ LockDiscipline /\ Counted

\* Strong and InFlight are finite, so their cardinalities are numbers.
LEMMA FiniteRefs ==
  ASSUME NEW S \in SUBSET Threads
  PROVE  IsFiniteSet(S) /\ Cardinality(S) \in Nat /\ (S # {} => Cardinality(S) > 0)
<1>1. IsFiniteSet(S)
  BY PtrAssumption, FS_Subset
<1> QED  BY <1>1, FS_CardinalityType, FS_EmptySet

\* One more thread with a reference is one more reference.
LEMMA AddOne ==
  ASSUME NEW S \in SUBSET Threads, NEW t \in Threads, t \notin S
  PROVE  Cardinality(S \cup {t}) = Cardinality(S) + 1
BY FiniteRefs, FS_AddElement

\* One thread less with a reference is one reference less.
LEMMA DropOne ==
  ASSUME NEW S \in SUBSET Threads, NEW t \in S
  PROVE  Cardinality(S \ {t}) = Cardinality(S) - 1
BY FiniteRefs, FS_RemoveElement

\* A step that touches neither the count nor the references.
LEMMA FrameCounted ==
  ASSUME Counted, UNCHANGED <<refs, deletes>>, Strong' = Strong, InFlight' = InFlight,
         Refused' \subseteq Refused, phase' = "alive" <=> phase = "alive"
  PROVE  Counted'
BY DEF Counted

\* A reference leaves: the count of a living object drops to 0 only with the
\* last one, and a dying object keeps the one that lock() lost.
LEMMA ReleaseCounted ==
  ASSUME IInv, NEW t \in Threads,
         refs' = refs - 1,
         refs = 1 => deletes' = deletes + 1 /\ phase' = "dying",
         refs # 1 => deletes' = deletes /\ phase' = phase,
         \/ t \in Strong /\ Strong' = Strong \ {t} /\ InFlight' = InFlight
         \/ t \in InFlight /\ InFlight' = InFlight \ {t} /\ Strong' = Strong,
         Refused' = Refused
  PROVE  Counted' /\ refs' \in Nat /\ deletes' \in Nat /\ phase' \in Phases
<1> DEFINE n == Cardinality(Strong)
           m == Cardinality(InFlight)
<1>1. n \in Nat /\ m \in Nat /\ (Strong # {} => n > 0) /\ (InFlight # {} => m > 0)
  BY FiniteRefs DEF Strong, InFlight
<1>2. Cardinality(Strong') + Cardinality(InFlight') = n + m - 1 /\ n + m > 0
  <2>1. Strong \in SUBSET Threads /\ InFlight \in SUBSET Threads
    BY DEF Strong, InFlight
  <2>2. CASE t \in Strong /\ Strong' = Strong \ {t} /\ InFlight' = InFlight
    <3>1. Cardinality(Strong \ {t}) = n - 1 /\ n > 0
      BY <1>1, <2>1, <2>2, DropOne
    <3> QED  BY <1>1, <2>2, <3>1
  <2>3. CASE t \in InFlight /\ InFlight' = InFlight \ {t} /\ Strong' = Strong
    <3>1. Cardinality(InFlight \ {t}) = m - 1 /\ m > 0
      BY <1>1, <2>1, <2>3, DropOne
    <3> QED  BY <1>1, <2>3, <3>1
  <2> QED  BY <2>2, <2>3
<1>3. refs \in Nat /\ deletes \in Nat /\ phase \in Phases
  BY DEF IInv, TypeOK
<1>4. CASE phase = "alive"
  <2>1. refs = n + m /\ refs > 0 /\ deletes = 0 /\ Refused = {}
    BY <1>4 DEF IInv, Counted
  <2>2. CASE refs = 1
    <3>1. Strong' = {} /\ InFlight' = {}
      <4>1. Strong' \in SUBSET Threads /\ InFlight' \in SUBSET Threads
        BY DEF Strong, InFlight
      <4>2. Cardinality(Strong') \in Nat /\ Cardinality(InFlight') \in Nat
        BY <4>1, FiniteRefs
      <4>3. Cardinality(Strong') = 0 /\ Cardinality(InFlight') = 0
        BY <1>1, <1>2, <2>1, <2>2, <4>2
      <4> QED  BY <4>1, <4>3, FiniteRefs
    <3>2. refs' = 0 /\ deletes' = 1 /\ phase' = "dying"
      BY <2>1, <2>2
    <3>3. Cardinality(Strong') + Cardinality(InFlight') = 0
      BY <1>1, <1>2, <2>1, <2>2
    <3> QED  BY <3>1, <3>2, <3>3 DEF Counted, Phases
  <2>3. CASE refs # 1
    <3>1. refs' = n + m - 1 /\ refs' > 0
      BY <1>1, <2>1, <2>3
    <3>2. deletes' = 0 /\ phase' = "alive" /\ Refused' = {}
      BY <1>4, <2>1, <2>3
    <3> QED  BY <1>1, <1>2, <3>1, <3>2 DEF Counted, Phases
  <2> QED  BY <2>2, <2>3
<1>5. CASE phase # "alive"
  <2>1. Strong \cup InFlight # {}
    OBVIOUS
  <2>2. refs > n + m /\ deletes = 1
    BY <1>5, <2>1 DEF IInv, Counted
  <2>3. refs # 1
    BY <1>1, <1>2, <1>3, <2>2
  <2>4. refs' > n + m - 1 /\ deletes' = 1 /\ phase' = phase
    BY <1>1, <1>3, <2>2, <2>3
  <2>5. refs' > Cardinality(Strong') + Cardinality(InFlight')
    BY <1>2, <2>4
  <2> QED  BY <1>1, <1>2, <1>3, <1>5, <2>4, <2>5 DEF Counted
<1> QED  BY <1>4, <1>5

\* A reference arrives: the first one a dying object gets is refused, the
\* later ones are counted on top of it.
LEMMA AddCounted ==
  ASSUME IInv, NEW t \in Threads,
         refs' = refs + 1, UNCHANGED <<phase, deletes>>,
         \/ /\ Strong # {} /\ t \notin Strong
            /\ Strong' = Strong \cup {t} /\ InFlight' = InFlight /\ Refused' = Refused
         \/ /\ refs > 0 /\ t \notin InFlight
            /\ InFlight' = InFlight \cup {t} /\ Strong' = Strong /\ Refused' = Refused
         \/ refs = 0 /\ InFlight' = InFlight /\ Strong' = Strong
  PROVE  Counted'
<1> DEFINE n == Cardinality(Strong)
           m == Cardinality(InFlight)
<1>1. /\ n \in Nat /\ m \in Nat
      /\ Strong \in SUBSET Threads /\ InFlight \in SUBSET Threads
  BY FiniteRefs DEF Strong, InFlight
<1>2. refs \in Nat
  BY DEF IInv, TypeOK
<1>3. CASE refs = 0
  <2>1. phase # "alive" /\ deletes = 1 /\ refs >= n + m /\ (Strong \cup InFlight # {} => refs > n + m)
    BY <1>3 DEF IInv, Counted
  <2>2. Strong = {} /\ InFlight = {} /\ n + m = 0
    BY <1>1, <1>3, <2>1
  <2>3. Strong' = {} /\ InFlight' = {}
    BY <1>3, <2>2
  <2>4. Cardinality(Strong') + Cardinality(InFlight') = 0
    BY <2>3, FS_EmptySet
  <2> QED  BY <1>3, <2>1, <2>3, <2>4 DEF Counted
<1>4. CASE refs > 0
  <2>1. Cardinality(Strong') + Cardinality(InFlight') = n + m + 1 /\ Refused' = Refused
    <3>1. CASE t \notin Strong /\ Strong' = Strong \cup {t} /\ InFlight' = InFlight /\ Refused' = Refused
      <4>1. Cardinality(Strong \cup {t}) = n + 1
        BY <1>1, <3>1, AddOne
      <4> QED  BY <1>1, <3>1, <4>1
    <3>2. CASE t \notin InFlight /\ InFlight' = InFlight \cup {t} /\ Strong' = Strong /\ Refused' = Refused
      <4>1. Cardinality(InFlight \cup {t}) = m + 1
        BY <1>1, <3>2, AddOne
      <4> QED  BY <1>1, <3>2, <4>1
    <3> QED  BY <1>4, <3>1, <3>2
  <2>2. CASE phase = "alive"
    <3>1. refs = n + m /\ deletes = 0 /\ Refused = {}
      BY <2>2 DEF IInv, Counted
    <3> QED  BY <1>1, <1>2, <1>4, <2>1, <2>2, <3>1 DEF Counted
  <2>3. CASE phase # "alive"
    <3>1. deletes = 1 /\ refs >= n + m /\ (Strong \cup InFlight # {} => refs > n + m)
      BY <2>3 DEF IInv, Counted
    <3>2. refs > n + m
      <4>1. CASE Strong \cup InFlight # {}
        BY <3>1, <4>1
      <4>2. CASE Strong \cup InFlight = {}
        <5>1. n = 0 /\ m = 0
          BY <4>2, FS_EmptySet
        <5> QED  BY <1>4, <5>1
      <4> QED  BY <4>1, <4>2
    <3>3. refs' > Cardinality(Strong') + Cardinality(InFlight')
      BY <1>1, <1>2, <2>1, <3>2
    <3>4. Cardinality(Strong') + Cardinality(InFlight') \in Nat
      BY <1>1, <2>1
    <3> QED  BY <1>2, <2>3, <3>1, <3>3, <3>4 DEF Counted
  <2> QED  BY <2>2, <2>3
<1> QED  BY <1>2, <1>3, <1>4

\* A lock() that returns turns the reference in flight into a strong pointer.
LEMMA MoveCounted ==
  ASSUME IInv, NEW t \in Threads, t \in InFlight, t \notin Strong,
         UNCHANGED <<refs, phase, deletes>>, Refused' = Refused,
         Strong' = Strong \cup {t}, InFlight' = InFlight \ {t}
  PROVE  Counted'
<1> DEFINE n == Cardinality(Strong)
           m == Cardinality(InFlight)
<1>1. /\ n \in Nat /\ m \in Nat
      /\ Strong \in SUBSET Threads /\ InFlight \in SUBSET Threads
  BY FiniteRefs DEF Strong, InFlight
<1>2. Cardinality(Strong \cup {t}) = n + 1 /\ Cardinality(InFlight \ {t}) = m - 1
  BY <1>1, AddOne, DropOne
<1>3. Cardinality(Strong') + Cardinality(InFlight') = n + m
  BY <1>1, <1>2
<1>4. Strong \cup InFlight # {} /\ Strong' \cup InFlight' # {}
  OBVIOUS
<1> QED  BY <1>3, <1>4 DEF IInv, Counted

\* The invariant of the reference count, for any number of pointers.
THEOREM CountInvariant == Spec => []IInv
<1>1. Init => IInv
  <2> SUFFICES ASSUME Init PROVE IInv
    OBVIOUS
  <2>1. Cardinality(Owners) \in Nat /\ Cardinality(Owners) > 0
    BY PtrAssumption, FiniteRefs
  <2>2. TypeOK /\ LockDiscipline
    BY <2>1, PtrAssumption DEF Init, TypeOK, LockDiscipline, Phases, Places
  <2>3. Strong = Owners /\ InFlight = {} /\ Refused = {}
    BY PtrAssumption DEF Init, Strong, InFlight, Refused
  <2>4. Counted
    BY <2>1, <2>3, FS_EmptySet DEF Init, Counted
  <2> QED  BY <2>2, <2>4 DEF IInv
<1>2. IInv /\ [Next]_vars => IInv'
  <2> SUFFICES ASSUME IInv, [Next]_vars PROVE IInv'
    OBVIOUS
  <2> USE DEF object, handler, threads, history
  <2>a. TypeOK /\ LockDiscipline /\ Counted
    BY DEF IInv
  <2>b. /\ refs \in Nat /\ strong \in [Threads -> BOOLEAN] /\ at \in [Threads -> Places]
        /\ count \in [Threads -> Nat]
    BY <2>a DEF TypeOK
  <2>1. ASSUME NEW t \in Threads, NEW u \in Threads, Share(t, u) PROVE IInv'
    <3>1. TypeOK'
      BY <2>1, <2>a DEF Share, TypeOK
    <3>2. LockDiscipline'
      BY <2>1, <2>a, <2>b DEF Share, LockDiscipline
    <3>3. Strong' = Strong \cup {u} /\ Strong # {} /\ u \notin Strong /\ InFlight' = InFlight /\ Refused' = Refused
      BY <2>1, <2>b DEF Share, Strong, InFlight, Refused
    <3>4. Counted'
      BY <2>1, <3>3, AddCounted DEF Share
    <3> QED  BY <3>1, <3>2, <3>4 DEF IInv
  <2>2. ASSUME NEW t \in Threads, Release(t) PROVE IInv'
    <3>1. LockDiscipline'
      BY <2>2, <2>a, <2>b DEF Release, ReleaseRef, LockDiscipline
    <3>2. Strong' = Strong \ {t} /\ t \in Strong /\ InFlight' = InFlight /\ Refused' = Refused
      BY <2>2, <2>b DEF Release, ReleaseRef, Strong, InFlight, Refused
    <3>3. Counted' /\ refs' \in Nat /\ deletes' \in Nat /\ phase' \in Phases
      BY <2>2, <3>2, ReleaseCounted DEF Release, ReleaseRef
    <3>4. TypeOK'
      BY <2>2, <2>a, <3>3 DEF Release, ReleaseRef, TypeOK, Places
    <3> QED  BY <3>1, <3>3, <3>4 DEF IInv
  <2>3. ASSUME NEW t \in Threads, NEW p \in Ptrs, Assign(t, p) \/ Reset(t, p) \/ Raise(t, p) PROVE IInv'
    <3>1. TypeOK'
      BY <2>3, <2>a DEF Assign, Reset, Raise, Clear, TypeOK
    <3>2. LockDiscipline' /\ UNCHANGED <<refs, phase, deletes, Strong, InFlight, Refused>>
      BY <2>3, <2>a DEF Assign, Reset, Raise, LockDiscipline, Strong, InFlight, Refused
    <3>3. Counted'
      BY <2>a, <3>2, FrameCounted
    <3> QED  BY <3>1, <3>2, <3>3 DEF IInv
  <2>4. ASSUME NEW t \in Threads, NEW p \in Ptrs, AddRef(t, p), at[t] \in {"idle", "copy"},
               dest' = dest, at[t] = "idle" => ~strong[t], at[t] = "copy" => dest[t] # None
        PROVE IInv'
    <3>1. TypeOK'
      BY <2>4, <2>a DEF AddRef, TypeOK, Places
    <3>2. LockDiscipline'
      BY <2>4, <2>a, <2>b, PtrAssumption DEF AddRef, LockDiscipline, TypeOK
    <3>3. Strong' = Strong /\ t \notin InFlight /\ refs' = refs + 1 /\ UNCHANGED <<phase, deletes>>
      BY <2>4 DEF AddRef, Strong, InFlight
    <3>4. refs > 0 => InFlight' = InFlight \cup {t} /\ Refused' = Refused
      <4> SUFFICES ASSUME refs > 0 PROVE InFlight' = InFlight \cup {t} /\ Refused' = Refused
        OBVIOUS
      <4>1. at' = [at EXCEPT ![t] = "counted"] /\ count' = [count EXCEPT ![t] = refs + 1] /\ refs + 1 >= 2
        BY <2>4, <2>b DEF AddRef
      <4>2. at'[t] = "counted" /\ count'[t] >= 2 /\ \A u \in Threads \ {t} : at'[u] = at[u] /\ count'[u] = count[u]
        BY <4>1, <2>b
      <4>3. InFlight' = InFlight \cup {t}
        BY <2>4, <2>b, <4>2 DEF InFlight
      <4>4. ASSUME NEW u \in Threads PROVE u \in Refused' <=> u \in Refused
        <5>1. CASE u = t
          BY <2>4, <2>b, <4>1, <4>2, <5>1 DEF Refused
        <5>2. CASE u # t
          BY <4>2, <5>2 DEF Refused
        <5> QED  BY <5>1, <5>2
      <4> QED  BY <4>3, <4>4 DEF Refused
    <3>5. refs = 0 => InFlight' = InFlight
      <4> SUFFICES ASSUME refs = 0 PROVE InFlight' = InFlight
        OBVIOUS
      <4>1. at' = [at EXCEPT ![t] = "counted"] /\ count' = [count EXCEPT ![t] = 1]
        BY <2>4, <2>b DEF AddRef
      <4>2. at'[t] = "counted" /\ count'[t] = 1 /\ \A u \in Threads \ {t} : at'[u] = at[u] /\ count'[u] = count[u]
        BY <4>1, <2>b
      <4> QED  BY <2>4, <4>2 DEF InFlight
    <3>6. Counted'
      BY <2>b, <3>3, <3>4, <3>5, AddCounted
    <3> QED  BY <3>1, <3>2, <3>6 DEF IInv
  <2>5. ASSUME NEW t \in Threads, LockReturns(t) PROVE IInv'
    <3>1. TypeOK'
      BY <2>5, <2>a, PtrAssumption DEF LockReturns, Clear, TypeOK, Places
    <3>2. LockDiscipline'
      BY <2>5, <2>a, <2>b DEF LockReturns, LockDiscipline
    <3>3. CASE count[t] < 2
      <4>1. Strong' = Strong /\ InFlight' = InFlight /\ Refused' \subseteq Refused
        BY <2>5, <2>b, <3>3 DEF LockReturns, Strong, InFlight, Refused
      <4>2. Counted'
        BY <2>5, <2>a, <4>1, FrameCounted DEF LockReturns
      <4> QED  BY <3>1, <3>2, <4>2 DEF IInv
    <3>4. CASE ~(count[t] < 2)
      <4>1. t \in InFlight /\ t \notin Strong
        BY <2>5, <2>a, <2>b, <3>4 DEF LockReturns, InFlight, Strong, LockDiscipline
      <4>2. at' = [at EXCEPT ![t] = "idle"] /\ strong' = [strong EXCEPT ![t] = TRUE] /\ count' = count
        BY <2>5, <3>4 DEF LockReturns
      <4>3. Strong' = Strong \cup {t} /\ InFlight' = InFlight \ {t} /\ Refused' = Refused
        BY <2>b, <3>4, <4>2 DEF Strong, InFlight, Refused
      <4>4. Counted'
        BY <2>5, <4>1, <4>3, MoveCounted DEF LockReturns
      <4> QED  BY <3>1, <3>2, <4>4 DEF IInv
    <3> QED  BY <3>3, <3>4
  <2>6. ASSUME NEW t \in Threads, NEW p \in Ptrs, NEW q \in Ptrs, CopyBegin(t, p, q) PROVE IInv'
    <3>1. TypeOK'
      BY <2>6, <2>a DEF CopyBegin, Clear, TypeOK, Places
    <3>2. LockDiscipline'
      BY <2>6, <2>a, <2>b, PtrAssumption DEF CopyBegin, LockDiscipline, TypeOK
    <3>3. UNCHANGED <<refs, phase, deletes, Strong, InFlight, Refused>>
      BY <2>6, <2>b DEF CopyBegin, Strong, InFlight, Refused
    <3> QED  BY <2>a, <3>1, <3>2, <3>3, FrameCounted DEF IInv
  <2>7. ASSUME NEW t \in Threads, CopyNothing(t) \/ CopyRefused(t) PROVE IInv'
    <3>1. TypeOK'
      <4>1. CASE CopyNothing(t)
        BY <4>1, <2>a DEF CopyNothing, TypeOK, Places
      <4>2. CASE CopyRefused(t)
        <5>1. ptr' \in [Ptrs -> BOOLEAN] /\ registered' \subseteq Ptrs
          BY <4>2, <2>a DEF CopyRefused, Clear, TypeOK
        <5>2. held' \in [Ptrs -> Threads \cup {None}]
          BY <4>2, <2>a DEF CopyRefused, TypeOK
        <5> QED  BY <4>2, <2>a, <5>1, <5>2 DEF CopyRefused, TypeOK, Places
      <4> QED  BY <2>7, <4>1, <4>2
    <3>2. LockDiscipline'
      BY <2>7, <2>a, <2>b DEF CopyNothing, CopyRefused, LockDiscipline, TypeOK
    <3>3. UNCHANGED <<refs, phase, deletes, Strong, InFlight>> /\ Refused' \subseteq Refused
      BY <2>7, <2>b DEF CopyNothing, CopyRefused, Strong, InFlight, Refused
    <3> QED  BY <2>a, <3>1, <3>2, <3>3, FrameCounted DEF IInv
  <2>8. ASSUME NEW t \in Threads, CopyLocked(t) \/ CopyAssign(t) PROVE IInv'
    <3>1. TypeOK'
      <4>1. CopyAssign(t) => dest[t] \in Ptrs
        BY <2>a DEF CopyAssign, TypeOK, LockDiscipline
      <4> QED  BY <2>8, <2>a, <4>1 DEF CopyLocked, CopyAssign, TypeOK, Places
    <3>2. LockDiscipline'
      BY <2>8, <2>a, <2>b DEF CopyLocked, CopyAssign, LockDiscipline
    <3>3. UNCHANGED <<refs, phase, deletes, Strong, InFlight>> /\ Refused' \subseteq Refused
      BY <2>8, <2>b DEF CopyLocked, CopyAssign, Strong, InFlight, Refused
    <3> QED  BY <2>a, <3>1, <3>2, <3>3, FrameCounted DEF IInv
  <2>9. ASSUME NEW t \in Threads, CopyDrop(t) PROVE IInv'
    <3>1. LockDiscipline'
      BY <2>9, <2>a, <2>b DEF CopyDrop, ReleaseRef, LockDiscipline, TypeOK
    <3>2. InFlight' = InFlight \ {t} /\ t \in InFlight /\ Strong' = Strong /\ Refused' = Refused
      BY <2>9, <2>b DEF CopyDrop, ReleaseRef, Strong, InFlight, Refused
    <3>3. Counted' /\ refs' \in Nat /\ deletes' \in Nat /\ phase' \in Phases
      BY <2>9, <3>2, ReleaseCounted DEF CopyDrop, ReleaseRef
    <3>4. TypeOK'
      BY <2>9, <2>a, <3>3 DEF CopyDrop, ReleaseRef, TypeOK, Places
    <3> QED  BY <3>1, <3>3, <3>4 DEF IInv
  <2>10. ASSUME NEW t \in Threads, RaiseBegin(t) \/ Free(t) PROVE IInv'
    <3>1. TypeOK'
      BY <2>10, <2>a DEF RaiseBegin, Free, TypeOK, Phases, Places
    <3>2. LockDiscipline'
      BY <2>10, <2>a, <2>b DEF RaiseBegin, Free, LockDiscipline, TypeOK
    <3>3. UNCHANGED <<refs, deletes, Strong, InFlight, Refused>>
      BY <2>10, <2>b DEF RaiseBegin, Free, Strong, InFlight, Refused
    <3>4. phase # "alive" /\ phase' # "alive"
      BY <2>10 DEF RaiseBegin, Free
    <3> QED  BY <2>a, <3>1, <3>2, <3>3, <3>4, FrameCounted DEF IInv
  <2>11. CASE UNCHANGED vars
    <3>1. TypeOK' /\ LockDiscipline' /\ UNCHANGED <<refs, phase, deletes, Strong, InFlight, Refused>>
      BY <2>11, <2>a DEF vars, TypeOK, LockDiscipline, Strong, InFlight, Refused
    <3> QED  BY <2>a, <3>1, FrameCounted DEF IInv
  <2>12. ASSUME NEW t \in Threads, CopyLock(t) PROVE IInv'
    <3>1. target[t] \in Ptrs /\ dest[t] # None
      BY <2>12, <2>a DEF CopyLock, LockDiscipline, TypeOK
    <3> QED  BY <2>4, <2>12, <3>1 DEF CopyLock
  <2>13. ASSUME NEW t \in Threads, NEW p \in Ptrs, Lock(t, p) PROVE IInv'
    BY <2>4, <2>13 DEF Lock
  <2>14. ASSUME NEW t \in Threads, NEW pq \in Copies, CopyBegin(t, pq[1], pq[2]) PROVE IInv'
    BY <2>6, <2>14, PtrAssumption
  <2> QED
    BY <2>1, <2>2, <2>3, <2>5, <2>7, <2>8, <2>9, <2>10, <2>11, <2>12, <2>13, <2>14
       DEF Next, ThreadStep, Begin
<1> QED
  BY <1>1, <1>2, PTL DEF Spec

\* The type invariant, a part of the invariant of the count: ref_count_base's
\* counter never becomes negative.
THEOREM TypeCorrect == Spec => []TypeOK
<1>1. IInv => TypeOK
  BY DEF IInv
<1> QED
  BY <1>1, CountInvariant, PTL

\* However many disposable_ptrs lock a dying object, it is deleted once.
THEOREM NeverDeletedTwice == Spec => []DeletedOnce
<1>1. IInv => DeletedOnce
  BY DEF IInv, Counted, DeletedOnce
<1> QED
  BY <1>1, CountInvariant, PTL

-----------------------------------------------------------------------------
(* What a lock on a dying object can do.                                   *)

\* A thread inside lock() or operator= holds the mutexes of its pointers.
LEMMA MutexesKept ==
  ASSUME IInv, Mutexes, [Next]_vars
  PROVE  Mutexes'
<1> USE DEF object, handler, threads, history
<1>a. TypeOK /\ LockDiscipline
  BY DEF IInv
<1>b. /\ at \in [Threads -> Places] /\ held \in [Ptrs -> Threads \cup {None}]
      /\ target \in [Threads -> Ptrs \cup {None}] /\ dest \in [Threads -> Ptrs \cup {None}]
      /\ None \notin Threads \cup Ptrs
  BY <1>a, PtrAssumption DEF TypeOK
<1>c. \A t \in Threads : /\ dest[t] # None => dest[t] \in Ptrs
                         /\ at[t] \in {"copy", "counted"} => target[t] \in Ptrs
                         /\ at[t] \in {"copy", "assign", "drop"} => dest[t] \in Ptrs
                         /\ at[t] = "idle" => dest[t] = None
  BY <1>a, <1>b DEF LockDiscipline
<1>1. ASSUME NEW t \in Threads, NEW u \in Threads, Share(t, u) PROVE Mutexes'
  BY <1>1 DEF Share, Mutexes
<1>2. ASSUME NEW t \in Threads, Release(t) PROVE Mutexes'
  BY <1>2, <1>b DEF Release, ReleaseRef, Mutexes
<1>3. ASSUME NEW t \in Threads, NEW p \in Ptrs, Assign(t, p) \/ Reset(t, p) \/ Raise(t, p) PROVE Mutexes'
  BY <1>3 DEF Assign, Reset, Raise, Mutexes
<1>4. ASSUME NEW t \in Threads, NEW p \in Ptrs, AddRef(t, p), dest' = dest, at[t] \in {"idle", "copy"} PROVE Mutexes'
  BY <1>4, <1>b, <1>c DEF AddRef, Mutexes
<1>5. ASSUME NEW t \in Threads, LockReturns(t) PROVE Mutexes'
  BY <1>5, <1>b, <1>c DEF LockReturns, Mutexes
<1>6. ASSUME NEW t \in Threads, NEW p \in Ptrs, NEW q \in Ptrs, CopyBegin(t, p, q) PROVE Mutexes'
  BY <1>6, <1>b, <1>c DEF CopyBegin, Mutexes
<1>7. ASSUME NEW t \in Threads, CopyNothing(t) PROVE Mutexes'
  BY <1>7, <1>b, <1>c DEF CopyNothing, Mutexes
<1>8. ASSUME NEW t \in Threads, CopyRefused(t) PROVE Mutexes'
  BY <1>8, <1>b, <1>c DEF CopyRefused, Mutexes
<1>9. ASSUME NEW t \in Threads, CopyLocked(t) PROVE Mutexes'
  BY <1>9, <1>b, <1>c DEF CopyLocked, Mutexes
<1>10. ASSUME NEW t \in Threads, CopyAssign(t) PROVE Mutexes'
  BY <1>10, <1>b, <1>c DEF CopyAssign, Mutexes
<1>11. ASSUME NEW t \in Threads, CopyDrop(t) PROVE Mutexes'
  BY <1>11, <1>b, <1>c DEF CopyDrop, ReleaseRef, Mutexes
<1>12. ASSUME NEW t \in Threads, RaiseBegin(t) PROVE Mutexes'
  BY <1>12 DEF RaiseBegin, Mutexes
<1>13. ASSUME NEW t \in Threads, Free(t) PROVE Mutexes'
  BY <1>13, <1>b, <1>c DEF Free, Mutexes
<1>14. CASE UNCHANGED vars
  BY <1>14 DEF vars, Mutexes
<1>15. ASSUME NEW t \in Threads, CopyLock(t) PROVE Mutexes'
  BY <1>4, <1>15, <1>c DEF CopyLock
<1>16. ASSUME NEW t \in Threads, NEW p \in Ptrs, Lock(t, p) PROVE Mutexes'
  BY <1>4, <1>16 DEF Lock
<1>17. ASSUME NEW t \in Threads, NEW pq \in Copies, CopyBegin(t, pq[1], pq[2]) PROVE Mutexes'
  BY <1>6, <1>17, PtrAssumption
<1> QED
  BY <1>1, <1>2, <1>3, <1>5, <1>7, <1>8, <1>9, <1>10, <1>11, <1>12, <1>13, <1>14, <1>15, <1>16, <1>17
     DEF Next, ThreadStep, Begin

\* Whoever releases a reference of a dying object leaves one behind.
LEMMA ReleaseLeaves ==
  ASSUME IInv, NEW t \in Strong \cup InFlight
  PROVE  (phase # "alive" => refs > 1) /\ refs > 0
<1>1. Strong \in SUBSET Threads /\ InFlight \in SUBSET Threads
  BY DEF Strong, InFlight
<1>2. Cardinality(Strong) + Cardinality(InFlight) > 0
  BY <1>1, FiniteRefs
<1> QED  BY <1>1, <1>2, FiniteRefs DEF IInv, Counted, TypeOK

\* With the last reference of a living object goes the last who has one.
LEMMA LastLeaves ==
  ASSUME IInv, phase = "alive", refs = 1, NEW t \in Strong \cup InFlight
  PROVE  /\ t \in Strong => Strong = {t} /\ InFlight = {}
         /\ t \in InFlight => InFlight = {t} /\ Strong = {}
<1>1. Strong \in SUBSET Threads /\ InFlight \in SUBSET Threads
  BY DEF Strong, InFlight
<1>2. Cardinality(Strong) + Cardinality(InFlight) = 1
  BY DEF IInv, Counted
<1>3. CASE t \in Strong
  <2>1. Cardinality(Strong \ {t}) = Cardinality(Strong) - 1
    BY <1>1, <1>3, DropOne
  <2>2. Cardinality(Strong) = 1 /\ Cardinality(InFlight) = 0
    BY <1>1, <1>2, <1>3, FiniteRefs
  <2>3. Strong \ {t} = {} /\ InFlight = {}
    BY <1>1, <2>1, <2>2, FiniteRefs
  <2>4. t \notin InFlight
    BY <2>3
  <2> QED  BY <1>3, <2>3, <2>4
<1>4. CASE t \in InFlight
  <2>1. Cardinality(InFlight \ {t}) = Cardinality(InFlight) - 1
    BY <1>1, <1>4, DropOne
  <2>2. Cardinality(InFlight) = 1 /\ Cardinality(Strong) = 0
    BY <1>1, <1>2, <1>4, FiniteRefs
  <2>3. InFlight \ {t} = {} /\ Strong = {}
    BY <1>1, <2>1, <2>2, FiniteRefs
  <2>4. t \notin Strong
    BY <2>3
  <2> QED  BY <1>4, <2>3, <2>4
<1> QED  BY <1>3, <1>4

\* A step after which nobody has a reference who had none, and which locks nothing.
LEMMA FrameRefused ==
  ASSUME FirstRefused, UNCHANGED <<refs, refusedBy, lentBy, target>>, phase' = "alive" <=> phase = "alive",
         Strong \cup InFlight = {} => Strong' \cup InFlight' = {},
         Refused' \subseteq Refused,
         \A p \in Ptrs : p = refusedBy /\ ptr'[p] => ptr[p] /\ Refused' = Refused,
         refusedBy \in Ptrs \cup {None}
  PROVE  FirstRefused'
BY DEF FirstRefused

\* A reference is released.
LEMMA ReleaseRefused ==
  ASSUME IInv, FirstRefused, NEW t \in Strong \cup InFlight, NEW then, ReleaseRef(t, then),
         UNCHANGED <<refusedBy, lentBy, target, ptr>>, Refused' = Refused,
         \/ t \in Strong /\ Strong' = Strong \ {t} /\ InFlight' = InFlight
         \/ t \in InFlight /\ InFlight' = InFlight \ {t} /\ Strong' = Strong
  PROVE  FirstRefused'
<1>1. /\ refs \in Nat /\ (phase # "alive" => refs > 1) /\ refs > 0 /\ refs' = refs - 1
      /\ phase' = IF refs = 1 THEN "dying" ELSE phase
  BY ReleaseLeaves DEF IInv, TypeOK, ReleaseRef
<1>2. CASE phase = "alive" /\ refs = 1
  <2>1. Strong' = {} /\ InFlight' = {} /\ refs' = 0
    BY <1>1, <1>2, LastLeaves
  <2>2. Refused = {} /\ refusedBy = None /\ lentBy = None
    BY <1>2 DEF IInv, Counted, FirstRefused
  <2> QED  BY <1>1, <1>2, <2>1, <2>2 DEF FirstRefused
<1>3. CASE phase = "alive" /\ refs # 1
  <2>1. Refused = {} /\ refusedBy = None /\ lentBy = None /\ phase' = "alive"
    BY <1>1, <1>3 DEF IInv, Counted, FirstRefused
  <2> QED  BY <2>1 DEF FirstRefused
<1>4. CASE phase # "alive"
  <2>1. lentBy # None /\ refusedBy # None /\ phase' # "alive" /\ refs' > 0
    BY <1>1, <1>4 DEF FirstRefused
  <2> QED  BY <1>4, <2>1 DEF FirstRefused
<1> QED  BY <1>2, <1>3, <1>4

\* add_ref on a dying object: the first is refused, and the pointer it was made through cannot
\* be locked again, because it is cleared before its mutex is released.
LEMMA AddRefRefused ==
  ASSUME IInv, Mutexes, FirstRefused, NEW t \in Threads, NEW p \in Ptrs, AddRef(t, p),
         at[t] \in {"idle", "copy"}
  PROVE  FirstRefused'
<1>1. /\ TypeOK /\ LockDiscipline /\ Counted
  BY DEF IInv
<1>2. /\ refs \in Nat /\ at \in [Threads -> Places] /\ count \in [Threads -> Nat]
      /\ target \in [Threads -> Ptrs \cup {None}] /\ None \notin Threads \cup Ptrs
  BY <1>1, PtrAssumption DEF TypeOK
<1>3. /\ refs' = refs + 1 /\ UNCHANGED <<phase, strong, ptr>>
      /\ count' = [count EXCEPT ![t] = refs + 1] /\ at' = [at EXCEPT ![t] = "counted"]
      /\ target' = [target EXCEPT ![t] = p] /\ held[p] = None /\ ptr[p]
      /\ refusedBy' = IF phase # "alive" /\ refs = 0 THEN p ELSE refusedBy
      /\ lentBy' = IF phase # "alive" /\ refs > 0 /\ lentBy = None THEN p ELSE lentBy
  BY DEF AddRef
<1>4. Strong' = Strong /\ t \notin Refused
  BY <1>3 DEF Strong, Refused
<1>5. \A u \in Refused : target[u] \in Ptrs /\ target[u] = refusedBy /\ held[target[u]] = u
  BY <1>1, <1>2 DEF Refused, LockDiscipline, Mutexes, FirstRefused
<1>6. CASE refs > 0
  <2>1. Refused' = Refused
    <3>1. at'[t] = "counted" /\ count'[t] >= 2 /\ \A u \in Threads \ {t} : at'[u] = at[u] /\ count'[u] = count[u]
      BY <1>2, <1>3, <1>6
    <3>2. \A u \in Threads : u \in Refused' <=> u \in Refused
      BY <1>2, <1>3, <1>4, <1>6, <3>1 DEF Refused
    <3> QED  BY <3>2 DEF Refused
  <2>2. \A u \in Refused : target'[u] = target[u]
    BY <1>2, <1>3, <1>4 DEF Refused
  <2>3. CASE phase = "alive"
    BY <1>1, <1>2, <1>3, <1>6, <2>1, <2>3 DEF FirstRefused, Counted
  <2>4. CASE phase # "alive"
    <3>1. refusedBy # None /\ refusedBy' = refusedBy /\ refs' > 0 /\ lentBy' # None
      BY <1>2, <1>3, <1>6, <2>4 DEF FirstRefused
    <3>2. lentBy' # refusedBy
      <4>1. CASE lentBy # None
        BY <1>3, <4>1 DEF FirstRefused
      <4>2. CASE lentBy = None
        <5>1. refusedBy # p
          BY <1>2, <1>3, <1>5, <3>1, <4>2 DEF FirstRefused, Refused
        <5> QED  BY <1>3, <1>6, <2>4, <4>2, <5>1
      <4> QED  BY <4>1, <4>2
    <3> QED  BY <1>3, <1>5, <2>1, <2>2, <2>4, <3>1, <3>2 DEF FirstRefused
  <2> QED  BY <2>3, <2>4
<1>7. CASE refs = 0
  <2>1. phase # "alive" /\ refusedBy = None /\ lentBy = None /\ Strong = {} /\ InFlight = {}
    BY <1>1, <1>7 DEF Counted, FirstRefused
  <2>2. Refused = {}
    BY <1>2, <1>5, <2>1
  <2>3. at'[t] = "counted" /\ count'[t] = 1 /\ \A u \in Threads \ {t} : at'[u] = at[u] /\ count'[u] = count[u]
    BY <1>2, <1>3, <1>7
  <2>4. InFlight' = {} /\ Refused' = {t}
    BY <2>1, <2>2, <2>3 DEF InFlight, Refused
  <2>5. refusedBy' = p /\ lentBy' = None /\ target'[t] = p /\ refs' = 1
    BY <1>2, <1>3, <1>7, <2>1
  <2> QED  BY <1>2, <1>3, <1>4, <2>1, <2>4, <2>5 DEF FirstRefused
<1> QED  BY <1>2, <1>6, <1>7

\* Only a lock through a second pointer gets a reference of a dying object.
LEMMA FirstRefusedKept ==
  ASSUME IInv, Mutexes, FirstRefused, [Next]_vars
  PROVE  FirstRefused'
<1> USE DEF object, handler, threads, history
<1>a. TypeOK /\ LockDiscipline
  BY DEF IInv
<1>b. /\ refs \in Nat /\ strong \in [Threads -> BOOLEAN] /\ at \in [Threads -> Places]
      /\ count \in [Threads -> Nat] /\ ptr \in [Ptrs -> BOOLEAN]
      /\ target \in [Threads -> Ptrs \cup {None}] /\ dest \in [Threads -> Ptrs \cup {None}]
      /\ refusedBy \in Ptrs \cup {None} /\ None \notin Threads \cup Ptrs
  BY <1>a, PtrAssumption DEF TypeOK
<1>c. \A t \in Refused : target[t] = refusedBy /\ target[t] \in Ptrs
  BY <1>a, <1>b DEF FirstRefused, Refused, LockDiscipline
<1>1. ASSUME NEW t \in Threads, NEW u \in Threads, Share(t, u) PROVE FirstRefused'
  <2>1. t \in Strong /\ InFlight' = InFlight /\ Refused' = Refused /\ refs' = refs + 1
    BY <1>1 DEF Share, Strong, InFlight, Refused
  <2>2. phase # "alive" => lentBy # None /\ refusedBy # None
    BY <2>1 DEF FirstRefused
  <2> QED  BY <1>1, <1>b, <2>1, <2>2 DEF Share, FirstRefused
<1>2. ASSUME NEW t \in Threads, Release(t) PROVE FirstRefused'
  <2>1. t \in Strong /\ Strong' = Strong \ {t} /\ InFlight' = InFlight /\ Refused' = Refused
    BY <1>2, <1>b DEF Release, ReleaseRef, Strong, InFlight, Refused
  <2> QED  BY <1>2, <2>1, ReleaseRefused DEF Release
<1>3. ASSUME NEW t \in Threads, NEW p \in Ptrs, Assign(t, p) PROVE FirstRefused'
  <2>1. t \in Strong /\ Strong' = Strong /\ InFlight' = InFlight /\ Refused' = Refused
    BY <1>3 DEF Assign, Strong, InFlight, Refused
  <2>2. phase # "alive" => lentBy # None
    BY <2>1 DEF FirstRefused
  <2> QED  BY <1>3, <2>1, <2>2 DEF Assign, FirstRefused
<1>4. ASSUME NEW t \in Threads, NEW p \in Ptrs, Reset(t, p) \/ Raise(t, p) PROVE FirstRefused'
  <2>1. Strong' = Strong /\ InFlight' = InFlight /\ Refused' = Refused
    BY <1>4 DEF Reset, Raise, Strong, InFlight, Refused
  <2>2. \A q \in Ptrs : ptr'[q] => ptr[q]
    BY <1>4, <1>b DEF Reset, Raise, Clear
  <2> QED  BY <1>4, <1>b, <2>1, <2>2, FrameRefused DEF Reset, Raise
<1>5. ASSUME NEW t \in Threads, LockReturns(t) PROVE FirstRefused'
  <2>1. CASE count[t] < 2
    <3>1. t \in Refused /\ Refused' \subseteq Refused /\ Strong' = Strong /\ InFlight' = InFlight
      BY <1>5, <1>b, <2>1 DEF LockReturns, Refused, Strong, InFlight
    <3>2. ~ptr'[refusedBy]
      BY <1>5, <1>b, <1>c, <2>1, <3>1 DEF LockReturns, Clear
    <3> QED  BY <1>5, <1>b, <3>1, <3>2, FrameRefused DEF LockReturns
  <2>2. CASE ~(count[t] < 2)
    <3>1. t \in InFlight /\ Refused' = Refused
      BY <1>5, <1>b, <2>2 DEF LockReturns, InFlight, Refused
    <3> QED  BY <1>5, <1>b, <2>2, <3>1, FrameRefused DEF LockReturns
  <2> QED  BY <2>1, <2>2
<1>6. ASSUME NEW t \in Threads, NEW p \in Ptrs, NEW q \in Ptrs, CopyBegin(t, p, q) PROVE FirstRefused'
  <2>1. Strong' = Strong /\ InFlight' = InFlight /\ Refused' = Refused /\ t \notin Refused
    BY <1>6, <1>b DEF CopyBegin, Strong, InFlight, Refused
  <2>2. \A r \in Ptrs : ptr'[r] => ptr[r]
    BY <1>6, <1>b DEF CopyBegin, Clear
  <2>3. \A u \in Refused : target'[u] = target[u]
    BY <1>6, <1>b, <2>1 DEF CopyBegin, Refused
  <2> QED  BY <1>6, <1>b, <2>1, <2>2, <2>3 DEF CopyBegin, FirstRefused
<1>7. ASSUME NEW t \in Threads, CopyNothing(t) PROVE FirstRefused'
  <2>1. Strong' = Strong /\ InFlight' = InFlight /\ Refused' = Refused
    BY <1>7, <1>b DEF CopyNothing, Strong, InFlight, Refused
  <2> QED  BY <1>7, <1>b, <2>1, FrameRefused DEF CopyNothing
<1>8. ASSUME NEW t \in Threads, CopyRefused(t) PROVE FirstRefused'
  <2>1. t \in Refused /\ Refused' \subseteq Refused /\ Strong' = Strong /\ InFlight' = InFlight
    BY <1>8, <1>b DEF CopyRefused, Refused, Strong, InFlight
  <2>2. ~ptr'[refusedBy]
    BY <1>8, <1>b, <1>c, <2>1 DEF CopyRefused, Clear
  <2> QED  BY <1>8, <1>b, <2>1, <2>2, FrameRefused DEF CopyRefused
<1>9. ASSUME NEW t \in Threads, CopyLocked(t) \/ CopyAssign(t) PROVE FirstRefused'
  <2>1. t \in InFlight /\ Strong' = Strong /\ Refused' = Refused
    BY <1>9, <1>b DEF CopyLocked, CopyAssign, InFlight, Strong, Refused
  <2>2. phase # "alive" => lentBy # None
    BY <2>1 DEF FirstRefused
  <2> QED  BY <1>9, <2>1, <2>2 DEF CopyLocked, CopyAssign, FirstRefused
<1>10. ASSUME NEW t \in Threads, CopyDrop(t) PROVE FirstRefused'
  <2>1. t \in InFlight /\ InFlight' = InFlight \ {t} /\ Strong' = Strong /\ Refused' = Refused
    BY <1>10, <1>b DEF CopyDrop, ReleaseRef, Strong, InFlight, Refused
  <2> QED  BY <1>10, <2>1, ReleaseRefused DEF CopyDrop
<1>11. ASSUME NEW t \in Threads, RaiseBegin(t) \/ Free(t) PROVE FirstRefused'
  <2>1. Strong' = Strong /\ InFlight' = InFlight /\ Refused' = Refused
    BY <1>11, <1>b DEF RaiseBegin, Free, Strong, InFlight, Refused
  <2>2. phase # "alive" /\ phase' # "alive"
    BY <1>11 DEF RaiseBegin, Free
  <2> QED  BY <1>11, <1>b, <2>1, <2>2, FrameRefused DEF RaiseBegin, Free
<1>12. CASE UNCHANGED vars
  <2>1. Strong' = Strong /\ InFlight' = InFlight /\ Refused' = Refused
    BY <1>12 DEF vars, Strong, InFlight, Refused
  <2> QED  BY <1>12, <1>b, <2>1, FrameRefused DEF vars
<1>13. ASSUME NEW t \in Threads, CopyLock(t) PROVE FirstRefused'
  <2>1. target[t] \in Ptrs
    BY <1>13, <1>a, <1>b DEF CopyLock, LockDiscipline
  <2> QED  BY <1>13, <2>1, AddRefRefused DEF CopyLock
<1>14. ASSUME NEW t \in Threads, NEW p \in Ptrs, Lock(t, p) PROVE FirstRefused'
  BY <1>14, AddRefRefused DEF Lock
<1>15. ASSUME NEW t \in Threads, NEW pq \in Copies, CopyBegin(t, pq[1], pq[2]) PROVE FirstRefused'
  BY <1>6, <1>15, PtrAssumption
<1> QED
  BY <1>1, <1>2, <1>3, <1>4, <1>5, <1>7, <1>8, <1>9, <1>10, <1>11, <1>12, <1>13, <1>14, <1>15
     DEF Next, ThreadStep, Begin

\* The destructor's copy of the registered pointers stays complete: a pointer is set only by who
\* has a reference.
LEMMA StillKnownKept ==
  ASSUME IInv, FirstRefused, StillKnown, [Next]_vars
  PROVE  StillKnown'
<1> USE DEF object, handler, threads, history
<1>a. TypeOK /\ LockDiscipline
  BY DEF IInv
<1>b. /\ at \in [Threads -> Places] /\ ptr \in [Ptrs -> BOOLEAN] /\ dest \in [Threads -> Ptrs \cup {None}]
      /\ target \in [Threads -> Ptrs \cup {None}] /\ None \notin Threads \cup Ptrs
  BY <1>a, PtrAssumption DEF TypeOK
<1>1. ASSUME UNCHANGED <<handler, ptr>>, lentBy' = None => lentBy = None,
             phase' = phase \/ phase' \in {"alive", "dying"}
      PROVE  StillKnown'
  BY <1>1 DEF StillKnown, WeakNeverDangles
<1>2. ASSUME NEW p \in Ptrs, Clear(p), UNCHANGED <<clone, phase, lentBy>> PROVE StillKnown'
  BY <1>2, <1>b DEF Clear, StillKnown, WeakNeverDangles
<1>3. ASSUME NEW t \in Threads, Release(t) \/ CopyDrop(t) PROVE StillKnown'
  BY <1>1, <1>3 DEF Release, CopyDrop, ReleaseRef
<1>4. ASSUME NEW t \in Threads, NEW p \in Ptrs, Assign(t, p) PROVE StillKnown'
  <2>1. phase # "alive" => lentBy # None
    BY <1>4 DEF Assign, FirstRefused, Strong
  <2> QED  BY <1>4, <1>b, <2>1 DEF Assign, StillKnown, WeakNeverDangles
<1>5. ASSUME NEW t \in Threads, CopyAssign(t) PROVE StillKnown'
  <2>1. (phase # "alive" => lentBy # None) /\ dest[t] \in Ptrs
    BY <1>5, <1>a, <1>b DEF CopyAssign, FirstRefused, InFlight, LockDiscipline
  <2> QED  BY <1>5, <1>b, <2>1 DEF CopyAssign, StillKnown, WeakNeverDangles
<1>6. ASSUME NEW t \in Threads, NEW p \in Ptrs, AddRef(t, p) PROVE StillKnown'
  BY <1>1, <1>6, <1>b DEF AddRef
<1>7. ASSUME NEW t \in Threads, LockReturns(t) PROVE StillKnown'
  <2>1. target[t] \in Ptrs
    BY <1>7, <1>a, <1>b DEF LockReturns, LockDiscipline
  <2> QED  BY <1>1, <1>2, <1>7, <2>1 DEF LockReturns
<1>8. ASSUME NEW t \in Threads, CopyRefused(t) PROVE StillKnown'
  <2>1. target[t] \in Ptrs
    BY <1>8, <1>a, <1>b DEF CopyRefused, LockDiscipline
  <2> QED  BY <1>2, <1>8, <2>1 DEF CopyRefused
<1>9. ASSUME NEW t \in Threads, NEW p \in Ptrs, Reset(t, p) PROVE StillKnown'
  BY <1>2, <1>9 DEF Reset
<1>10. ASSUME NEW t \in Threads, NEW p \in Ptrs, NEW q \in Ptrs, CopyBegin(t, p, q) PROVE StillKnown'
  BY <1>2, <1>10 DEF CopyBegin
<1>11. ASSUME NEW t \in Threads, NEW p \in Ptrs, Raise(t, p) PROVE StillKnown'
  BY <1>11, <1>b DEF Raise, Clear, StillKnown, WeakNeverDangles
<1>12. ASSUME NEW t \in Threads, RaiseBegin(t) PROVE StillKnown'
  BY <1>12 DEF RaiseBegin, StillKnown, WeakNeverDangles
<1>13. ASSUME NEW t \in Threads, Free(t) PROVE StillKnown'
  BY <1>13 DEF Free, StillKnown, WeakNeverDangles
<1>14. ASSUME NEW t \in Threads, NEW u \in Threads, Share(t, u) \/ CopyNothing(t) \/ CopyLocked(t) PROVE StillKnown'
  BY <1>1, <1>14 DEF Share, CopyNothing, CopyLocked
<1>15. CASE UNCHANGED vars
  BY <1>1, <1>15 DEF vars
<1>16. ASSUME NEW t \in Threads, CopyLock(t) PROVE StillKnown'
  <2>1. target[t] \in Ptrs
    BY <1>16, <1>a, <1>b DEF CopyLock, LockDiscipline
  <2> QED  BY <1>6, <1>16, <2>1 DEF CopyLock
<1>17. ASSUME NEW t \in Threads, NEW p \in Ptrs, Lock(t, p) PROVE StillKnown'
  BY <1>6, <1>17 DEF Lock
<1>18. ASSUME NEW t \in Threads, NEW pq \in Copies, CopyBegin(t, pq[1], pq[2]) PROVE StillKnown'
  BY <1>10, <1>18, PtrAssumption
<1> QED
  BY <1>3, <1>4, <1>5, <1>7, <1>8, <1>9, <1>11, <1>12, <1>13, <1>14, <1>15, <1>16, <1>17, <1>18
     DEF Next, ThreadStep, Begin

\* The invariant of the weak pointers, for any number of threads and pointers.
THEOREM WeakInvariant == Spec => []WeakInv
<1>1. Init => WeakInv
  BY PtrAssumption DEF Init, WeakInv, Mutexes, FirstRefused, StillKnown, WeakNeverDangles, Refused
<1>2. IInv /\ WeakInv /\ [Next]_vars => WeakInv'
  BY MutexesKept, FirstRefusedKept, StillKnownKept DEF WeakInv
<1> QED
  BY <1>1, <1>2, CountInvariant, PTL DEF Spec

\* lock() is safe for every object of which no lock was refused while it died, and through the
\* refused pointer always: a dying object is handed out only through another disposable_ptr,
\* after the refused lock() of a first one has left its reference behind. With one disposable_ptr
\* to an object this never happens.
THEOREM LentOnlyAfterRefusal == Spec => []StrongMeansAlive
<1>1. WeakInv => StrongMeansAlive
  BY DEF WeakInv, FirstRefused, StrongMeansAlive, Strong
<1> QED
  BY <1>1, WeakInvariant, PTL

\* disposable_base's destructor resets every disposable_ptr before the memory of the object is
\* freed, unless a lock() got hold of the dying object.
THEOREM PointersReset == Spec => []WeakNeverDangles
<1>1. WeakInv => WeakNeverDangles
  BY DEF WeakInv, StillKnown
<1> QED
  BY <1>1, WeakInvariant, PTL
=============================================================================
