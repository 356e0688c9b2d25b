--------------------------- MODULE BoxPoolProofs ---------------------------
(***************************************************************************)
(* Proofs about BoxPool, for any number of threads and of boxes, whichever *)
(* of them isolate can initialise.                                         *)
(***************************************************************************)
EXTENDS BoxPool, QueueProofs, FiniteSetTheorems

-----------------------------------------------------------------------------
(* The conjuncts of the invariant, one after the other. *)

\* The invariant holds before the first box is tried.
LEMMA InitInv == Init => Inv
<1> SUFFICES ASSUME Init PROVE Inv
  OBVIOUS
<1>1. available \in Seq(Boxes) /\ Len(available) = 0 /\ Elements(available) = {}
  BY EmptySeq DEF Init, Elements
<1>2. TypeOK
  BY <1>1 DEF Init, TypeOK
<1>3. MutexHeld /\ Untried
  BY PoolAssumption DEF Init, MutexHeld, Untried, Critical, Holders
<1>4. BoxesConserved
  BY <1>1 DEF Init, BoxesConserved, Distinct
<1>5. NoLostWakeup
  BY DEF Init, NoLostWakeup, Asleep
<1> QED  BY <1>2, <1>3, <1>4, <1>5 DEF Inv

\* What every kind of step does to the queue and to the boxes in use.
LEMMA Moves ==
    ASSUME Inv, Next
    PROVE  \/ UNCHANGED <<pool, available, held>>
           \/ InitBox
           \/ \E t \in Threads : Take(t) \/ Push(t)
BY DEF Next, Proceed, Call, WakeSpuriously, Lock, Sleep, Ready, Unlock, LockToRelease, NotifyOne

\* Every step keeps each variable in its type: only a box of the pool is ever
\* pushed.
LEMMA TypeStep == ASSUME Inv, [Next]_vars PROVE TypeOK'
<1>0. TypeOK /\ MutexHeld
  BY DEF Inv
<1> USE DEF Goto
<1>1. CASE UNCHANGED vars
  BY <1>0, <1>1 DEF vars, pool, TypeOK
<1>2. CASE InitBox
  <2> DEFINE id == BoxIdStart + tried
  <2>1. id \in Boxes
    BY <1>0, <1>2, PoolAssumption DEF InitBox, TypeOK, Boxes
  <2>2. available' \in Seq(Boxes) /\ boxes' \subseteq Boxes
    BY <1>0, <1>2, <2>1, AppendProperties DEF InitBox, TypeOK
  <2> QED  BY <1>0, <1>2, <2>2 DEF InitBox, TypeOK
<1>3. ASSUME NEW t \in Threads, Call(t) \/ WakeSpuriously(t) PROVE TypeOK'
  BY <1>0, <1>3 DEF Call, WakeSpuriously, pool, TypeOK
<1>4. ASSUME NEW t \in Threads, Lock(t) \/ Sleep(t) \/ Ready(t) PROVE TypeOK'
  BY <1>0, <1>4 DEF Lock, Sleep, Ready, pool, TypeOK
<1>5. ASSUME NEW t \in Threads, Take(t) PROVE TypeOK'
  <2>1. available # <<>>
    BY <1>0, <1>5 DEF Take, MutexHeld
  <2>2. Head(available) \in Boxes /\ available' \in Seq(Boxes)
    BY <1>0, <1>5, <2>1, HeadTailProperties DEF Take, TypeOK
  <2> QED  BY <1>0, <1>5, <2>2 DEF Take, pool, TypeOK
<1>6. ASSUME NEW t \in Threads, Unlock(t) \/ LockToRelease(t) PROVE TypeOK'
  BY <1>0, <1>6 DEF Unlock, LockToRelease, pool, TypeOK
<1>7. ASSUME NEW t \in Threads, Push(t) PROVE TypeOK'
  <2>1. held[t] \in Boxes
    BY <1>0, <1>7 DEF Push, MutexHeld, Holders, TypeOK
  <2>2. available' \in Seq(Boxes)
    BY <1>0, <1>7, <2>1, AppendProperties DEF Push, TypeOK
  <2> QED  BY <1>0, <1>7, <2>2 DEF Push, pool, TypeOK
<1>8. ASSUME NEW t \in Threads, NotifyOne(t) PROVE TypeOK'
  BY <1>0, <1>8 DEF NotifyOne, Asleep, pool, TypeOK
<1> QED  BY <1>1, <1>2, <1>3, <1>4, <1>5, <1>6, <1>7, <1>8 DEF Next, Proceed

\* Only who has the mutex tests, takes, pushes and notifies, and nobody else
\* touches the queue meanwhile.
LEMMA MutexStep == ASSUME Inv, [Next]_vars PROVE MutexHeld'
<1>0. TypeOK /\ MutexHeld
  BY DEF Inv
<1> USE DEF Goto, MutexHeld, Critical, Holders
<1>1. CASE UNCHANGED vars
  BY <1>0, <1>1 DEF vars, pool
<1>2. CASE InitBox
  BY <1>0, <1>2, PoolAssumption DEF InitBox, TypeOK
<1>3. ASSUME NEW t \in Threads, Call(t) \/ WakeSpuriously(t) PROVE MutexHeld'
  BY <1>0, <1>3 DEF Call, WakeSpuriously, pool, TypeOK
<1>4. ASSUME NEW t \in Threads, Lock(t) PROVE MutexHeld'
  BY <1>0, <1>4, PoolAssumption DEF Lock, pool, TypeOK
<1>5. ASSUME NEW t \in Threads, Sleep(t) PROVE MutexHeld'
  BY <1>0, <1>5, PoolAssumption DEF Sleep, pool, TypeOK
<1>6. ASSUME NEW t \in Threads, Ready(t) PROVE MutexHeld'
  BY <1>0, <1>6 DEF Ready, pool, TypeOK
<1>7. ASSUME NEW t \in Threads, Take(t) PROVE MutexHeld'
  <2>1. available # <<>> /\ mutex = t
    BY <1>0, <1>7 DEF Take
  <2>2. Head(available) # NoBox
    <3>1. Head(available) \in Boxes
      BY <1>0, <2>1, HeadTailProperties DEF TypeOK
    <3> QED  BY <3>1, PoolAssumption DEF Boxes
  <2> QED  BY <1>0, <1>7, <2>1, <2>2 DEF Take, pool, TypeOK
<1>8. ASSUME NEW t \in Threads, Unlock(t) PROVE MutexHeld'
  BY <1>0, <1>8, PoolAssumption DEF Unlock, pool, TypeOK
<1>9. ASSUME NEW t \in Threads, LockToRelease(t) PROVE MutexHeld'
  BY <1>0, <1>9, PoolAssumption DEF LockToRelease, pool, TypeOK
<1>10. ASSUME NEW t \in Threads, Push(t) PROVE MutexHeld'
  BY <1>0, <1>10 DEF Push, pool, TypeOK
<1>11. ASSUME NEW t \in Threads, NotifyOne(t) PROVE MutexHeld'
  BY <1>0, <1>11 DEF NotifyOne, Asleep, pool, TypeOK
<1> QED
  BY <1>1, <1>2, <1>3, <1>4, <1>5, <1>6, <1>7, <1>8, <1>9, <1>10, <1>11 DEF Next, Proceed

\* The constructor adds a box that is nowhere yet; a box taken leaves the queue,
\* one that is given back joins it.
LEMMA ConservedStep == ASSUME Inv, [Next]_vars PROVE BoxesConserved' /\ Untried'
<1>0. TypeOK /\ MutexHeld /\ BoxesConserved /\ Untried
  BY DEF Inv
<1> DEFINE used == {held[t] : t \in Threads} \ {NoBox}
<1>1. CASE UNCHANGED <<pool, available, held>>
  BY <1>0, <1>1 DEF pool, BoxesConserved, Untried
<1>2. CASE InitBox
  <2> DEFINE id == BoxIdStart + tried
  <2>1. id \in Boxes /\ id \notin boxes
    BY <1>0, <1>2, PoolAssumption DEF InitBox, TypeOK, Boxes, Untried
  <2>2. Untried'
    <3>1. tried' = tried + 1 /\ boxes' \subseteq boxes \cup {id} /\ id \in Int
      BY <1>0, <1>2, PoolAssumption DEF InitBox, TypeOK
    <3> SUFFICES ASSUME NEW b \in boxes' PROVE b < BoxIdStart + (tried + 1)
      BY <3>1 DEF Untried
    <3>2. CASE b = id
      BY <1>0, <3>2, PoolAssumption DEF TypeOK
    <3>3. CASE b \in boxes
      <4>1. b \in Int /\ b < BoxIdStart + tried
        BY <1>0, <3>3, PoolAssumption DEF TypeOK, Untried, Boxes
      <4> QED  BY <1>0, <4>1, PoolAssumption DEF TypeOK
    <3> QED  BY <3>1, <3>2, <3>3
  <2>3. CASE UNCHANGED <<boxes, available>>
    BY <1>0, <1>2, <2>2, <2>3 DEF InitBox, BoxesConserved
  <2>4. CASE boxes' = boxes \cup {id} /\ available' = Append(available, id)
    <3>1. id \notin Elements(available) /\ \A t \in Threads : held[t] # id
      BY <1>0, <2>1, PoolAssumption DEF BoxesConserved, Boxes
    <3>2. Elements(available') = Elements(available) \cup {id} /\ Distinct(available')
      BY <1>0, <2>1, <2>4, <3>1, AppendElements DEF TypeOK, BoxesConserved
    <3> QED  BY <1>0, <1>2, <2>2, <2>4, <3>1, <3>2 DEF InitBox, BoxesConserved
  <2> QED  BY <1>2, <2>3, <2>4 DEF InitBox
<1>3. ASSUME NEW t \in Threads, Take(t) PROVE BoxesConserved' /\ Untried'
  <2> DEFINE b == Head(available)
  <2>1. available # <<>> /\ held[t] = NoBox /\ b # NoBox
    <3>1. available # <<>> /\ held[t] = NoBox
      BY <1>0, <1>3 DEF Take, Goto, MutexHeld, Holders
    <3> QED  BY <1>0, <3>1, HeadTailProperties, PoolAssumption DEF TypeOK, Boxes
  <2>2. /\ b \in Elements(available)
        /\ Elements(available') = Elements(available) \ {b} /\ Distinct(available')
    BY <1>0, <1>3, <2>1, TailElements DEF Take, TypeOK, BoxesConserved
  <2>3. /\ held'[t] = b /\ \A u \in Threads \ {t} : held'[u] = held[u] /\ held[u] # b
        /\ boxes' = boxes /\ tried' = tried
    BY <1>0, <1>3, <2>2 DEF Take, pool, TypeOK, BoxesConserved
  <2>4. \A u, v \in Threads : held'[u] = held'[v] /\ held'[u] # NoBox => u = v
    BY <1>0, <2>3 DEF BoxesConserved
  <2>5. \A u \in Threads : held'[u] \notin Elements(available')
    BY <1>0, <2>2, <2>3 DEF BoxesConserved
  <2>6. boxes' = Elements(available') \cup ({held'[u] : u \in Threads} \ {NoBox})
    BY <1>0, <2>1, <2>2, <2>3 DEF BoxesConserved
  <2> QED  BY <1>0, <2>2, <2>3, <2>4, <2>5, <2>6 DEF BoxesConserved, Untried
<1>4. ASSUME NEW t \in Threads, Push(t) PROVE BoxesConserved' /\ Untried'
  <2> DEFINE b == held[t]
  <2>1. b \in Boxes /\ b # NoBox
    BY <1>0, <1>4, PoolAssumption DEF Push, Goto, MutexHeld, Holders, TypeOK, Boxes
  <2>2. b \notin Elements(available)
    BY <1>0 DEF BoxesConserved
  <2>3. Elements(available') = Elements(available) \cup {b} /\ Distinct(available')
    BY <1>0, <1>4, <2>1, <2>2, AppendElements DEF Push, TypeOK, BoxesConserved
  <2>4. /\ held'[t] = NoBox /\ \A u \in Threads \ {t} : held'[u] = held[u] /\ held[u] # b
        /\ boxes' = boxes /\ tried' = tried
    BY <1>0, <1>4, <2>1 DEF Push, pool, TypeOK, BoxesConserved
  <2>5. NoBox \notin Elements(available')
    BY <1>0, <2>1, <2>3, PoolAssumption DEF BoxesConserved, TypeOK, Boxes
  <2>6. \A u, v \in Threads : held'[u] = held'[v] /\ held'[u] # NoBox => u = v
    BY <1>0, <2>4 DEF BoxesConserved
  <2>7. \A u \in Threads : held'[u] \notin Elements(available')
    BY <1>0, <2>3, <2>4, <2>5 DEF BoxesConserved
  <2>8. boxes' = Elements(available') \cup ({held'[u] : u \in Threads} \ {NoBox})
    BY <1>0, <2>1, <2>3, <2>4 DEF BoxesConserved
  <2> QED  BY <1>0, <2>3, <2>4, <2>6, <2>7, <2>8 DEF BoxesConserved, Untried
<1> QED  BY <1>1, <1>2, <1>3, <1>4, Moves DEF vars, pool

-----------------------------------------------------------------------------
(* Wake-ups. *)

\* One thread more among those who are awake, one less, or one for another.
LEMMA AwakeCount ==
    ASSUME NEW A \in SUBSET Threads, NEW B \in SUBSET Threads, NEW t, NEW u
    PROVE  /\ Cardinality(A) \in Nat /\ Cardinality(B) \in Nat
           /\ A \subseteq B => Cardinality(A) <= Cardinality(B)
           /\ t \notin A /\ A \cup {t} \subseteq B => Cardinality(A) + 1 <= Cardinality(B)
           /\ A \ {t} \subseteq B => Cardinality(A) - 1 <= Cardinality(B)
           /\ u \notin A /\ (A \ {t}) \cup {u} \subseteq B => Cardinality(A) <= Cardinality(B)
<1>1. IsFiniteSet(A) /\ IsFiniteSet(B)
  BY PoolAssumption, FS_Subset
<1>2. Cardinality(A) \in Nat /\ Cardinality(B) \in Nat
  BY <1>1, FS_CardinalityType
<1>3. ASSUME NEW C, C \subseteq B PROVE Cardinality(C) <= Cardinality(B)
  BY <1>1, <1>3, FS_Subset
<1>4. t \notin A => Cardinality(A \cup {t}) = Cardinality(A) + 1
  BY <1>1, FS_AddElement
<1>5. IsFiniteSet(A \ {t}) /\ Cardinality(A \ {t}) \in {Cardinality(A) - 1, Cardinality(A)}
  BY <1>1, FS_RemoveElement
<1>6. u \notin A => Cardinality((A \ {t}) \cup {u}) = Cardinality(A \ {t}) + 1
  BY <1>5, FS_AddElement
<1>7. A \ {t} \subseteq B => Cardinality(A) - 1 <= Cardinality(B)
  <2> HAVE A \ {t} \subseteq B
  <2>1. Cardinality(A \ {t}) <= Cardinality(B)
    BY <1>3
  <2> QED  BY <1>2, <1>5, <2>1
<1>8. u \notin A /\ (A \ {t}) \cup {u} \subseteq B => Cardinality(A) <= Cardinality(B)
  <2> HAVE u \notin A /\ (A \ {t}) \cup {u} \subseteq B
  <2>1. Cardinality((A \ {t}) \cup {u}) <= Cardinality(B)
    BY <1>3
  <2> QED  BY <1>2, <1>5, <1>6, <2>1
<1>9. t \notin A /\ A \cup {t} \subseteq B => Cardinality(A) + 1 <= Cardinality(B)
  BY <1>3, <1>4
<1> QED  BY <1>2, <1>3, <1>7, <1>8, <1>9

\* A push adds a box and a notification; the notification turns into a thread
\* awake if one sleeps; who falls asleep has seen the queue empty.
LEMMA WakeupStep == ASSUME Inv, [Next]_vars PROVE NoLostWakeup'
<1>0. TypeOK /\ MutexHeld /\ NoLostWakeup /\ TypeOK'
  BY TypeStep DEF Inv
<1> USE DEF Goto
<1>1. Awake \in SUBSET Threads /\ Awake' \in SUBSET Threads
  BY DEF Awake
<1>2. /\ Len(available) \in Nat /\ Len(available') \in Nat
      /\ Cardinality(Awake) \in Nat /\ Cardinality(Awake') \in Nat
  BY <1>0, <1>1, AwakeCount, LenProperties DEF TypeOK
<1>3. ASSUME Asleep' \subseteq Asleep, Awake \subseteq Awake', available' = available
      PROVE  NoLostWakeup'
  <2>1. Cardinality(Awake) <= Cardinality(Awake')
    BY <1>1, <1>3, AwakeCount
  <2> QED  BY <1>0, <1>2, <1>3, <2>1 DEF NoLostWakeup
<1>4. CASE UNCHANGED vars
  BY <1>3, <1>4 DEF vars, Asleep, Awake
<1>5. CASE InitBox
  <2>1. Asleep' = {}
    BY <1>0, <1>5, PoolAssumption DEF InitBox, MutexHeld, Asleep, TypeOK
  <2> QED  BY <2>1 DEF NoLostWakeup
<1>6. ASSUME NEW t \in Threads, Call(t) \/ Lock(t) \/ Ready(t) \/ Unlock(t) \/ LockToRelease(t)
      PROVE  NoLostWakeup'
  <2>1. Asleep' \subseteq Asleep /\ Awake \subseteq Awake' /\ available' = available
    BY <1>0, <1>6 DEF Call, Lock, Ready, Unlock, LockToRelease, Asleep, Awake, TypeOK
  <2> QED  BY <1>3, <2>1
<1>7. ASSUME NEW t \in Threads, WakeSpuriously(t) PROVE NoLostWakeup'
  <2>1. Asleep' \subseteq Asleep /\ Awake \subseteq Awake' /\ available' = available
    BY <1>0, <1>7 DEF WakeSpuriously, Asleep, Awake, TypeOK
  <2> QED  BY <1>3, <2>1
<1>8. ASSUME NEW t \in Threads, Sleep(t) PROVE NoLostWakeup'
  <2>1. Len(available') = 0
    BY <1>8, EmptySeq DEF Sleep
  <2> QED  BY <1>2, <2>1 DEF NoLostWakeup
<1>9. ASSUME NEW t \in Threads, Take(t) PROVE NoLostWakeup'
  <2>1. Asleep' \subseteq Asleep /\ Awake \ {t} \subseteq Awake'
    BY <1>0, <1>9 DEF Take, Asleep, Awake, TypeOK
  <2>2. Cardinality(Awake) - 1 <= Cardinality(Awake')
    BY <1>1, <2>1, AwakeCount
  <2>3. Len(available') = Len(available) - 1
    BY <1>0, <1>9, HeadTailProperties DEF Take, MutexHeld, TypeOK
  <2> QED  BY <1>0, <1>2, <2>1, <2>2, <2>3 DEF NoLostWakeup
<1>10. ASSUME NEW t \in Threads, Push(t) PROVE NoLostWakeup'
  <2>1. Asleep' \subseteq Asleep /\ t \notin Awake /\ Awake \cup {t} \subseteq Awake'
    BY <1>0, <1>10 DEF Push, Asleep, Awake, TypeOK
  <2>2. Cardinality(Awake) + 1 <= Cardinality(Awake')
    BY <1>1, <2>1, AwakeCount
  <2>3. Len(available') = Len(available) + 1
    <3>1. held[t] \in Boxes
      BY <1>0, <1>10 DEF Push, MutexHeld, Holders, TypeOK
    <3> QED  BY <1>0, <1>10, <3>1, AppendProperties DEF Push, TypeOK
  <2> QED  BY <1>0, <1>2, <2>1, <2>2, <2>3 DEF NoLostWakeup
<1>11. ASSUME NEW t \in Threads, NotifyOne(t) PROVE NoLostWakeup'
  <2>1. CASE Asleep = {}
    <3>1. pc' = [pc EXCEPT ![t] = "notified"]
      BY <1>11, <2>1 DEF NotifyOne
    <3>2. Asleep' = {}
      BY <1>0, <2>1, <3>1 DEF Asleep, TypeOK
    <3> QED  BY <3>2 DEF NoLostWakeup
  <2>2. ASSUME NEW u \in Asleep, pc' = [pc EXCEPT ![t] = "notified", ![u] = "woken"]
        PROVE  NoLostWakeup'
    <3>1. /\ u \notin Awake /\ (Awake \ {t}) \cup {u} \subseteq Awake'
          /\ Asleep' \subseteq Asleep /\ available' = available
      BY <1>0, <1>11, <2>2 DEF NotifyOne, Asleep, Awake, TypeOK
    <3>2. Cardinality(Awake) <= Cardinality(Awake')
      BY <1>1, <3>1, AwakeCount
    <3> QED  BY <1>0, <1>2, <3>1, <3>2 DEF NoLostWakeup
  <2> QED  BY <1>11, <2>1, <2>2 DEF NotifyOne
<1> QED
  BY <1>4, <1>5, <1>6, <1>7, <1>8, <1>9, <1>10, <1>11 DEF Next, Proceed

-----------------------------------------------------------------------------
(* The theorems. *)

\* Inv is an invariant for any threads and boxes.
LEMMA Invariance == Spec => []Inv
<1>1. Inv /\ [Next]_vars => Inv'
  BY TypeStep, MutexStep, ConservedStep, WakeupStep DEF Inv
<1> QED  BY InitInv, <1>1, PTL DEF Spec

\* The pool stays well typed: what judge() gets is a box of the pool.
THEOREM TypeCorrect == Spec => []TypeOK
<1>1. Inv => TypeOK
  BY DEF Inv
<1> QED  BY <1>1, Invariance, PTL

\* No two threads judge in one box, and no box gets lost, however many threads
\* call acquire() and release() and whichever boxes could not be initialised.
THEOREM BoxesAreConserved == Spec => []BoxesConserved
<1>1. Inv => BoxesConserved
  BY DEF Inv
<1> QED  BY <1>1, Invariance, PTL

\* While a thread sleeps, each box in the queue has somebody awake to take it:
\* notify_one under the lock, one for each push, is enough.
THEOREM NoWakeupIsLost == Spec => []NoLostWakeup
<1>1. Inv => NoLostWakeup
  BY DEF Inv
<1> QED  BY <1>1, Invariance, PTL

\* The pool implements the abstract allocator.
THEOREM AllocatorImplemented == Spec => ImplementsAllocator
<1>1. Init => Allocator!Init
  BY DEF Init, Allocator!Init, Elements
<1>2. ASSUME Inv, [Next]_vars PROVE [Allocator!Next]_(Allocator!vars)
  <2>0. TypeOK /\ MutexHeld /\ BoxesConserved /\ Untried
    BY <1>2 DEF Inv
  <2> USE DEF Allocator!vars
  <2>1. CASE UNCHANGED <<pool, available, held>>
    BY <2>1 DEF Elements
  <2>2. CASE InitBox
    <3> DEFINE id == BoxIdStart + tried
    <3>1. id \in Boxes /\ id \notin boxes /\ id # NoBox
      BY <2>0, <2>2, PoolAssumption DEF InitBox, TypeOK, Boxes, Untried
    <3>2. CASE UNCHANGED <<boxes, available>>
      BY <2>2, <3>2 DEF InitBox, Elements
    <3>3. CASE available' = Append(available, id)
      <4>1. Elements(available)' = Elements(available) \cup {id}
        BY <2>0, <3>1, <3>3, AppendElements DEF TypeOK
      <4>2. id \notin Elements(available) /\ \A t \in Threads : held[t] # id
        BY <2>0, <3>1 DEF BoxesConserved
      <4>3. Allocator!Create(id)
        BY <2>2, <4>1, <4>2 DEF InitBox, Allocator!Create
      <4> QED  BY <3>1, <4>3 DEF Allocator!Next
    <3> QED  BY <2>2, <3>2, <3>3 DEF InitBox
  <2>3. ASSUME NEW t \in Threads, Take(t) PROVE [Allocator!Next]_(Allocator!vars)
    <3> DEFINE b == Head(available)
    <3>1. available # <<>> /\ held[t] = NoBox
      BY <2>0, <2>3 DEF Take, Goto, MutexHeld, Holders
    <3>2. /\ b \in Boxes /\ b \in Elements(available)
          /\ Elements(available)' = Elements(available) \ {b}
      BY <2>0, <2>3, <3>1, TailElements, HeadTailProperties DEF Take, TypeOK, BoxesConserved
    <3>3. Allocator!Acquire(t, b)
      BY <2>3, <3>1, <3>2 DEF Take, Allocator!Acquire
    <3> QED  BY <3>2, <3>3 DEF Allocator!Next
  <2>4. ASSUME NEW t \in Threads, Push(t) PROVE [Allocator!Next]_(Allocator!vars)
    <3>1. held[t] \in Boxes /\ held[t] # NoBox
      BY <2>0, <2>4 DEF Push, Goto, MutexHeld, Holders, TypeOK
    <3>2. Elements(available)' = Elements(available) \cup {held[t]}
      BY <2>0, <2>4, <3>1, AppendElements DEF Push, TypeOK
    <3>3. Allocator!Release(t)
      BY <2>4, <3>1, <3>2 DEF Push, Allocator!Release
    <3> QED  BY <3>3 DEF Allocator!Next
  <2> QED  BY <1>2, <2>1, <2>2, <2>3, <2>4, Moves DEF vars, pool
<1> QED  BY <1>1, <1>2, Invariance, PTL DEF Spec, ImplementsAllocator, Allocator!Spec
=============================================================================
