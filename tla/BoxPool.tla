------------------------------ MODULE BoxPool ------------------------------
(***************************************************************************)
(* JudgeEngine::BoxPool: the boxes of one process, taken and given back by *)
(* threads that judge.  The program has one such thread today; the pool is *)
(* written for several (DESIGN.md section 2.4), with a mutex, a condition  *)
(* variable and notify_one, and that is what is modelled: each lock, test, *)
(* pop, push, notification and unlock is a step of its own.                *)
(***************************************************************************)
EXTENDS Integers, FiniteSets, Queues

CONSTANTS
    Threads,        \* threads that call judge()
    BoxIdStart,     \* isolate.box_id_start
    MaxBoxes,       \* judge.concurrency, any number that was configured
    NoBox, NoThread

Boxes == BoxIdStart .. BoxIdStart + MaxBoxes - 1

ASSUME PoolAssumption ==
    /\ BoxIdStart \in Int /\ MaxBoxes \in Int
    /\ NoBox \notin Int /\ NoThread \notin Threads
    /\ IsFiniteSet(Threads)

VARIABLES
    tried,          \* boxes the constructor has tried to initialise
    boxes,          \* boxes_: those that isolate initialised
    available,      \* available_
    mutex,          \* the thread that has mutex_, or NoThread
    pc,             \* where each thread is in acquire() and release()
    held            \* the box_id in its judge(), or NoBox

pool == <<tried, boxes>>
vars == <<pool, available, mutex, pc, held>>

-----------------------------------------------------------------------------
Init ==
    /\ tried = 0 /\ boxes = {}
    /\ available = <<>>
    /\ mutex = NoThread
    /\ pc = [t \in Threads |-> "idle"]
    /\ held = [t \in Threads |-> NoBox]

\* Mutant: the loop counts from 1.
InitBoxFromOne ==
    LET id == BoxIdStart + tried + 1 IN
    /\ tried < MaxBoxes
    /\ tried' = tried + 1
    /\ \/ boxes' = boxes \cup {id} /\ available' = Append(available, id)
       \/ UNCHANGED <<boxes, available>>
    /\ UNCHANGED <<mutex, pc, held>>

\* One turn of the constructor's loop: a box that cannot be initialised is left
\* out.  Nobody judges before the pool is there.
InitBox ==
    LET id == BoxIdStart + tried IN
    /\ tried < MaxBoxes
    /\ tried' = tried + 1
    /\ \/ boxes' = boxes \cup {id} /\ available' = Append(available, id)
       \/ UNCHANGED <<boxes, available>>
    /\ UNCHANGED <<mutex, pc, held>>

Goto(t, from, to) == pc[t] = from /\ pc' = [pc EXCEPT ![t] = to]

-----------------------------------------------------------------------------
(* acquire *)

\* judge() is called.
Call(t) ==
    /\ tried >= MaxBoxes
    /\ Goto(t, "idle", "locking")
    /\ UNCHANGED <<pool, available, mutex, held>>

\* unique_lock, or the end of cv_.wait's sleep: the mutex is taken (again).
Lock(t) ==
    /\ mutex = NoThread
    /\ mutex' = t
    /\ pc[t] \in {"locking", "woken"}
    /\ pc' = [pc EXCEPT ![t] = "testing"]
    /\ UNCHANGED <<pool, available, held>>

\* Mutant: the thread sleeps with the mutex in its hands.
SleepLocked(t) ==
    /\ Goto(t, "testing", "asleep")
    /\ available = <<>>
    /\ UNCHANGED <<pool, available, mutex, held>>

\* The predicate of cv_.wait does not hold: sleep, and give up the mutex in the
\* same step.
Sleep(t) ==
    /\ Goto(t, "testing", "asleep")
    /\ available = <<>>
    /\ mutex' = NoThread
    /\ UNCHANGED <<pool, available, held>>

\* The predicate holds.
Ready(t) ==
    /\ Goto(t, "testing", "taking")
    /\ available # <<>>
    /\ UNCHANGED <<pool, available, mutex, held>>

\* A condition variable may wake a thread that nobody notified.
WakeSpuriously(t) ==
    /\ Goto(t, "asleep", "woken")
    /\ UNCHANGED <<pool, available, mutex, held>>

\* Mutant: front() without pop().
TakeWithoutPop(t) ==
    /\ Goto(t, "taking", "taken")
    /\ held' = [held EXCEPT ![t] = Head(available)]
    /\ UNCHANGED <<pool, available, mutex>>

Take(t) ==
    /\ Goto(t, "taking", "taken")
    /\ held' = [held EXCEPT ![t] = Head(available)]
    /\ available' = Tail(available)
    /\ UNCHANGED <<pool, mutex>>

\* The end of the lock's scope, in acquire() and in release().
Unlock(t) ==
    /\ \/ Goto(t, "taken", "judging")
       \/ Goto(t, "notified", "idle")
    /\ mutex' = NoThread
    /\ UNCHANGED <<pool, available, held>>

-----------------------------------------------------------------------------
(* release *)

\* A return of judge(): every one of them releases the box (SandboxJudge).
LockToRelease(t) ==
    /\ Goto(t, "judging", "pushing")
    /\ mutex = NoThread
    /\ mutex' = t
    /\ UNCHANGED <<pool, available, held>>

\* Mutant: the box is used after it was given back.
PushAndKeep(t) ==
    /\ Goto(t, "pushing", "notifying")
    /\ available' = Append(available, held[t])
    /\ UNCHANGED <<pool, mutex, held>>

Push(t) ==
    /\ Goto(t, "pushing", "notifying")
    /\ available' = Append(available, held[t])
    /\ held' = [held EXCEPT ![t] = NoBox]
    /\ UNCHANGED <<pool, mutex>>

Asleep == {t \in Threads : pc[t] = "asleep"}

\* Mutant: the box is back in the queue and nobody is told.
NotifyNobody(t) ==
    /\ Goto(t, "notifying", "notified")
    /\ UNCHANGED <<pool, available, mutex, held>>

\* notify_one wakes one of those who sleep, whichever; it is lost if none does.
NotifyOne(t) ==
    /\ pc[t] = "notifying"
    /\ \/ \E u \in Asleep : pc' = [pc EXCEPT ![t] = "notified", ![u] = "woken"]
       \/ Asleep = {} /\ pc' = [pc EXCEPT ![t] = "notified"]
    /\ UNCHANGED <<pool, available, mutex, held>>

-----------------------------------------------------------------------------
\* What a thread does by itself once it has called judge().
Proceed(t) ==
    \/ Lock(t) \/ Sleep(t) \/ Ready(t) \/ Take(t) \/ Unlock(t)
    \/ LockToRelease(t) \/ Push(t) \/ NotifyOne(t)

Next == InitBox \/ \E t \in Threads : Call(t) \/ WakeSpuriously(t) \/ Proceed(t)

Spec == Init /\ [][Next]_vars

\* A judging ends, and a thread that wants the mutex gets it some time if it is
\* free again and again.  Nothing obliges a call, a spurious wake-up or a fair
\* choice of the thread to notify.
Fairness ==
    /\ WF_vars(InitBox)
    /\ \A t \in Threads :
        /\ WF_vars(Proceed(t))
        /\ SF_vars(Lock(t)) /\ SF_vars(LockToRelease(t))

FairSpec == Spec /\ Fairness

-----------------------------------------------------------------------------
(* Properties. *)

\* Everything stays in its type; the boxes are those of the loop so far.
TypeOK ==
    /\ tried \in Nat /\ boxes \subseteq Boxes
    /\ available \in Seq(Boxes)
    /\ mutex \in Threads \cup {NoThread}
    /\ pc \in [Threads -> {"idle", "locking", "testing", "asleep", "woken", "taking",
                           "taken", "judging", "pushing", "notifying", "notified"}]
    /\ held \in [Threads -> Boxes \cup {NoBox}]

\* No box is lost or doubled: each is in the queue once, or with one thread.
\* Two threads with the same box would overwrite each other's program.
BoxesConserved ==
    /\ Distinct(available)
    /\ \A t, u \in Threads : held[t] = held[u] /\ held[t] # NoBox => t = u
    /\ \A t \in Threads : held[t] \notin Elements(available)
    /\ boxes = Elements(available) \cup ({held[t] : t \in Threads} \ {NoBox})

\* No wake-up is lost: while somebody sleeps, every box in the queue has a
\* thread awake that will test for it, or a notification on its way.
Awake == {t \in Threads : pc[t] \in {"woken", "testing", "taking", "notifying"}}
NoLostWakeup == Asleep # {} => Len(available) <= Cardinality(Awake)

\* The pool with its mutex and its queue implements the abstract allocator:
\* taking a box and giving it back are one step each for the others.
Allocator == INSTANCE BoxAllocator WITH free <- Elements(available)
ImplementsAllocator == Allocator!Spec

\* If any box could be initialised, then as long as threads ask for one, somebody
\* gets one again and again: nobody sleeps for ever beside a free box, or with
\* the mutex.  (Without a box acquire() never returns.)
Wanting == {t \in Threads : pc[t] \in {"locking", "testing", "asleep", "woken", "taking"}}
SomebodyIsServed ==
    (boxes # {}) ~> []<>(Wanting = {} \/ \E t \in Threads : pc[t] = "taken")

-----------------------------------------------------------------------------
(* The inductive invariant of the proofs (BoxPoolProofs). *)

Critical == {"testing", "taking", "taken", "pushing", "notifying", "notified"}
Holders == {"taken", "judging", "pushing"}

\* The mutex is with the one thread between its lock and its unlock, and what
\* that thread found out about the queue still holds.
MutexHeld ==
    \A t \in Threads :
        /\ pc[t] \in Critical <=> mutex = t
        /\ pc[t] \in Holders <=> held[t] # NoBox
        /\ pc[t] = "taking" => available # <<>>
        /\ pc[t] # "idle" => tried >= MaxBoxes

\* The boxes that the constructor has not come to are nowhere yet.
Untried == \A b \in boxes : b < BoxIdStart + tried

Inv == TypeOK /\ MutexHeld /\ Untried /\ BoxesConserved /\ NoLostWakeup
=============================================================================
