------------------------ MODULE JudgeDeliveryCounts ------------------------
(***************************************************************************)
(* Proofs about JudgeDelivery, continued: that no message is lost, and how *)
(* far accepted_count may run ahead of the verdicts that were recorded.    *)
(***************************************************************************)
EXTENDS JudgeDeliveryProofs

-----------------------------------------------------------------------------
(* The steps that matter to a message. *)

\* The calls of on_message before its answer is due: a verdict may still follow.
Pending == Busy \ {"ack"}

\* No delivery is taken, answered or taken back, and nothing is committed.
Aside(w) ==
    /\ UNCHANGED <<ready, unacked, settled, current, tables>>
    /\ faults <= faults'
    /\ \A v \in Workers :
        /\ channel[v] => channel'[v]
        /\ pc'[v] \in Pending <=> pc[v] \in Pending
        /\ pc'[v] = "ack" <=> pc[v] = "ack"

\* A step of a worker moves its message or stands aside.
LEMMA Kinds ==
    ASSUME Inv, NEW w \in Workers, Step(w) \/ Failure(w)
    PROVE  \/ Aside(w) \/ Deliver(w) \/ Ack(w) \/ Nack(w)
           \/ Commit(w) \/ CommitUnanswered(w) \/ LoseRabbitMQ(w) \/ Crash(w)
<1> USE DEF Goto, broker, client, tables, Pending, Busy, InTransaction
<1>0. /\ TypeOK /\ faults \in Nat
      /\ channel \in [Workers -> BOOLEAN] /\ pc \in [Workers -> {
            "exited", "mysql", "rabbitmq", "consume", "judge", "ping", "start", "update",
            "delete", "insert", "problem", "commit", "rollback", "nack", "ack"}]
  BY FaultsAssumption DEF Inv, TypeOK
<1>1. CASE Restart(w) \/ ConnectMySQL(w) \/ ConsumeError(w)
  BY <1>0, <1>1 DEF Restart, ConnectMySQL, ConsumeError, Aside
<1>2. CASE ConnectRabbitMQ(w)
  BY <1>0, <1>2 DEF ConnectRabbitMQ, Aside
<1>3. CASE Judge(w) \/ Ping(w)
  BY <1>0, <1>3 DEF Judge, Ping, Aside
<1>4. CASE PingFails(w) \/ StartFails(w)
  BY <1>0, <1>4 DEF PingFails, StartFails, Fault, Aside
<1>5. CASE StartTransaction(w)
  <2>1. UNCHANGED tables
    BY <1>5, TablesStep DEF StartTransaction, Commit, CommitUnanswered
  <2> QED  BY <1>0, <1>5, <2>1 DEF StartTransaction, Aside
<1>6. CASE UpdateTask(w) \/ CountAccepted(w)
  BY <1>0, <1>6 DEF UpdateTask, CountAccepted, Aside
<1>7. CASE DeleteCases(w) \/ InsertCase(w)
  <2>1. PICK n \in Nat : pc' = [pc EXCEPT ![w] = AfterInserts(w, n)]
    BY <1>0, <1>7 DEF DeleteCases, InsertCase, TypeOK
  <2>2. AfterInserts(w, n) \in {"insert", "problem", "commit"}
    BY AfterInsertsCases
  <2>3. /\ pc[w] \in {"delete", "insert"}
        /\ UNCHANGED <<ready, unacked, settled, current, tables, channel, faults>>
    BY <1>7 DEF DeleteCases, InsertCase
  <2> QED  BY <1>0, <2>1, <2>2, <2>3 DEF Aside
<1>8. CASE StatementFails(w)
  BY <1>0, <1>8 DEF StatementFails, Fault, Aside
<1>9. CASE Rollback(w) \/ LoseMySQL(w)
  BY <1>0, <1>9 DEF Rollback, LoseMySQL, Fault, Aside
<1>10. CASE DeadlockVictim(w)
  <2>1. /\ pc[w] \in Pending /\ pc' = [pc EXCEPT ![w] = "rollback"]
        /\ UNCHANGED <<ready, unacked, settled, channel, current, tables, faults>>
    BY <1>10, VictimWaits DEF DeadlockVictim
  <2> QED  BY <1>0, <2>1 DEF Aside
<1> QED
  BY <1>1, <1>2, <1>3, <1>4, <1>5, <1>6, <1>7, <1>8, <1>9, <1>10 DEF Step, Failure

-----------------------------------------------------------------------------
(* No message is lost or doubled. *)

\* A worker that holds a delivery handles it, and before its ack the verdict may
\* still be missing.
LEMMA HolderHandles ==
    ASSUME Inv, NEW w \in Workers, unacked[w] # NoMessage
    PROVE  /\ channel[w] /\ unacked[w] = current[w] /\ pc[w] \in Busy
           /\ pc[w] = "ack" => current[w] \in recorded \cup Malformed
BY DEF Inv, WorkerInv, Holding, Handling

\* What the channel held is back in the queue.
LEMMA RequeueConserves ==
    ASSUME TypeOK, MessagesConserved, NEW w \in Workers, Requeue(w), UNCHANGED settled
    PROVE  MessagesConserved'
<1> USE DEF MessagesConserved, Requeue, TypeOK
<1>1. \A m \in Messages : m \in (ready \cup settled)' \/ \E v \in Workers : unacked'[v] = m
  BY VerdictsAssumption
<1>2. (ready \cap settled)' = {}
  OBVIOUS
<1>3. ASSUME NEW v \in Workers, unacked'[v] # NoMessage
      PROVE  /\ unacked'[v] \notin (ready \cup settled)'
             /\ \A u \in Workers \ {v} : unacked'[u] # unacked'[v]
  BY <1>3
<1> QED  BY <1>1, <1>2, <1>3

\* Each message stays at one place: Deliver, Ack and the requeue of the broker
\* move it whole.
LEMMA ConservedStep ==
    ASSUME Inv, MessagesConserved, NEW w \in Workers, Step(w) \/ Failure(w)
    PROVE  MessagesConserved'
<1>0. TypeOK
  BY DEF Inv
<1>1. CASE Aside(w) \/ Commit(w) \/ CommitUnanswered(w)
  BY <1>1 DEF Aside, Commit, CommitUnanswered, broker, MessagesConserved
<1>2. CASE Deliver(w)
  <2>1. PICK m \in ready : /\ unacked[w] = NoMessage /\ ready' = ready \ {m} /\ settled' = settled
                           /\ unacked' = [unacked EXCEPT ![w] = m]
    BY <1>2 DEF Deliver
  <2>2. \A n \in Messages : n \in (ready \cup settled)' \/ \E v \in Workers : unacked'[v] = n
    <3> SUFFICES ASSUME NEW n \in Messages, n \notin ready', n \notin settled'
                 PROVE  \E v \in Workers : unacked'[v] = n
      OBVIOUS
    <3>1. CASE n = m
      BY <1>0, <2>1, <3>1 DEF TypeOK
    <3>2. CASE n # m
      <4>1. PICK v \in Workers : unacked[v] = n
        BY <2>1, <3>2 DEF MessagesConserved
      <4>2. v # w
        BY <2>1, <4>1, VerdictsAssumption
      <4> QED  BY <1>0, <2>1, <4>1, <4>2 DEF TypeOK
    <3> QED  BY <3>1, <3>2
  <2>3. (ready \cap settled)' = {}
    BY <2>1 DEF MessagesConserved
  <2>4. ASSUME NEW v \in Workers, unacked'[v] # NoMessage
        PROVE  /\ unacked'[v] \notin (ready \cup settled)'
               /\ \A u \in Workers \ {v} : unacked'[u] # unacked'[v]
    BY <1>0, <2>1, <2>4 DEF MessagesConserved, TypeOK
  <2> QED  BY <2>2, <2>3, <2>4 DEF MessagesConserved
<1>3. CASE Ack(w)
  <2>1. /\ pc[w] = "ack" /\ ready' = ready /\ unacked' = [unacked EXCEPT ![w] = NoMessage]
        /\ settled' = IF channel[w] THEN settled \cup {current[w]} ELSE settled
    BY <1>3 DEF Ack, Goto
  <2>2. /\ channel[w] => unacked[w] = current[w] /\ current[w] # NoMessage
        /\ ~channel[w] => unacked[w] = NoMessage
    BY <2>1 DEF Inv, WorkerInv, Holding, Handling, Busy
  <2>3. \A n \in Messages : n \in (ready \cup settled)' \/ \E v \in Workers : unacked'[v] = n
    <3> SUFFICES ASSUME NEW n \in Messages, n \notin ready', n \notin settled'
                 PROVE  \E v \in Workers : unacked'[v] = n
      OBVIOUS
    <3>1. PICK v \in Workers : unacked[v] = n
      BY <2>1 DEF MessagesConserved
    <3>2. v # w
      BY <2>1, <2>2, <3>1, VerdictsAssumption
    <3> QED  BY <1>0, <2>1, <3>1, <3>2 DEF TypeOK
  <2>4. (ready \cap settled)' = {}
    BY <2>1, <2>2 DEF MessagesConserved
  <2>5. ASSUME NEW v \in Workers, unacked'[v] # NoMessage
        PROVE  /\ unacked'[v] \notin (ready \cup settled)'
               /\ \A u \in Workers \ {v} : unacked'[u] # unacked'[v]
    BY <1>0, <2>1, <2>2, <2>5 DEF MessagesConserved, TypeOK
  <2> QED  BY <2>3, <2>4, <2>5 DEF MessagesConserved
<1>4. CASE Nack(w) \/ LoseRabbitMQ(w) \/ Crash(w)
  BY <1>0, <1>4, RequeueConserves DEF Nack, LoseRabbitMQ, Crash
<1> QED  BY <1>1, <1>2, <1>3, <1>4, Kinds

-----------------------------------------------------------------------------
(* Every count is paid for: by a message that has become recorded, or a fault. *)

\* How the size of a finite set changes with an element.
LEMMA Sizes ==
    ASSUME NEW S, IsFiniteSet(S), NEW T
    PROVE  /\ Cardinality(S) \in Nat
           /\ T \subseteq S => IsFiniteSet(T) /\ Cardinality(T) \in Nat
           /\ T \subseteq S => Cardinality(T) <= Cardinality(S)
           /\ \A x : T \subseteq S \cup {x} => Cardinality(T) <= Cardinality(S) + 1
           /\ \A x \in S : T \subseteq S \ {x} => Cardinality(T) + 1 <= Cardinality(S)
<1>1. Cardinality(S) \in Nat
  BY FS_CardinalityType
<1>2. ASSUME T \subseteq S
      PROVE  IsFiniteSet(T) /\ Cardinality(T) \in Nat /\ Cardinality(T) <= Cardinality(S)
  BY <1>2, FS_Subset, FS_CardinalityType
<1>3. ASSUME NEW x, T \subseteq S \cup {x} PROVE Cardinality(T) <= Cardinality(S) + 1
  <2>0. /\ IsFiniteSet(S \cup {x})
        /\ Cardinality(S \cup {x}) = IF x \in S THEN Cardinality(S) ELSE Cardinality(S) + 1
    BY FS_AddElement
  <2>1. /\ IsFiniteSet(S \cup {x}) /\ Cardinality(S \cup {x}) \in Nat
        /\ Cardinality(S \cup {x}) <= Cardinality(S) + 1
    BY <1>1, <2>0
  <2>2. Cardinality(T) \in Nat /\ Cardinality(T) <= Cardinality(S \cup {x})
    BY <1>3, <2>1, FS_Subset, FS_CardinalityType
  <2> QED  BY <1>1, <2>1, <2>2
<1>4. ASSUME NEW x \in S, T \subseteq S \ {x} PROVE Cardinality(T) + 1 <= Cardinality(S)
  <2>1. /\ IsFiniteSet(S \ {x}) /\ Cardinality(S \ {x}) \in Int
        /\ Cardinality(S \ {x}) = Cardinality(S) - 1
    BY <1>1, FS_RemoveElement
  <2>2. Cardinality(T) \in Nat /\ Cardinality(T) <= Cardinality(S \ {x})
    BY <1>4, <2>1, FS_Subset, FS_CardinalityType
  <2> QED  BY <1>1, <2>1, <2>2
<1> QED  BY <1>1, <1>2, <1>3, <1>4

\* A union is no larger than its parts together.
LEMMA UnionSize ==
    ASSUME NEW S, NEW T, NEW U, IsFiniteSet(S), IsFiniteSet(T), IsFiniteSet(U)
    PROVE  /\ IsFiniteSet((S \cup T) \cup U) /\ Cardinality((S \cup T) \cup U) \in Nat
           /\ Cardinality((S \cup T) \cup U) <=
                  Cardinality(S) + Cardinality(T) + Cardinality(U)
<1>1. ASSUME NEW A, NEW B, IsFiniteSet(A), IsFiniteSet(B)
      PROVE  /\ IsFiniteSet(A \cup B) /\ Cardinality(A \cup B) \in Nat
             /\ Cardinality(A \cup B) <= Cardinality(A) + Cardinality(B)
  <2>1. /\ IsFiniteSet(A \cup B)
        /\ Cardinality(A \cup B) = Cardinality(A) + Cardinality(B) - Cardinality(A \cap B)
    BY <1>1, FS_Union
  <2>2. Cardinality(A \cap B) \in Nat
    BY <1>1, FS_Intersection, FS_CardinalityType
  <2>3. Cardinality(A \cup B) \in Nat /\ Cardinality(A) \in Nat /\ Cardinality(B) \in Nat
    BY <1>1, <2>1, FS_CardinalityType
  <2> QED  BY <2>1, <2>2, <2>3
<1>2. Cardinality(S) \in Nat /\ Cardinality(T) \in Nat /\ Cardinality(U) \in Nat
  BY FS_CardinalityType
<1>3. /\ IsFiniteSet(S \cup T) /\ Cardinality(S \cup T) \in Nat
      /\ Cardinality(S \cup T) <= Cardinality(S) + Cardinality(T)
  BY <1>1
<1>4. /\ IsFiniteSet((S \cup T) \cup U) /\ Cardinality((S \cup T) \cup U) \in Nat
      /\ Cardinality((S \cup T) \cup U) <= Cardinality(S \cup T) + Cardinality(U)
  BY <1>1, <1>3
<1> QED  BY <1>2, <1>3, <1>4

\* The sets that are counted are finite.
LEMMA BudgetTypes ==
    ASSUME TypeOK, NEW p \in Problems
    PROVE  /\ IsFiniteSet(CountableFor(p)) /\ Cardinality(CountableFor(p)) \in Nat
           /\ IsFiniteSet(Queued(p)) /\ Cardinality(Queued(p)) \in Nat
           /\ IsFiniteSet(Underway(p)) /\ Cardinality(Underway(p)) \in Nat
           /\ IsFiniteSet(Submitted(p)) /\ Cardinality(Submitted(p)) \in Nat
           /\ accepted[p] \in Nat /\ faults \in Nat
<1>1. CountableFor(p) \subseteq Messages /\ Queued(p) \subseteq Messages
  BY DEF CountableFor, Queued
<1>2. Underway(p) \subseteq Workers /\ Submitted(p) \subseteq Messages
  BY DEF TypeOK, Underway, Submitted
<1>3. accepted[p] \in Nat /\ faults \in Nat
  BY FaultsAssumption DEF TypeOK
<1>4. \A S : S \subseteq Messages \/ S \subseteq Workers =>
              IsFiniteSet(S) /\ Cardinality(S) \in Nat
  BY PopulationAssumption, Sizes
<1> QED  BY <1>1, <1>2, <1>3, <1>4

\* What a verdict adds to a problem's count.
LEMMA CountGrows ==
    ASSUME TypeOK, NEW w \in Workers, Recording(w), NEW p \in Problems
    PROVE  \/ accepted'[p] = accepted[p]
           \/ accepted'[p] = accepted[p] + 1 /\ current[w] \in CountableFor(p)
BY DEF TypeOK, Recording, Counts, CountableFor

\* What a channel held comes back to the queue; the budget of a problem allows for
\* it if its worker is not under way any more, or for a fault.
LEMMA RequeuedSize ==
    ASSUME Inv, NEW w \in Workers, Requeue(w), NEW p \in Problems
    PROVE  /\ Cardinality(Queued(p)') \in Nat
           /\ Cardinality(Queued(p)') <= Cardinality(Queued(p)) + 1
           /\ current[w] \notin CountableFor(p) =>
                    Cardinality(Queued(p)') <= Cardinality(Queued(p))
<1> USE DEF Queued
<1>0. TypeOK
  BY DEF Inv
<1>1. IsFiniteSet(Queued(p)) /\ IsFiniteSet(Queued(p) \cup {unacked[w]})
  BY <1>0, BudgetTypes, FS_AddElement
<1>2. Queued(p)' \subseteq Queued(p) \cup {unacked[w]}
  BY DEF Requeue
<1>3. current[w] \notin CountableFor(p) => Queued(p)' \subseteq Queued(p)
  BY HolderHandles DEF Requeue
<1> QED  BY <1>1, <1>2, <1>3, Sizes

\* The budget of a problem: a count uses up a message that was still to be
\* recorded, and only a fault can make a recorded message countable again.
LEMMA CountBudgetStep ==
    ASSUME Inv, CountBudget, NEW w \in Workers, Step(w) \/ Failure(w)
    PROVE  CountBudget'
<1>0. TypeOK /\ TypeOK' /\ Handling(w) /\ faults \in Nat
  <2>1. [Next]_vars
    BY DEF Next
  <2> QED  BY <2>1, TypeStep, FaultsAssumption DEF Inv, WorkerInv, TypeOK
<1> SUFFICES ASSUME NEW p \in Problems
             PROVE  accepted'[p] + Cardinality(Queued(p)') + Cardinality(Underway(p)')
                        <= Cardinality(CountableFor(p)) + faults'
  BY DEF CountBudget, CountableFor
<1> DEFINE C == Cardinality(CountableFor(p))
           Q == Cardinality(Queued(p))
           U == Cardinality(Underway(p))
           Q1 == Cardinality(Queued(p)')
           U1 == Cardinality(Underway(p)')
<1> SUFFICES accepted'[p] + Q1 + U1 <= C + faults'
  OBVIOUS
<1>1. accepted[p] + Q + U <= C + faults
  BY DEF CountBudget
<1>2. /\ C \in Nat /\ Q \in Nat /\ U \in Nat /\ accepted[p] \in Nat
      /\ IsFiniteSet(Queued(p)) /\ IsFiniteSet(Underway(p))
  BY <1>0, BudgetTypes
<1>3. /\ Q1 \in Nat /\ U1 \in Nat /\ accepted'[p] \in Nat /\ faults' \in Nat
  <2>1. IsFiniteSet(Queued(p)') /\ IsFiniteSet(Underway(p)')
    BY FS_Subset, PopulationAssumption DEF Queued, CountableFor, Underway
  <2> QED  BY <1>0, <2>1, FS_CardinalityType, FaultsAssumption DEF TypeOK
<1>4. Underway(p) = {v \in Workers : pc[v] \in Pending /\ current[v] \in CountableFor(p)}
  BY DEF Underway, Pending
<1>5. Underway(p)' = {v \in Workers : pc'[v] \in Pending /\ current'[v] \in CountableFor(p)}
  BY DEF Underway, Pending, CountableFor
<1>6. ASSUME NEW v \in Workers \ {w} PROVE pc'[v] = pc[v] /\ current'[v] = current[v]
  BY <1>0, <1>6, Frame
<1>7. /\ Underway(p)' \subseteq Underway(p) \cup {w}
      /\ w \notin Underway(p)' => Underway(p)' \subseteq Underway(p) \ {w}
      /\ w \in Underway(p) => Underway(p)' \subseteq Underway(p)
  BY <1>4, <1>5, <1>6
<1>8. /\ U1 <= U + 1
      /\ w \notin Underway(p)' => U1 <= U
      /\ w \notin Underway(p)' /\ w \in Underway(p) => U1 + 1 <= U
      /\ w \in Underway(p) => U1 <= U
  <2>1. /\ U1 <= U + 1
        /\ w \in Underway(p) => U1 <= U
    BY <1>2, <1>7, Sizes
  <2>2. ASSUME w \notin Underway(p)' PROVE U1 <= U /\ (w \in Underway(p) => U1 + 1 <= U)
    BY <1>2, <1>7, <2>2, Sizes
  <2> QED  BY <2>1, <2>2
<1>9. Queued(p)' = ready' \cap CountableFor(p)
  BY DEF Queued, CountableFor
<1> HIDE DEF C, Q, U, Q1, U1
<1>10. CASE Aside(w)
  <2>1. Queued(p)' = Queued(p) /\ Underway(p)' = Underway(p)
    BY <1>4, <1>5, <1>9, <1>10 DEF Aside, Queued
  <2>2. accepted'[p] = accepted[p] /\ faults <= faults'
    BY <1>10 DEF Aside, tables
  <2>3. Q1 = Q /\ U1 = U
    BY <2>1 DEF Q, U, Q1, U1
  <2> QED  BY <1>0, <1>1, <1>2, <1>3, <2>2, <2>3
<1>11. CASE Deliver(w)
  <2>1. PICK m \in ready : /\ ready' = ready \ {m} /\ UNCHANGED <<tables, faults>>
                           /\ current' = [current EXCEPT ![w] = m]
    BY <1>11 DEF Deliver
  <2>2. current'[w] = m /\ accepted' = accepted /\ faults' = faults
    BY <1>0, <2>1 DEF TypeOK, tables
  <2>3. CASE m \in CountableFor(p)
    <3>1. m \in Queued(p) /\ Queued(p)' \subseteq Queued(p) \ {m}
      BY <1>9, <2>1, <2>3 DEF Queued
    <3>2. Q1 + 1 <= Q
      BY <1>2, <3>1, Sizes DEF Q, Q1
    <3> QED  BY <1>0, <1>1, <1>2, <1>3, <1>8, <2>2, <3>2
  <2>4. CASE m \notin CountableFor(p)
    <3>1. Queued(p)' \subseteq Queued(p) /\ w \notin Underway(p)'
      BY <1>5, <1>9, <2>1, <2>2, <2>4 DEF Queued
    <3>2. Q1 <= Q
      BY <1>2, <3>1, Sizes DEF Q, Q1
    <3> QED  BY <1>0, <1>1, <1>2, <1>3, <1>8, <2>2, <3>1, <3>2
  <2> QED  BY <2>3, <2>4
<1>12. CASE Ack(w)
  <2>1. pc'[w] = "consume" /\ ready' = ready /\ UNCHANGED <<tables, faults>>
    BY <1>0, <1>12 DEF Ack, Goto, TypeOK
  <2>2. w \notin Underway(p)' /\ Queued(p)' = Queued(p)
    BY <1>5, <1>9, <2>1 DEF Queued, Pending, Busy, InTransaction
  <2>3. Q1 = Q /\ accepted'[p] = accepted[p] /\ faults' = faults
    BY <2>1, <2>2 DEF Q, Q1, tables
  <2> QED  BY <1>0, <1>1, <1>2, <1>3, <1>8, <2>2, <2>3
<1>13. CASE Nack(w)
  <2>1. /\ pc[w] = "nack" /\ pc'[w] = "consume" /\ Requeue(w)
        /\ accepted' = accepted /\ faults' = faults
    BY <1>0, <1>13 DEF Nack, Goto, TypeOK, tables
  <2>2. w \notin Underway(p)' /\ (current[w] \in CountableFor(p) => w \in Underway(p))
    BY <1>4, <1>5, <2>1 DEF Pending, Busy, InTransaction
  <2>3. Q1 <= Q + 1 /\ (current[w] \notin CountableFor(p) => Q1 <= Q)
    BY <2>1, RequeuedSize DEF Q, Q1
  <2> QED  BY <1>0, <1>1, <1>2, <1>3, <1>8, <2>1, <2>2, <2>3
<1>14. CASE LoseRabbitMQ(w) \/ Crash(w)
  <2>1. Requeue(w) /\ accepted' = accepted /\ faults' = faults + 1
    BY <1>14 DEF LoseRabbitMQ, Crash, Fault, tables
  <2>2. w \in Underway(p) \/ w \notin Underway(p)'
    <3>1. CASE LoseRabbitMQ(w)
      BY <1>4, <1>5, <3>1 DEF LoseRabbitMQ, client
    <3>2. CASE Crash(w)
      <4>1. pc'[w] = "exited"
        BY <1>0, <3>2 DEF Crash, TypeOK
      <4> QED  BY <1>5, <4>1 DEF Pending, Busy, InTransaction
    <3> QED  BY <1>14, <3>1, <3>2
  <2>3. Q1 <= Q + 1
    BY <2>1, RequeuedSize DEF Q, Q1
  <2> QED  BY <1>0, <1>1, <1>2, <1>3, <1>8, <2>1, <2>2, <2>3
<1>15. CASE Commit(w) \/ CommitUnanswered(w)
  <2>1. /\ \/ accepted'[p] = accepted[p]
           \/ accepted'[p] = accepted[p] + 1 /\ current[w] \in CountableFor(p)
        /\ pc[w] = "commit" /\ ready' = ready
    BY <1>0, <1>15, CommitRecords, CountGrows DEF Commit, CommitUnanswered, Goto, broker
  <2>2. current[w] \in CountableFor(p) <=> w \in Underway(p)
    BY <1>4, <2>1 DEF Pending, Busy, InTransaction
  <2>3. Q1 = Q
    BY <1>9, <2>1 DEF Q, Q1, Queued
  <2>4. CASE Commit(w)
    <3>1. pc'[w] = "ack" /\ faults' = faults
      BY <1>0, <2>4 DEF Commit, Goto, TypeOK
    <3>2. w \notin Underway(p)'
      BY <1>5, <3>1 DEF Pending
    <3> QED  BY <1>0, <1>1, <1>2, <1>3, <1>8, <2>1, <2>2, <2>3, <3>1, <3>2
  <2>5. CASE CommitUnanswered(w)
    <3>1. faults' = faults + 1 /\ current' = current
      BY <2>5 DEF CommitUnanswered, Fault, client
    <3>2. w \in Underway(p) \/ w \notin Underway(p)'
      BY <1>5, <2>2, <3>1
    <3> QED  BY <1>0, <1>1, <1>2, <1>3, <1>8, <2>1, <2>3, <3>1, <3>2
  <2> QED  BY <1>15, <2>4, <2>5
<1> QED  BY <1>10, <1>11, <1>12, <1>13, <1>14, <1>15, Kinds

-----------------------------------------------------------------------------
(* While nothing fails, nothing is judged twice. *)

\* Faults are counted, never forgotten, and a step without one is none of those
\* that lose a channel or an answer.
LEMMA FaultFree ==
    ASSUME Inv, NEW w \in Workers, Step(w) \/ Failure(w), faults' = 0
    PROVE  faults = 0 /\ (Aside(w) \/ Deliver(w) \/ Ack(w) \/ Nack(w) \/ Commit(w))
<1>1. faults \in Nat
  BY FaultsAssumption DEF Inv, TypeOK
<1>2. CASE CommitUnanswered(w) \/ LoseRabbitMQ(w) \/ Crash(w)
  BY <1>1, <1>2 DEF CommitUnanswered, LoseRabbitMQ, Crash, Fault
<1>3. CASE Aside(w)
  BY <1>1, <1>3 DEF Aside
<1>4. CASE Deliver(w) \/ Ack(w) \/ Nack(w) \/ Commit(w)
  BY <1>4 DEF Deliver, Ack, Nack, Commit
<1> QED  BY <1>2, <1>3, <1>4, Kinds

\* Without a fault every busy worker is connected, so that its ack settles what it
\* has committed.
LEMMA QuietStep ==
    ASSUME Inv, Quiet, NEW w \in Workers, Step(w) \/ Failure(w)
    PROVE  Quiet'
<1> SUFFICES ASSUME faults' = 0
             PROVE  /\ \A v \in Workers : pc'[v] \in Busy => channel'[v]
                    /\ \A m \in recorded' :
                          m \in settled' \/ \E v \in Workers : pc'[v] = "ack" /\ current'[v] = m
  BY DEF Quiet
<1>0. TypeOK /\ faults = 0
  BY FaultFree DEF Inv
<1>1. /\ \A v \in Workers : pc[v] \in Busy => channel[v]
      /\ \A m \in recorded :
            m \in settled \/ \E v \in Workers : pc[v] = "ack" /\ current[v] = m
  BY <1>0 DEF Quiet
<1>2. ASSUME NEW v \in Workers \ {w}
      PROVE  pc'[v] = pc[v] /\ current'[v] = current[v] /\ channel'[v] = channel[v]
  BY <1>0, <1>2, Frame
<1>3. CASE Aside(w)
  <2>1. \A v \in Workers : /\ channel[v] => channel'[v]
                           /\ pc'[v] \in Busy <=> pc[v] \in Busy
                           /\ pc'[v] = "ack" <=> pc[v] = "ack"
    BY <1>3 DEF Aside, Pending, Busy
  <2>2. recorded' = recorded /\ settled' = settled /\ current' = current
    BY <1>3 DEF Aside, tables
  <2> QED  BY <1>1, <2>1, <2>2
<1>4. CASE Deliver(w)
  <2>1. /\ pc[w] = "consume" /\ channel[w] /\ channel' = channel
        /\ recorded' = recorded /\ settled' = settled
    BY <1>4 DEF Deliver, Goto, tables
  <2> QED  BY <1>1, <1>2, <2>1
<1>5. CASE Ack(w)
  <2>1. /\ pc[w] = "ack" /\ pc'[w] = "consume" /\ recorded' = recorded
        /\ settled' = IF channel[w] THEN settled \cup {current[w]} ELSE settled
    BY <1>0, <1>5 DEF Ack, Goto, tables, TypeOK
  <2>2. channel[w]
    BY <1>1, <2>1 DEF Busy
  <2>3. pc'[w] \notin Busy
    BY <2>1 DEF Busy, InTransaction
  <2> QED  BY <1>1, <1>2, <2>1, <2>2, <2>3
<1>6. CASE Nack(w)
  <2>1. /\ pc[w] = "nack" /\ pc'[w] = "consume" /\ recorded' = recorded /\ settled' = settled
    BY <1>0, <1>6 DEF Nack, Goto, tables, TypeOK
  <2>2. pc'[w] \notin Busy
    BY <2>1 DEF Busy, InTransaction
  <2> QED  BY <1>1, <1>2, <2>1, <2>2
<1>7. CASE Commit(w)
  <2>1. /\ pc[w] = "commit" /\ pc'[w] = "ack" /\ current'[w] = current[w]
        /\ settled' = settled /\ channel' = channel
    BY <1>0, <1>7 DEF Commit, Goto, broker, client, TypeOK
  <2>2. recorded' = recorded \cup {current[w]}
    BY <1>7, CommitRecords DEF Recording
  <2>3. pc[w] \in Busy
    BY <2>1 DEF Busy, InTransaction
  <2> QED  BY <1>1, <1>2, <2>1, <2>2, <2>3
<1> QED  BY <1>3, <1>4, <1>5, <1>6, <1>7, FaultFree

\* A row leaves NewRow only by a recorded message.
LEMMA RowsAreRecordedStep ==
    ASSUME Inv, RowsAreRecorded, NEW w \in Workers, Step(w) \/ Failure(w)
    PROVE  RowsAreRecorded'
<1>1. CASE UNCHANGED tables
  BY <1>1 DEF RowsAreRecorded, tables
<1>2. CASE Recording(w)
  <2>1. /\ row' = [row EXCEPT ![TaskOf[current[w]]] = RowFor(TaskOf[current[w]], result[w])]
        /\ recorded' = recorded \cup {current[w]} /\ row \in [Tasks -> Rows]
    BY <1>2 DEF Recording, Inv, TypeOK
  <2>2. ASSUME NEW t \in Tasks, row'[t] # NewRow PROVE \E m \in recorded' : TaskOf[m] = t
    <3>1. CASE t = TaskOf[current[w]]
      BY <2>1, <3>1
    <3>2. CASE t # TaskOf[current[w]]
      <4>1. row[t] # NewRow
        BY <2>1, <2>2, <3>2
      <4> QED  BY <2>1, <4>1 DEF RowsAreRecorded
    <3> QED  BY <3>1, <3>2
  <2> QED  BY <2>2 DEF RowsAreRecorded
<1> QED  BY <1>1, <1>2, TablesStep

\* Without a fault, what is about to be committed has not been committed before:
\* it would be settled, or with another worker that is about to ack it.
LEMMA CommittedFirst ==
    ASSUME Inv, MessagesConserved, Quiet, faults = 0, NEW w \in Workers, pc[w] = "commit"
    PROVE  current[w] \notin recorded
<1>1. /\ \A v \in Workers : Holding(v) /\ Handling(v)
      /\ \A v \in Workers : pc[v] \in Busy => channel[v]
  BY DEF Inv, WorkerInv, Quiet
<1>2. \A v \in Workers : pc[v] \in Busy => unacked[v] = current[v] /\ current[v] # NoMessage
  BY <1>1 DEF Holding, Handling
<1>3. pc[w] \in Busy
  BY DEF Busy, InTransaction
<1> SUFFICES ASSUME current[w] \in recorded PROVE FALSE
  OBVIOUS
<1>4. CASE current[w] \in settled
  BY <1>2, <1>3, <1>4 DEF MessagesConserved
<1>5. CASE \E v \in Workers : pc[v] = "ack" /\ current[v] = current[w]
  <2>1. PICK v \in Workers : pc[v] = "ack" /\ current[v] = current[w]
    BY <1>5
  <2>2. v # w /\ pc[v] \in Busy
    BY <2>1 DEF Busy
  <2> QED  BY <1>2, <1>3, <2>1, <2>2 DEF MessagesConserved
<1> QED  BY <1>4, <1>5 DEF Quiet

\* Without a fault, and with one message for each row, a verdict adds to the count
\* what it adds to the solved rows, or to the recorded rows that do not exist.
LEMMA CountedOnceStep ==
    ASSUME Inv, MessagesConserved, Quiet, RowsAreRecorded, CountedOnce,
           NEW w \in Workers, Step(w) \/ Failure(w)
    PROVE  CountedOnce'
<1> DEFINE Exact(p) == accepted[p] - Cardinality(Solved(p)) \in 0..Cardinality(Unseen(p))
<1> SUFFICES ASSUME OneMessageEach, faults' = 0, NEW p \in Problems
             PROVE  Exact(p)'
  BY DEF CountedOnce, OneMessageEach
<1>0. TypeOK /\ faults = 0 /\ RecordedHasVerdict
  BY FaultFree DEF Inv
<1>1. Exact(p)
  BY <1>0 DEF CountedOnce
<1>2. CASE UNCHANGED tables
  <2>1. Solved(p)' = Solved(p) /\ Unseen(p)' = Unseen(p) /\ accepted'[p] = accepted[p]
    BY <1>2 DEF Solved, Unseen, tables
  <2> QED  BY <1>1, <2>1
<1>3. CASE (Commit(w) \/ CommitUnanswered(w)) /\ Recording(w)
  <2> DEFINE m == current[w]
             t == TaskOf[m]
             r == result[w]
  <2>1. /\ m \in Messages \ Malformed /\ t \in Tasks /\ r \in Results
        /\ row' = [row EXCEPT ![t] = RowFor(t, r)]
        /\ accepted' = IF Counts(t, r) THEN [accepted EXCEPT ![ProblemOf[t]] = @ + 1]
                       ELSE accepted
        /\ recorded' = recorded \cup {m}
    BY <1>3 DEF Recording
  <2>2. pc[w] = "commit"
    BY <1>3 DEF Commit, CommitUnanswered, Goto
  <2>3. m \notin recorded
    BY <1>0, <2>2, CommittedFirst
  <2>4. \A n \in recorded : TaskOf[n] # t
    BY <1>0, <2>1, <2>3 DEF RecordedHasVerdict, OneMessageEach, TypeOK
  <2>5. row[t] = NewRow
    BY <2>1, <2>4 DEF RowsAreRecorded
  <2>6. t \notin Solved(p) /\ t \notin Unseen(p)
    BY <2>4, <2>5 DEF Solved, Unseen, NewRow
  <2>7. row'[t].status = StatusFor(t, r.status) /\ \A s \in Tasks \ {t} : row'[s] = row[s]
    BY <1>0, <2>1 DEF TypeOK, RowFor
  <2>8. \A s \in Tasks \ {t} : s \in Solved(p)' <=> s \in Solved(p)
    BY <2>7 DEF Solved
  <2>9. \A s \in Tasks \ {t} : s \in Unseen(p)' <=> s \in Unseen(p)
    BY <2>1 DEF Unseen
  <2>10. /\ Solved(p) \subseteq Tasks /\ Solved(p)' \subseteq Tasks
         /\ Unseen(p) \subseteq Tasks /\ Unseen(p)' \subseteq Tasks
    BY VerdictsAssumption DEF Solved, Unseen
  <2>11. /\ IsFiniteSet(Solved(p)) /\ Cardinality(Solved(p)) \in Nat
         /\ IsFiniteSet(Unseen(p)) /\ Cardinality(Unseen(p)) \in Nat
         /\ IsFiniteSet(Unseen(p)') /\ Cardinality(Unseen(p)') \in Nat
         /\ accepted[p] \in Nat
    BY <1>0, <2>10, TasksAssumption, FS_Subset, FS_CardinalityType DEF TypeOK
  <2>12. CASE Counts(t, r) /\ ProblemOf[t] = p
    <3>1. accepted'[p] = accepted[p] + 1 /\ t \notin Runs
      BY <1>0, <2>1, <2>12 DEF TypeOK, Counts
    <3>2. CASE t \notin Absent
      <4>1. t \in Solved(p)' /\ t \notin Unseen(p)'
        BY <2>1, <2>7, <2>12, <3>1, <3>2 DEF Solved, Unseen, StatusFor, Counts
      <4>2. Solved(p)' = Solved(p) \cup {t} /\ Unseen(p)' = Unseen(p)
        BY <2>6, <2>8, <2>9, <2>10, <4>1
      <4>3. Cardinality(Solved(p)') = Cardinality(Solved(p)) + 1
        BY <2>6, <2>11, <4>2, FS_AddElement
      <4> QED  BY <1>1, <2>11, <3>1, <4>2, <4>3
    <3>3. CASE t \in Absent
      <4>1. t \notin Solved(p)' /\ t \in Unseen(p)'
        BY <2>1, <2>7, <2>12, <3>1, <3>3 DEF Solved, Unseen, StatusFor, NewRow
      <4>2. Solved(p)' = Solved(p) /\ Unseen(p)' = Unseen(p) \cup {t}
        BY <2>6, <2>8, <2>9, <2>10, <4>1
      <4>3. Cardinality(Unseen(p)') = Cardinality(Unseen(p)) + 1
        BY <2>6, <2>11, <4>2, FS_AddElement
      <4> QED  BY <1>1, <2>11, <3>1, <4>2, <4>3
    <3> QED  BY <3>2, <3>3
  <2>13. CASE ~(Counts(t, r) /\ ProblemOf[t] = p)
    <3>1. accepted'[p] = accepted[p]
      BY <1>0, <2>1, <2>13 DEF TypeOK
    <3>2. t \notin Solved(p)'
      <4>1. p # NoProblem
        BY VerdictsAssumption
      <4> QED  BY <2>7, <2>13, <4>1 DEF Solved, Counts, StatusFor, NewRow
    <3>3. Solved(p)' = Solved(p) /\ Unseen(p) \subseteq Unseen(p)'
      BY <2>6, <2>8, <2>9, <2>10, <3>2
    <3>4. Cardinality(Unseen(p)) <= Cardinality(Unseen(p)')
      BY <2>11, <3>3, FS_Subset
    <3> QED  BY <1>1, <2>11, <3>1, <3>3, <3>4
  <2> QED  BY <2>12, <2>13
<1> QED  BY <1>2, <1>3, TablesStep

-----------------------------------------------------------------------------
(* The theorems. *)

\* At the start every message is in the queue and nothing is counted.
LEMMA InitCountInv == Init => CountInv
<1> SUFFICES ASSUME Init PROVE CountInv
  OBVIOUS
<1>1. MessagesConserved
  BY DEF Init, MessagesConserved
<1>2. Quiet /\ RowsAreRecorded
  BY DEF Init, Quiet, RowsAreRecorded, Busy, InTransaction
<1>3. ASSUME NEW p \in Problems
      PROVE  /\ Queued(p) = CountableFor(p) /\ Underway(p) = {}
             /\ Solved(p) = {} /\ Unseen(p) = {} /\ accepted[p] = 0
  BY DEF Init, Queued, CountableFor, Underway, Solved, Unseen, NewRow, Busy, InTransaction
<1>4. ASSUME NEW p \in Problems
      PROVE  /\ Cardinality(Queued(p)) = Cardinality(CountableFor(p))
             /\ Cardinality(Underway(p)) = 0 /\ Cardinality(Solved(p)) = 0
             /\ Cardinality(Unseen(p)) = 0 /\ Cardinality(CountableFor(p)) \in Nat
  <2>1. Cardinality(CountableFor(p)) \in Nat
    BY InitInv, BudgetTypes DEF Inv
  <2> QED  BY <1>3, <2>1, FS_EmptySet
<1>5. CountBudget
  <2> SUFFICES ASSUME NEW p \in Problems
               PROVE  accepted[p] + Cardinality(Queued(p)) + Cardinality(Underway(p))
                          <= Cardinality(CountableFor(p)) + faults
    BY DEF CountBudget
  <2>1. faults = 0
    BY DEF Init
  <2> QED  BY <1>3, <1>4, <2>1
<1>6. CountedOnce
  <2> SUFFICES ASSUME NEW p \in Problems
               PROVE  accepted[p] - Cardinality(Solved(p)) \in 0..Cardinality(Unseen(p))
    BY DEF CountedOnce
  <2> QED  BY <1>3, <1>4
<1> QED  BY <1>1, <1>2, <1>5, <1>6 DEF CountInv

\* The invariant about messages and counts, on top of Inv.
LEMMA CountInvariance == Spec => [](Inv /\ CountInv)
<1>1. ASSUME Inv, CountInv, [Next]_vars PROVE CountInv'
  <2>1. CASE UNCHANGED vars
    <3>1. MessagesConserved' /\ Quiet' /\ RowsAreRecorded'
      BY <1>1, <2>1 DEF vars, broker, client, tables, CountInv, MessagesConserved, Quiet,
          RowsAreRecorded
    <3>2. CountBudget'
      BY <1>1, <2>1 DEF vars, broker, client, tables, CountInv, CountBudget, Queued, Underway,
          CountableFor
    <3>3. CountedOnce'
      BY <1>1, <2>1 DEF vars, tables, CountInv, CountedOnce, OneMessageEach, Solved, Unseen
    <3> QED  BY <3>1, <3>2, <3>3 DEF CountInv
  <2>2. ASSUME NEW w \in Workers, Step(w) \/ Failure(w) PROVE CountInv'
    BY <1>1, <2>2, ConservedStep, CountBudgetStep, QuietStep, RowsAreRecordedStep,
       CountedOnceStep DEF CountInv
  <2> QED  BY <1>1, <2>1, <2>2 DEF Next
<1> QED  BY <1>1, InitInv, InvStep, InitCountInv, PTL DEF Spec

\* Every message is in the queue, with one worker that has not answered it, or
\* settled, for any number of workers, messages and faults.
THEOREM NoMessageIsLost == Spec => []MessagesConserved
<1>1. CountInv => MessagesConserved
  BY DEF CountInv
<1> QED  BY <1>1, CountInvariance, PTL

\* accepted_count is right, submission by submission, for as long as nothing fails.
THEOREM CountsAreExact == Spec => []CountedOnce
<1>1. CountInv => CountedOnce
  BY DEF CountInv
<1> QED  BY <1>1, CountInvariance, PTL

\* A message that may be counted has been recorded, waits in the queue, or is with
\* a worker that has still to commit it.
LEMMA CountableSomewhere ==
    ASSUME Inv, MessagesConserved, NEW p \in Problems
    PROVE  CountableFor(p) \subseteq
               Submitted(p) \cup Queued(p) \cup {current[w] : w \in Underway(p)}
<1> SUFFICES ASSUME NEW m \in CountableFor(p), m \notin Submitted(p), m \notin Queued(p)
             PROVE  \E w \in Underway(p) : current[w] = m
  OBVIOUS
<1>1. m \in Messages \ Malformed /\ m \notin recorded /\ m \notin ready /\ m # NoMessage
  BY VerdictsAssumption DEF CountableFor, Submitted, Queued
<1>2. m \notin settled
  BY <1>1 DEF Inv, SettledRecorded
<1>3. PICK w \in Workers : unacked[w] = m
  BY <1>1, <1>2 DEF MessagesConserved
<1>4. current[w] = m /\ pc[w] \in Busy \ {"ack"}
  BY <1>1, <1>3, HolderHandles
<1> QED  BY <1>4 DEF Underway

\* accepted_count runs ahead of the recorded verdicts by no more than the faults
\* there were, however often a message is published, judged and redelivered.
THEOREM RecountsCostFaults == Spec => []RecountsAreFaults
<1>1. ASSUME Inv, CountInv PROVE RecountsAreFaults
  <2> SUFFICES ASSUME NEW p \in Problems
               PROVE  accepted[p] <= Cardinality(Submitted(p)) + faults
    BY DEF RecountsAreFaults
  <2> DEFINE I == {current[w] : w \in Underway(p)}
             S == Submitted(p)
             Q == Queued(p)
  <2>1. TypeOK
    BY <1>1 DEF Inv
  <2>2. /\ IsFiniteSet(S) /\ Cardinality(S) \in Nat
        /\ IsFiniteSet(Q) /\ Cardinality(Q) \in Nat
        /\ IsFiniteSet(Underway(p)) /\ Cardinality(Underway(p)) \in Nat
        /\ Cardinality(CountableFor(p)) \in Nat
        /\ accepted[p] \in Nat /\ faults \in Nat
    BY <2>1, BudgetTypes
  <2>3. IsFiniteSet(I) /\ Cardinality(I) <= Cardinality(Underway(p)) /\ Cardinality(I) \in Nat
    <3> DEFINE f == [w \in Underway(p) |-> current[w]]
    <3>1. f \in Surjection(Underway(p), I)
      BY DEF Surjection
    <3> QED  BY <2>2, <3>1, FS_Surjection, FS_CardinalityType
  <2>4. /\ IsFiniteSet((S \cup Q) \cup I) /\ Cardinality((S \cup Q) \cup I) \in Nat
        /\ Cardinality((S \cup Q) \cup I) <= Cardinality(S) + Cardinality(Q) + Cardinality(I)
    BY <2>2, <2>3, UnionSize
  <2>5. Cardinality(CountableFor(p)) <= Cardinality((S \cup Q) \cup I)
    BY <1>1, <2>4, CountableSomewhere, FS_Subset DEF CountInv
  <2>6. accepted[p] + Cardinality(Q) + Cardinality(Underway(p))
            <= Cardinality(CountableFor(p)) + faults
    BY <1>1 DEF CountInv, CountBudget
  <2> QED  BY <2>2, <2>3, <2>4, <2>5, <2>6
<1> QED  BY <1>1, CountInvariance, PTL
=============================================================================
