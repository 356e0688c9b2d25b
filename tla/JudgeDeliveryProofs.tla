------------------------ MODULE JudgeDeliveryProofs ------------------------
(***************************************************************************)
(* Proofs about JudgeDelivery, for any number of workers, messages, rows,  *)
(* testcases and faults.                                                   *)
(***************************************************************************)
EXTENDS JudgeDelivery, SequenceTheorems, FiniteSetTheorems, TLAPS

\* Every verdict of judge() has a status other than PENDING, and its case
\* rows are a sequence of statuses (Verdicts.Results).
LEMMA ResultTypes ==
    ASSUME NEW r \in Results
    PROVE  /\ r.status \in Statuses \ {"PENDING"}
           /\ r.cases \in Seq(Statuses)
           /\ r = [status |-> r.status, cases |-> r.cases]
<1>1. CASE r = CompileError
  BY <1>1, EmptySeq DEF CompileError, Statuses
<1>2. CASE r = AllPassed
  <2>1. r.cases \in [1..NumCases -> Statuses]
    BY <1>2 DEF AllPassed, Statuses
  <2>2. r.cases \in Seq(Statuses)
    BY <2>1, SeqDef, VerdictsAssumption
  <2> QED  BY <1>2, <2>2 DEF AllPassed, Statuses
<1>3. CASE \E k \in 1..NumCases, f \in Failures : r = FailedAt(k, f)
  <2>1. PICK k \in 1..NumCases, f \in Failures : r = FailedAt(k, f)
    BY <1>3
  <2>2. r.cases \in [1..k -> Statuses] /\ k \in Nat
    BY <2>1, VerdictsAssumption DEF FailedAt, Statuses
  <2>3. r.cases \in Seq(Statuses)
    BY <2>2, SeqDef
  <2> QED  BY <2>1, <2>3, VerdictsAssumption DEF FailedAt, Statuses
<1> QED  BY <1>1, <1>2, <1>3 DEF Results

\* The transactions that the statements build are transactions.
LEMMA TransactionTypes ==
    /\ NewRow \in Rows /\ NoTxn \in Transactions
    /\ \A m \in Messages \cup {NoMessage} : BeginTxn(m) \in Transactions
    /\ \A x \in Transactions, t \in Tasks \cup {NoTask}, d \in Rows :
            Writing(x, t, d) \in Transactions
    /\ \A x \in Transactions : Clearing(x) \in Transactions
    /\ \A x \in Transactions, c \in Statuses : Adding(x, c) \in Transactions
    /\ \A x \in Transactions, p \in Problems, n \in Nat : Counting(x, p, n) \in Transactions
<1>1. NewRow \in Rows
  BY EmptySeq DEF NewRow, Rows, Statuses
<1>2. /\ NoTxn \in Transactions
      /\ \A m \in Messages \cup {NoMessage} : BeginTxn(m) \in Transactions
  BY <1>1 DEF NoTxn, BeginTxn, Transaction, Transactions
<1>3. ASSUME NEW x \in Transactions, NEW t \in Tasks \cup {NoTask}, NEW d \in Rows
      PROVE  Writing(x, t, d) \in Transactions
  BY <1>3 DEF Writing, Transaction, Transactions
<1>4. ASSUME NEW x \in Transactions, NEW cs \in Seq(Statuses)
      PROVE  WithCases(x.draft, cs) \in Rows
  <2>1. x.draft \in Rows
    BY DEF Transactions
  <2> QED  BY <2>1 DEF WithCases, Rows
<1>5. ASSUME NEW x \in Transactions PROVE Clearing(x) \in Transactions
  <2>1. WithCases(x.draft, <<>>) \in Rows
    BY <1>4, EmptySeq
  <2> QED  BY <2>1 DEF Clearing, Transaction, Transactions
<1>6. ASSUME NEW x \in Transactions, NEW c \in Statuses PROVE Adding(x, c) \in Transactions
  <2>1. x.draft.cases \in Seq(Statuses) /\ x.task \in Tasks \cup {NoTask}
    BY DEF Transactions, Rows
  <2>2. Append(x.draft.cases, c) \in Seq(Statuses)
    BY <2>1, AppendProperties
  <2>3. WithCases(x.draft, Append(x.draft.cases, c)) \in Rows
    BY <1>4, <2>2
  <2> QED  BY <1>3, <2>1, <2>3 DEF Adding
<1>7. ASSUME NEW x \in Transactions, NEW p \in Problems, NEW n \in Nat
      PROVE  Counting(x, p, n) \in Transactions
  BY DEF Counting, Transaction, Transactions
<1> QED  BY <1>1, <1>2, <1>3, <1>5, <1>6, <1>7

\* The inductive invariant holds when all processes are down and every message
\* is in the queue.
LEMMA InitInv == Init => Inv
<1> SUFFICES ASSUME Init PROVE Inv
  OBVIOUS
<1>1. TypeOK
  BY TransactionTypes, FaultsAssumption DEF Init, TypeOK
<1>2. ASSUME NEW w \in Workers PROVE WorkerInv(w)
  <2>1. /\ pc[w] = "exited" /\ current[w] = NoMessage /\ unacked[w] = NoMessage
        /\ sent[w] = 0 /\ txn[w] = NoTxn /\ ~txn[w].open
    BY DEF Init, NoTxn, Transaction
  <2>2. Handling(w) /\ Holding(w)
    BY <2>1 DEF Handling, Holding, Busy, InTransaction
  <2>3. Started(w) /\ Updated(w) /\ Inserted(w) /\ Counted(w)
    BY <2>1 DEF Started, Updated, Inserted, Counted, InTransaction
  <2> QED  BY <2>2, <2>3 DEF WorkerInv
<1>3. WholeVerdicts /\ SettledRecorded /\ RecordedHasVerdict
  BY DEF Init, WholeVerdicts, SettledRecorded, RecordedHasVerdict
<1>4. \A w \in Workers : CountHeld(w)
  BY DEF Init, CountHeld, NoTxn, Transaction
<1>5. AcceptedCounted
  <2> SUFFICES ASSUME NEW p \in Problems PROVE Cardinality(Solved(p)) <= accepted[p]
    BY DEF AcceptedCounted
  <2>1. Solved(p) = {}
    BY DEF Init, Solved, NewRow
  <2>2. accepted[p] = 0 /\ Cardinality({}) = 0
    BY FS_EmptySet DEF Init
  <2> QED  BY <2>1, <2>2
<1> QED  BY <1>1, <1>2, <1>3, <1>4, <1>5 DEF Inv

\* What Publish does: a row of the session's draft, or nothing.
LEMMA PublishTypes ==
    ASSUME TypeOK, NEW w \in Workers, Publish(w)
    PROVE  /\ row' \in [Tasks -> Rows]
           /\ accepted' \in [Problems -> Nat]
           /\ recorded' \subseteq Messages \cup {txn[w].msg}
           /\ recorded \subseteq recorded'
<1> txn[w] \in Transactions
  BY DEF TypeOK
<1> QED  BY DEF TypeOK, Publish, Transactions

-----------------------------------------------------------------------------
(* Type correctness is preserved. *)

\* Every step of a worker, the broker or the server keeps each variable in its
\* type.
LEMMA TypeStep == ASSUME Inv, [Next]_vars PROVE TypeOK'
<1> USE DEF Goto
<1>0. TypeOK /\ \A w \in Workers : WorkerInv(w)
  BY DEF Inv
<1>1. CASE UNCHANGED vars
  BY <1>0, <1>1 DEF vars, broker, client, tables, TypeOK
<1>2. ASSUME NEW w \in Workers, Step(w) PROVE TypeOK'
  <2>0. /\ Handling(w) /\ Started(w) /\ Inserted(w) /\ Counted(w)
        /\ txn[w] \in Transactions /\ current[w] \in Messages \cup {NoMessage}
    BY <1>0 DEF WorkerInv, TypeOK
  <2>1. CASE Restart(w) \/ ConnectMySQL(w)
    BY <1>0, <2>1 DEF Restart, ConnectMySQL, broker, client, tables, TypeOK
  <2>2. CASE ConnectRabbitMQ(w) \/ ConsumeError(w)
    BY <1>0, <2>2 DEF ConnectRabbitMQ, ConsumeError, broker, client, tables, TypeOK
  <2>3. CASE Deliver(w)
    BY <1>0, <2>3 DEF Deliver, tables, TypeOK
  <2>4. CASE Judge(w) \/ Ping(w)
    BY <1>0, <2>4 DEF Judge, Ping, broker, client, tables, TypeOK
  <2>5. CASE Ack(w)
    <3>1. current[w] \in Messages
      BY <2>0, <2>5 DEF Ack, Handling, Busy
    <3> QED  BY <1>0, <2>5, <3>1 DEF Ack, Forget, tables, TypeOK
  <2>6. CASE Nack(w)
    BY <1>0, <2>6 DEF Nack, Requeue, Forget, tables, TypeOK
  <2>7. CASE StartTransaction(w)
    <3>1. txn[w] = NoTxn
      BY <2>0, <2>7 DEF StartTransaction, Started, InTransaction
    <3>2. UNCHANGED tables
      BY <2>7, <3>1 DEF StartTransaction, Publish, NoTxn, Transaction, tables
    <3>3. BeginTxn(current[w]) \in Transactions
      BY <2>0, TransactionTypes
    <3>4. txn' \in [Workers -> Transactions]
      BY <1>0, <2>7, <3>3 DEF StartTransaction, TypeOK
    <3> QED  BY <1>0, <2>7, <3>2, <3>4 DEF StartTransaction, broker, client, tables, TypeOK
  <2>8. CASE UpdateTask(w)
    <3> DEFINE t == TaskOf[current[w]]
               d == [status |-> StatusFor(t, result[w].status),
                     score |-> Score(t, result[w].status),
                     cases |-> row[t].cases]
    <3>1. current[w] \in Messages /\ result[w] \in Results
      BY <2>0, <2>8 DEF UpdateTask, Handling, Busy, InTransaction
    <3>2. t \in Tasks
      BY <3>1, VerdictsAssumption
    <3>3. StatusFor(t, result[w].status) \in Statuses /\ Score(t, result[w].status) \in {0, 100}
      BY <3>1, ResultTypes DEF StatusFor, Score, NewRow, Statuses
    <3>4. d \in Rows
      BY <1>0, <3>2, <3>3 DEF TypeOK, Rows
    <3>5. Writing(txn[w], t, d) \in Transactions
      BY <2>0, <3>2, <3>4, TransactionTypes
    <3>6. txn' = [txn EXCEPT ![w] = Writing(txn[w], t, d)]
      BY <2>8 DEF UpdateTask
    <3>7. txn' \in [Workers -> Transactions]
      BY <1>0, <3>5, <3>6 DEF TypeOK
    <3> QED  BY <1>0, <2>8, <3>7 DEF UpdateTask, broker, client, tables, TypeOK
  <2>9. CASE DeleteCases(w)
    <3>1. txn' = [txn EXCEPT ![w] = Clearing(txn[w])]
      BY <2>9 DEF DeleteCases
    <3>2. txn' \in [Workers -> Transactions]
      BY <1>0, <2>0, <3>1, TransactionTypes DEF TypeOK
    <3> QED  BY <1>0, <2>9, <3>2 DEF DeleteCases, AfterInserts, broker, client, tables, TypeOK
  <2>10. CASE InsertCase(w)
    <3> DEFINE n == sent[w] + 1
    <3>1. result[w] \in Results /\ txn[w].open
      BY <2>0, <2>10 DEF InsertCase, Handling, Started, Busy, InTransaction
    <3>2. n \in 1..Len(result[w].cases)
      <4>1. sent[w] < Len(result[w].cases)
        BY <2>0, <2>10, <3>1 DEF InsertCase, Inserted
      <4>2. sent[w] \in Nat /\ Len(result[w].cases) \in Nat
        BY <1>0, <3>1, ResultTypes, LenProperties DEF TypeOK
      <4> QED  BY <4>1, <4>2
    <3>3. result[w].cases[n] \in Statuses
      BY <3>1, <3>2, ResultTypes, ElementOfSeq
    <3>4. Adding(txn[w], result[w].cases[n]) \in Transactions
      BY <2>0, <3>3, TransactionTypes
    <3>5. txn' = [txn EXCEPT ![w] = Adding(txn[w], result[w].cases[n])]
      BY <2>10 DEF InsertCase
    <3>6. txn' \in [Workers -> Transactions]
      BY <1>0, <3>4, <3>5 DEF TypeOK
    <3>7. sent' \in [Workers -> Nat]
      BY <1>0, <2>10 DEF InsertCase, TypeOK
    <3> QED  BY <1>0, <2>10, <3>6, <3>7 DEF InsertCase, AfterInserts, broker, tables, TypeOK
  <2>11. CASE CountAccepted(w)
    <3> DEFINE p == ProblemOf[TaskOf[current[w]]]
    <3>1. current[w] \in Messages /\ Counts(TaskOf[current[w]], result[w])
      BY <2>0, <2>11 DEF CountAccepted, Handling, Counted, Busy, InTransaction
    <3>2. p \in Problems
      BY <3>1, VerdictsAssumption DEF Counts
    <3>3. txn' = [txn EXCEPT ![w] = Counting(txn[w], p, accepted[p] + 1)]
      BY <2>11 DEF CountAccepted
    <3>4. accepted[p] + 1 \in Nat
      BY <1>0, <3>2 DEF TypeOK
    <3>5. txn' \in [Workers -> Transactions]
      BY <1>0, <2>0, <3>2, <3>3, <3>4, TransactionTypes DEF TypeOK
    <3> QED  BY <1>0, <2>11, <3>5 DEF CountAccepted, broker, client, tables, TypeOK
  <2>12. CASE Commit(w)
    <3>1. txn[w].msg \in Messages
      BY <2>0, <2>12 DEF Commit, Started, Handling, Busy, InTransaction
    <3>2. txn' \in [Workers -> Transactions]
      BY <1>0, <2>12, TransactionTypes DEF Commit, TypeOK
    <3>3. row' \in [Tasks -> Rows] /\ accepted' \in [Problems -> Nat] /\ recorded' \subseteq Messages
      BY <1>0, <2>12, <3>1, PublishTypes DEF Commit, TypeOK
    <3> QED  BY <1>0, <2>12, <3>2, <3>3 DEF Commit, broker, client, TypeOK
  <2>13. CASE Rollback(w) \/ DeadlockVictim(w)
    <3>1. txn' \in [Workers -> Transactions]
      BY <1>0, <2>13, TransactionTypes DEF Rollback, DeadlockVictim, TypeOK
    <3> QED
      BY <1>0, <2>13, <3>1 DEF Rollback, DeadlockVictim, broker, client, tables, TypeOK
  <2> QED
    BY <1>2, <2>1, <2>2, <2>3, <2>4, <2>5, <2>6, <2>7, <2>8, <2>9, <2>10, <2>11, <2>12, <2>13
       DEF Step
<1>3. ASSUME NEW w \in Workers, Failure(w) PROVE TypeOK'
  <2>0. Handling(w) /\ Started(w) /\ current[w] \in Messages \cup {NoMessage}
    BY <1>0 DEF WorkerInv, TypeOK
  <2>1. NoTxn \in Transactions
    BY TransactionTypes
  <2>2. faults' \in 0..MaxFaults
    <3>1. Fault \/ UNCHANGED faults
      BY <1>3 DEF Failure, PingFails, StartFails, StatementFails, CommitUnanswered,
          LoseMySQL, LoseRabbitMQ, Crash
    <3> QED  BY <1>0, <3>1, FaultsAssumption DEF Fault, TypeOK
  <2>3. CASE PingFails(w)
    BY <1>0, <2>2, <2>3 DEF PingFails, broker, client, tables, TypeOK
  <2>4. CASE StartFails(w) \/ StatementFails(w)
    BY <1>0, <2>2, <2>4 DEF StartFails, StatementFails, broker, client, tables, TypeOK
  <2>5. CASE CommitUnanswered(w)
    <3>1. txn[w].msg \in Messages
      BY <2>0, <2>5 DEF CommitUnanswered, Started, Handling, Busy, InTransaction
    <3>2. txn' \in [Workers -> Transactions]
      BY <1>0, <2>1, <2>5 DEF CommitUnanswered, TypeOK
    <3>3. row' \in [Tasks -> Rows] /\ accepted' \in [Problems -> Nat] /\ recorded' \subseteq Messages
      BY <1>0, <2>5, <3>1, PublishTypes DEF CommitUnanswered, TypeOK
    <3> QED  BY <1>0, <2>2, <2>5, <3>2, <3>3 DEF CommitUnanswered, broker, client, TypeOK
  <2>6. CASE LoseMySQL(w)
    BY <1>0, <2>1, <2>2, <2>6 DEF LoseMySQL, broker, client, tables, TypeOK
  <2>7. CASE LoseRabbitMQ(w)
    BY <1>0, <2>2, <2>7 DEF LoseRabbitMQ, Requeue, client, tables, TypeOK
  <2>8. CASE Crash(w)
    BY <1>0, <2>1, <2>2, <2>8 DEF Crash, Requeue, Forget, tables, TypeOK
  <2> QED
    BY <1>3, <2>3, <2>4, <2>5, <2>6, <2>7, <2>8 DEF Failure
<1> QED  BY <1>1, <1>2, <1>3 DEF Next

-----------------------------------------------------------------------------
(* A worker's step leaves the others' state alone, and withdraws nothing. *)

\* A step of worker w touches no other worker's delivery, call, message,
\* verdict, transaction or connections.
LEMMA Frame ==
    ASSUME TypeOK, NEW w \in Workers, Step(w) \/ Failure(w), NEW v \in Workers \ {w}
    PROVE  /\ pc'[v] = pc[v] /\ current'[v] = current[v]
           /\ result'[v] = result[v] /\ sent'[v] = sent[v]
           /\ conn'[v] = conn[v] /\ txn'[v] = txn[v]
           /\ channel'[v] = channel[v] /\ unacked'[v] = unacked[v]
<1> USE DEF Goto, Forget, Requeue, broker, client, tables, TypeOK
<1>1. CASE Restart(w) \/ ConnectMySQL(w) \/ ConnectRabbitMQ(w) \/ ConsumeError(w)
  BY <1>1 DEF Restart, ConnectMySQL, ConnectRabbitMQ, ConsumeError
<1>2. CASE Deliver(w) \/ Judge(w) \/ Ping(w)
  BY <1>2 DEF Deliver, Judge, Ping
<1>3. CASE Ack(w) \/ Nack(w)
  BY <1>3 DEF Ack, Nack
<1>4. CASE StartTransaction(w) \/ Commit(w) \/ CommitUnanswered(w)
  BY <1>4 DEF StartTransaction, Commit, CommitUnanswered
<1>5. CASE UpdateTask(w) \/ DeleteCases(w) \/ InsertCase(w) \/ CountAccepted(w)
  BY <1>5 DEF UpdateTask, DeleteCases, InsertCase, CountAccepted
<1>6. CASE Rollback(w) \/ DeadlockVictim(w)
  BY <1>6 DEF Rollback, DeadlockVictim
<1>7. CASE PingFails(w) \/ StartFails(w) \/ StatementFails(w)
  BY <1>7 DEF PingFails, StartFails, StatementFails
<1>8. CASE LoseMySQL(w) \/ LoseRabbitMQ(w) \/ Crash(w)
  BY <1>8 DEF LoseMySQL, LoseRabbitMQ, Crash
<1> QED
  BY <1>1, <1>2, <1>3, <1>4, <1>5, <1>6, <1>7, <1>8 DEF Step, Failure

\* Inserting the next case row of a result extends the prefix inserted so far.
LEMMA PrefixGrows ==
    ASSUME NEW S, NEW done \in Seq(S), NEW cases \in Seq(S), NEW k \in Nat,
           k = Len(done), k < Len(cases), cases[k + 1] \in S,
           \A i \in 1..k : done[i] = cases[i]
    PROVE  /\ Len(Append(done, cases[k + 1])) = k + 1
           /\ \A i \in 1..(k + 1) : Append(done, cases[k + 1])[i] = cases[i]
<1> DEFINE longer == Append(done, cases[k + 1])
<1>1. /\ Len(longer) = k + 1
      /\ \A i \in 1..k : longer[i] = done[i]
      /\ longer[k + 1] = cases[k + 1]
  BY AppendProperties
<1>2. ASSUME NEW i \in 1..(k + 1) PROVE longer[i] = cases[i]
  <2>1. CASE i = k + 1
    BY <1>1, <2>1
  <2>2. CASE i # k + 1
    <3>1. i \in 1..k
      BY <2>2
    <3> QED  BY <1>1, <3>1
  <2> QED  BY <2>1, <2>2
<1> QED  BY <1>1, <1>2

\* The statement sent after the INSERTs is one of the three.
LEMMA AfterInsertsCases ==
    ASSUME NEW w \in Workers, NEW n \in Nat
    PROVE  /\ AfterInserts(w, n) \in {"insert", "problem", "commit"}
           /\ AfterInserts(w, n) = "insert" <=> n < Len(result[w].cases)
           /\ AfterInserts(w, n) = "problem" => Counts(TaskOf[current[w]], result[w])
           /\ AfterInserts(w, n) = "commit" => ~Counts(TaskOf[current[w]], result[w])
BY DEF AfterInserts

-----------------------------------------------------------------------------
(* What the tables gain by a step. *)

\* The verdict of w's message is written whole: row, case rows, count.
Recording(w) ==
    LET m == current[w]
        t == TaskOf[m]
        r == result[w] IN
    /\ m \in Messages \ Malformed /\ t \in Tasks /\ r \in Results
    /\ row' = [row EXCEPT ![t] = RowFor(t, r)]
    /\ accepted' = IF Counts(t, r) THEN [accepted EXCEPT ![ProblemOf[t]] = @ + 1] ELSE accepted
    /\ recorded' = recorded \cup {m}

\* At COMMIT the draft is the row of the result, case rows included.
LEMMA DraftComplete ==
    ASSUME Inv, NEW w \in Workers, pc[w] = "commit", conn[w] = "open"
    PROVE  /\ current[w] \in Messages \ Malformed /\ result[w] \in Results
           /\ TaskOf[current[w]] \in Tasks
           /\ txn[w].open /\ txn[w].msg = current[w]
           /\ txn[w].task = TaskOf[current[w]]
           /\ txn[w].draft = RowFor(TaskOf[current[w]], result[w])
<1> DEFINE done == txn[w].draft.cases
           r == result[w]
           t == TaskOf[current[w]]
<1>1. /\ Handling(w) /\ Started(w) /\ Updated(w) /\ Inserted(w)
      /\ txn[w] \in Transactions /\ current[w] \in Messages \cup {NoMessage}
  BY DEF Inv, WorkerInv, TypeOK
<1>2. /\ txn[w].open /\ txn[w].msg = current[w]
      /\ current[w] \in Messages \ Malformed /\ r \in Results
  BY <1>1 DEF Handling, Started, Busy, InTransaction
<1>3. /\ txn[w].task = t
      /\ txn[w].draft.status = StatusFor(t, r.status)
      /\ txn[w].draft.score = Score(t, r.status)
  BY <1>1, <1>2 DEF Updated
<1>4. txn[w].draft \in Rows /\ done \in Seq(Statuses) /\ r.cases \in Seq(Statuses)
  BY <1>1, <1>2, ResultTypes DEF Transactions, Rows
<1>5. Len(done) = Len(r.cases) /\ \A i \in 1..Len(done) : done[i] = r.cases[i]
  <2>1. /\ sent[w] = Len(done) /\ sent[w] <= Len(r.cases) /\ ~(sent[w] < Len(r.cases))
        /\ \A i \in 1..sent[w] : done[i] = r.cases[i]
    BY <1>1, <1>2 DEF Inserted
  <2>2. Len(done) \in Nat /\ Len(r.cases) \in Nat
    BY <1>4, LenProperties
  <2> QED  BY <2>1, <2>2
<1>6. done = r.cases
  BY <1>4, <1>5, SeqEqual
<1>7. txn[w].draft = [status |-> txn[w].draft.status, score |-> txn[w].draft.score,
                      cases |-> done]
  BY <1>4 DEF Rows
<1>8. txn[w].draft = RowFor(t, r)
  BY <1>3, <1>6, <1>7 DEF RowFor
<1> QED  BY <1>2, <1>3, <1>8, VerdictsAssumption

\* A COMMIT, answered or not, publishes the whole verdict of the message at
\* hand.
LEMMA CommitRecords ==
    ASSUME Inv, NEW w \in Workers, Commit(w) \/ CommitUnanswered(w)
    PROVE  Recording(w)
<1> DEFINE t == TaskOf[current[w]]
           r == result[w]
<1>1. pc[w] = "commit" /\ conn[w] = "open" /\ Publish(w)
  BY DEF Commit, CommitUnanswered, Goto
<1>2. /\ current[w] \in Messages \ Malformed /\ r \in Results /\ t \in Tasks
      /\ txn[w].open /\ txn[w].msg = current[w] /\ txn[w].task = t
      /\ txn[w].draft = RowFor(t, r)
  BY <1>1, DraftComplete
<1>3. t # NoTask /\ (Counts(t, r) => ProblemOf[t] # NoProblem)
  BY <1>2, VerdictsAssumption DEF Counts
<1>4. txn[w].counted = IF Counts(t, r) THEN ProblemOf[t] ELSE NoProblem
  BY <1>1, <1>2 DEF Inv, WorkerInv, Counted
<1>5. row' = [row EXCEPT ![t] = RowFor(t, r)] /\ recorded' = recorded \cup {current[w]}
  BY <1>1, <1>2, <1>3 DEF Publish
<1>6. accepted' = IF Counts(t, r) THEN [accepted EXCEPT ![ProblemOf[t]] = @ + 1] ELSE accepted
  <2>1. CASE Counts(t, r)
    <3>1. txn[w].counted = ProblemOf[t] /\ ProblemOf[t] # NoProblem
      BY <1>3, <1>4, <2>1
    <3>2. txn[w].count = accepted[ProblemOf[t]] + 1
      BY <3>1 DEF Inv, CountHeld
    <3> QED  BY <1>1, <2>1, <3>1, <3>2 DEF Publish
  <2>2. CASE ~Counts(t, r)
    BY <1>1, <1>4, <2>2 DEF Publish
  <2> QED  BY <2>1, <2>2
<1> QED  BY <1>2, <1>5, <1>6 DEF Recording

\* The committed tables change only by COMMIT: START TRANSACTION, which would
\* commit what it finds open, finds nothing.
LEMMA TablesStep ==
    ASSUME Inv, NEW w \in Workers, Step(w) \/ Failure(w)
    PROVE  UNCHANGED tables \/ ((Commit(w) \/ CommitUnanswered(w)) /\ Recording(w))
<1> USE DEF tables
<1>1. CASE StartTransaction(w)
  <2>1. txn[w] = NoTxn
    BY <1>1 DEF StartTransaction, Goto, Inv, WorkerInv, Started, InTransaction
  <2> QED  BY <1>1, <2>1 DEF StartTransaction, Publish, NoTxn, Transaction
<1>2. CASE Commit(w) \/ CommitUnanswered(w)
  BY <1>2, CommitRecords
<1>3. CASE Restart(w) \/ ConnectMySQL(w) \/ ConnectRabbitMQ(w) \/ Deliver(w) \/ ConsumeError(w)
  BY <1>3 DEF Restart, ConnectMySQL, ConnectRabbitMQ, Deliver, ConsumeError
<1>4. CASE Judge(w) \/ Ping(w) \/ PingFails(w) \/ Ack(w) \/ Nack(w) \/ StartFails(w)
  BY <1>4 DEF Judge, Ping, PingFails, Ack, Nack, StartFails
<1>5. CASE UpdateTask(w) \/ DeleteCases(w) \/ InsertCase(w) \/ CountAccepted(w)
  BY <1>5 DEF UpdateTask, DeleteCases, InsertCase, CountAccepted
<1>6. CASE StatementFails(w) \/ Rollback(w) \/ DeadlockVictim(w)
  BY <1>6 DEF StatementFails, Rollback, DeadlockVictim
<1>7. CASE LoseMySQL(w) \/ LoseRabbitMQ(w) \/ Crash(w)
  BY <1>7 DEF LoseMySQL, LoseRabbitMQ, Crash
<1> QED  BY <1>1, <1>2, <1>3, <1>4, <1>5, <1>6, <1>7 DEF Step, Failure

\* Nothing recorded is ever withdrawn.
LEMMA RecordedGrows ==
    ASSUME Inv, NEW w \in Workers, Step(w) \/ Failure(w)
    PROVE  recorded \subseteq recorded'
BY TablesStep DEF Recording, tables

-----------------------------------------------------------------------------
(* What each worker knows is preserved. *)

\* A victim of the deadlock detection is at a statement that waits, and its
\* connection works.
LEMMA VictimWaits ==
    ASSUME NEW w \in Workers, DeadlockVictim(w)
    PROVE  pc[w] \in {"update", "delete", "insert", "problem"}
<1>1. PICK D \in SUBSET Workers : w \in D /\ Circle(D)
  BY DEF DeadlockVictim
<1>2. Blockers(w) # {}
  BY <1>1 DEF Circle, Waiting
<1> QED  BY <1>2 DEF Blockers

\* Whatever happens, on_message handles a message that parses from judge() on,
\* has a verdict from the ping on, and reaches the ack only after a commit (or
\* at once with a message that does not parse).
LEMMA HandlingStep ==
    ASSUME Inv, NEW w \in Workers, Step(w) \/ Failure(w) PROVE Handling(w)'
<1> USE DEF Goto, Forget, broker, client, tables, Handling, Busy, InTransaction
<1>0. /\ TypeOK /\ Handling(w) /\ current[w] \in Messages \cup {NoMessage}
      /\ recorded \subseteq recorded'
  BY RecordedGrows DEF Inv, WorkerInv, TypeOK
<1>1. CASE Restart(w) \/ ConnectMySQL(w) \/ ConnectRabbitMQ(w) \/ ConsumeError(w)
  BY <1>0, <1>1 DEF Restart, ConnectMySQL, ConnectRabbitMQ, ConsumeError, TypeOK
<1>2. CASE Deliver(w)
  BY <1>0, <1>2, VerdictsAssumption DEF Deliver, TypeOK
<1>3. CASE Judge(w)
  BY <1>0, <1>3 DEF Judge, TypeOK
<1>4. CASE Ping(w) \/ PingFails(w) \/ StartFails(w)
  BY <1>0, <1>4 DEF Ping, PingFails, StartFails, TypeOK
<1>5. CASE StatementFails(w) \/ Rollback(w)
  BY <1>0, <1>5 DEF StatementFails, Rollback, TypeOK
<1>6. CASE Ack(w) \/ Nack(w) \/ Crash(w)
  BY <1>0, <1>6 DEF Ack, Nack, Crash, TypeOK
<1>7. CASE StartTransaction(w) \/ CommitUnanswered(w)
  BY <1>0, <1>7 DEF StartTransaction, CommitUnanswered, TypeOK
<1>8. CASE UpdateTask(w) \/ CountAccepted(w)
  BY <1>0, <1>8 DEF UpdateTask, CountAccepted, TypeOK
<1>9. CASE DeleteCases(w) \/ InsertCase(w)
  <2>1. PICK n \in Nat : pc'[w] = AfterInserts(w, n)
    BY <1>0, <1>9 DEF DeleteCases, InsertCase, TypeOK
  <2>2. pc'[w] \in {"insert", "problem", "commit"}
    BY <2>1, AfterInsertsCases
  <2>3. pc[w] \in {"delete", "insert"} /\ UNCHANGED <<current, result, recorded>>
    BY <1>9 DEF DeleteCases, InsertCase
  <2> QED  BY <1>0, <2>2, <2>3
<1>10. CASE Commit(w)
  <2>1. current[w] \in recorded'
    BY <1>10, CommitRecords DEF Recording
  <2> QED  BY <1>0, <1>10, <2>1 DEF Commit, TypeOK
<1>11. CASE DeadlockVictim(w)
  <2>1. pc[w] \in {"update", "delete", "insert", "problem"}
    BY <1>11, VictimWaits
  <2>2. pc'[w] = "rollback" /\ UNCHANGED <<current, result>>
    BY <1>0, <1>11 DEF DeadlockVictim, TypeOK
  <2> QED  BY <1>0, <2>1, <2>2
<1>12. CASE LoseMySQL(w) \/ LoseRabbitMQ(w)
  BY <1>0, <1>12 DEF LoseMySQL, LoseRabbitMQ
<1> QED
  BY <1>1, <1>2, <1>3, <1>4, <1>5, <1>6, <1>7, <1>8, <1>9, <1>10, <1>11, <1>12
     DEF Step, Failure

\* The channel holds the delivery that on_message handles, and none between
\* two calls of it; what a broken channel held has gone back.
LEMMA HoldingStep ==
    ASSUME Inv, NEW w \in Workers, Step(w) \/ Failure(w) PROVE Holding(w)'
<1> USE DEF Goto, Forget, Requeue, broker, client, tables, Holding, Busy, InTransaction
<1>0. TypeOK /\ Handling(w) /\ Holding(w)
  BY DEF Inv, WorkerInv
<1>1. CASE Restart(w) \/ ConnectMySQL(w) \/ ConsumeError(w)
  BY <1>0, <1>1 DEF Restart, ConnectMySQL, ConsumeError, TypeOK
<1>2. CASE ConnectRabbitMQ(w)
  BY <1>0, <1>2 DEF ConnectRabbitMQ, Handling, TypeOK
<1>3. CASE Deliver(w)
  BY <1>0, <1>3 DEF Deliver, TypeOK
<1>4. CASE Judge(w) \/ Ping(w) \/ PingFails(w) \/ StartFails(w)
  BY <1>0, <1>4 DEF Judge, Ping, PingFails, StartFails, TypeOK
<1>5. CASE Ack(w) \/ Nack(w)
  BY <1>0, <1>5 DEF Ack, Nack, TypeOK
<1>6. CASE StartTransaction(w) \/ Commit(w) \/ CommitUnanswered(w)
  BY <1>0, <1>6 DEF StartTransaction, Commit, CommitUnanswered, TypeOK
<1>7. CASE UpdateTask(w) \/ CountAccepted(w)
  BY <1>0, <1>7 DEF UpdateTask, CountAccepted, TypeOK
<1>8. CASE DeleteCases(w) \/ InsertCase(w)
  <2>1. pc[w] \in {"delete", "insert"} /\ UNCHANGED <<current, channel, unacked>>
    BY <1>8 DEF DeleteCases, InsertCase
  <2> QED  BY <1>0, <2>1
<1>9. CASE StatementFails(w) \/ Rollback(w)
  BY <1>0, <1>9 DEF StatementFails, Rollback, TypeOK
<1>10. CASE DeadlockVictim(w)
  BY <1>0, <1>10, VictimWaits DEF DeadlockVictim, TypeOK
<1>11. CASE LoseMySQL(w) \/ LoseRabbitMQ(w) \/ Crash(w)
  BY <1>0, <1>11 DEF LoseMySQL, LoseRabbitMQ, Crash, TypeOK
<1> QED
  BY <1>1, <1>2, <1>3, <1>4, <1>5, <1>6, <1>7, <1>8, <1>9, <1>10, <1>11
     DEF Step, Failure

-----------------------------------------------------------------------------
(* The transaction keeps pace with the calls of update_*. *)

Drafting(w) == Started(w) /\ Updated(w) /\ Inserted(w) /\ Counted(w)

\* After any end of its transaction a session has none, and what the worker
\* knows of a transaction holds of none.
LEMMA DraftingEnds ==
    ASSUME NEW w \in Workers, Drafting(w), txn'[w] = NoTxn,
           pc'[w] \in {"insert", "problem", "commit"} => pc[w] = pc'[w] /\ conn'[w] # "open",
           pc'[w] = "problem" => UNCHANGED <<current, result>>,
           conn'[w] = "open" => pc'[w] \notin InTransaction \ {"rollback"},
           sent'[w] = 0 \/ pc'[w] \in {"rollback", "nack", "ack"}
              \/ (sent'[w] = sent[w] /\ pc'[w] = pc[w])
    PROVE  Drafting(w)'
<1>1. ~txn'[w].open
  BY DEF NoTxn, Transaction
<1>2. Started(w)'
  BY <1>1 DEF Started
<1>3. Updated(w)'
  BY <1>1 DEF Updated
<1>4. Inserted(w)'
  BY <1>1 DEF Drafting, Inserted
<1>5. Counted(w)'
  BY <1>1 DEF Drafting, Counted
<1> QED  BY <1>2, <1>3, <1>4, <1>5 DEF Drafting

\* DELETE: no case row of the draft is left, the first INSERT is due.
LEMMA DeleteDrafts ==
    ASSUME TypeOK, NEW w \in Workers, Handling(w), Drafting(w), DeleteCases(w)
    PROVE  Drafting(w)'
<1> USE DEF Drafting, InTransaction
<1>1. /\ pc[w] = "delete" /\ conn[w] = "open" /\ conn'[w] = "open"
      /\ pc'[w] = AfterInserts(w, 0) /\ txn'[w] = Clearing(txn[w])
      /\ current'[w] = current[w] /\ result'[w] = result[w] /\ sent'[w] = sent[w]
  BY DEF DeleteCases, client, TypeOK
<1>2. sent[w] = 0 /\ txn[w].open
  BY <1>1 DEF Inserted, Started
<1>3. result[w] \in Results /\ Len(result[w].cases) \in Nat
  BY <1>1, ResultTypes, LenProperties DEF Handling, Busy
<1>4. /\ pc'[w] \in {"insert", "problem", "commit"}
      /\ pc'[w] = "insert" <=> 0 < Len(result[w].cases)
      /\ pc'[w] = "problem" => Counts(TaskOf[current[w]], result[w])
      /\ pc'[w] = "commit" => ~Counts(TaskOf[current[w]], result[w])
  BY <1>1, AfterInsertsCases
<1>5. /\ txn'[w].open /\ txn'[w].msg = txn[w].msg /\ txn'[w].task = txn[w].task
      /\ txn'[w].draft.status = txn[w].draft.status
      /\ txn'[w].draft.score = txn[w].draft.score
      /\ txn'[w].draft.cases = <<>> /\ txn'[w].counted = txn[w].counted
  BY <1>1, <1>2 DEF Clearing, Transaction, WithCases
<1>6. Started(w)' /\ Updated(w)'
  BY <1>1, <1>2, <1>4, <1>5 DEF Started, Updated
<1>7. Inserted(w)'
  BY <1>1, <1>2, <1>3, <1>4, <1>5, EmptySeq DEF Inserted
<1>8. Counted(w)'
  BY <1>1, <1>2, <1>4, <1>5 DEF Counted
<1> QED  BY <1>6, <1>7, <1>8

\* INSERT: the draft has one more of the result's case rows.
LEMMA InsertDrafts ==
    ASSUME TypeOK, NEW w \in Workers, Handling(w), Drafting(w), InsertCase(w)
    PROVE  Drafting(w)'
<1> USE DEF Drafting, InTransaction
<1> DEFINE n == sent[w] + 1
           done == txn[w].draft.cases
           c == result[w].cases[n]
<1>1. /\ pc[w] = "insert" /\ conn[w] = "open" /\ conn'[w] = "open"
      /\ pc'[w] = AfterInserts(w, n) /\ txn'[w] = Adding(txn[w], c)
      /\ current'[w] = current[w] /\ result'[w] = result[w] /\ sent'[w] = n
  BY DEF InsertCase, TypeOK
<1>2. txn[w].open /\ txn[w] \in Transactions /\ sent[w] \in Nat /\ n \in Nat
  BY <1>1 DEF Started, TypeOK
<1>3. /\ result[w] \in Results /\ Len(result[w].cases) \in Nat
      /\ result[w].cases \in Seq(Statuses)
  BY <1>1, ResultTypes, LenProperties DEF Handling, Busy
<1>4. /\ pc'[w] \in {"insert", "problem", "commit"}
      /\ pc'[w] = "insert" <=> n < Len(result[w].cases)
      /\ pc'[w] = "problem" => Counts(TaskOf[current[w]], result[w])
      /\ pc'[w] = "commit" => ~Counts(TaskOf[current[w]], result[w])
  BY <1>1, <1>2, AfterInsertsCases
<1>5. /\ txn'[w].open /\ txn'[w].msg = txn[w].msg /\ txn'[w].task = txn[w].task
      /\ txn'[w].draft.status = txn[w].draft.status
      /\ txn'[w].draft.score = txn[w].draft.score
      /\ txn'[w].draft.cases = Append(done, c) /\ txn'[w].counted = txn[w].counted
  <2>1. txn'[w] = Writing(txn[w], txn[w].task, WithCases(txn[w].draft, Append(done, c)))
    BY <1>1 DEF Adding
  <2>2. /\ txn'[w].draft = WithCases(txn[w].draft, Append(done, c))
        /\ txn'[w].open /\ txn'[w].msg = txn[w].msg /\ txn'[w].task = txn[w].task
        /\ txn'[w].counted = txn[w].counted
    BY <1>2, <2>1 DEF Writing, Transaction
  <2> QED  BY <2>2 DEF WithCases
<1>6. /\ sent[w] = Len(done) /\ sent[w] < Len(result[w].cases)
      /\ \A i \in 1..sent[w] : done[i] = result[w].cases[i]
  BY <1>1, <1>2 DEF Inserted
<1>7. done \in Seq(Statuses) /\ c \in Statuses
  <2>0. sent[w] < Len(result[w].cases)
    BY <1>6
  <2>1. n \in 1..Len(result[w].cases)
    BY <1>2, <1>3, <2>0
  <2> QED  BY <1>2, <1>3, <2>1, ElementOfSeq DEF Transactions, Rows
<1>8. /\ Len(Append(done, c)) = n /\ n <= Len(result[w].cases)
      /\ \A i \in 1..n : Append(done, c)[i] = result[w].cases[i]
  BY <1>2, <1>3, <1>6, <1>7, PrefixGrows
<1>9. Started(w)' /\ Updated(w)'
  BY <1>1, <1>2, <1>4, <1>5 DEF Started, Updated
<1>10. Inserted(w)'
  <2>1. sent'[w] = Len(txn'[w].draft.cases)
    BY <1>1, <1>5, <1>8
  <2>2. \A i \in 1..sent'[w] : txn'[w].draft.cases[i] = result'[w].cases[i]
    <3>1. \A i \in 1..n : Append(done, c)[i] = result[w].cases[i]
      BY <1>8
    <3>2. txn'[w].draft.cases = Append(done, c) /\ sent'[w] = n /\ result'[w] = result[w]
      BY <1>1, <1>5
    <3> HIDE DEF Drafting, InTransaction, n, done, c
    <3> QED  BY <3>1, <3>2, Zenon
  <2>3. /\ sent'[w] <= Len(result'[w].cases)
        /\ pc'[w] = "insert" <=> sent'[w] < Len(result'[w].cases)
    BY <1>1, <1>4, <1>8
  <2>4. pc'[w] \in {"insert", "problem", "commit", "rollback", "nack", "ack"}
    BY <1>4
  <2> HIDE DEF Drafting, InTransaction, n, done, c
  <2> QED  BY <2>1, <2>2, <2>3, <2>4 DEF Inserted
<1>11. Counted(w)'
  BY <1>1, <1>2, <1>4, <1>5 DEF Counted
<1> QED  BY <1>9, <1>10, <1>11

\* Each statement of update_* finds the transaction as far as the statements
\* before it brought it, also after failures.
LEMMA DraftingStep ==
    ASSUME Inv, NEW w \in Workers, Step(w) \/ Failure(w) PROVE Drafting(w)'
<1> USE DEF Goto, Forget, broker, client, tables, InTransaction
<1>0. /\ TypeOK /\ Handling(w) /\ Drafting(w)
      /\ Started(w) /\ Updated(w) /\ Inserted(w) /\ Counted(w)
      /\ txn[w] \in Transactions /\ sent[w] \in Nat
  BY DEF Inv, WorkerInv, TypeOK, Drafting
<1>1. CASE \/ Restart(w) \/ ConnectMySQL(w) \/ ConnectRabbitMQ(w) \/ ConsumeError(w)
           \/ Deliver(w) \/ Judge(w) \/ Ping(w) \/ PingFails(w)
           \/ StartFails(w) \/ Ack(w) \/ Nack(w)
  <2>1. /\ pc[w] \in {"exited", "mysql", "rabbitmq", "consume", "judge", "ping", "start", "ack", "nack"}
        /\ pc'[w] \in {"exited", "mysql", "rabbitmq", "consume", "judge", "ping", "start", "ack", "nack"}
        /\ txn'[w] = txn[w] /\ (sent'[w] = sent[w] \/ sent'[w] = 0)
        /\ pc'[w] \in {"ack", "nack"} \/ sent'[w] = 0
    <3>1. CASE Restart(w) \/ ConnectMySQL(w) \/ ConnectRabbitMQ(w) \/ ConsumeError(w)
      BY <1>0, <3>1 DEF Restart, ConnectMySQL, ConnectRabbitMQ, ConsumeError, TypeOK, Inserted
    <3>2. CASE Deliver(w) \/ Judge(w)
      BY <1>0, <3>2 DEF Deliver, Judge, TypeOK, Inserted
    <3>3. CASE Ping(w) \/ PingFails(w) \/ StartFails(w)
      BY <1>0, <3>3 DEF Ping, PingFails, StartFails, TypeOK, Inserted
    <3>4. CASE Ack(w) \/ Nack(w)
      BY <1>0, <3>4 DEF Ack, Nack, TypeOK
    <3> QED  BY <1>1, <3>1, <3>2, <3>3, <3>4
  <2>2. txn'[w] = NoTxn
    BY <1>0, <2>1 DEF Started
  <2> QED  BY <1>0, <2>1, <2>2, DraftingEnds
<1>2. CASE Rollback(w) \/ DeadlockVictim(w) \/ Commit(w) \/ CommitUnanswered(w)
  <2>1. txn'[w] = NoTxn /\ pc'[w] \in {"rollback", "nack", "ack"}
    BY <1>0, <1>2 DEF Rollback, DeadlockVictim, Commit, CommitUnanswered, TypeOK
  <2> QED  BY <1>0, <2>1, DraftingEnds
<1>3. CASE Crash(w)
  <2>1. txn'[w] = NoTxn /\ pc'[w] = "exited" /\ sent'[w] = 0
    BY <1>0, <1>3 DEF Crash, TypeOK
  <2> QED  BY <1>0, <2>1, DraftingEnds
<1>4. CASE LoseMySQL(w)
  <2>1. /\ txn'[w] = NoTxn /\ pc'[w] = pc[w] /\ sent'[w] = sent[w] /\ conn'[w] = "lost"
        /\ UNCHANGED <<current, result>>
    BY <1>0, <1>4 DEF LoseMySQL, TypeOK
  <2> QED  BY <1>0, <2>1, DraftingEnds
<1>5. CASE StatementFails(w)
  <2>1. /\ txn'[w] = txn[w] /\ sent'[w] = sent[w] /\ pc'[w] = "rollback"
        /\ pc[w] \in InTransaction /\ UNCHANGED <<current, conn>>
    BY <1>0, <1>5 DEF StatementFails, TypeOK
  <2> QED  BY <1>0, <2>1 DEF Drafting, Started, Updated, Inserted, Counted
<1>6. CASE LoseRabbitMQ(w)
  <2>1. UNCHANGED <<txn, sent, pc, current, result, conn>>
    BY <1>6 DEF LoseRabbitMQ
  <2> QED  BY <1>0, <2>1 DEF Drafting, Started, Updated, Inserted, Counted
<1>7. CASE StartTransaction(w)
  <2>1. /\ txn'[w] = BeginTxn(current[w]) /\ pc'[w] = "update" /\ pc[w] = "start"
        /\ current'[w] = current[w] /\ sent'[w] = sent[w]
    BY <1>0, <1>7 DEF StartTransaction, TypeOK
  <2>2. /\ txn'[w].open /\ txn'[w].msg = current[w] /\ txn'[w].counted = NoProblem
        /\ sent[w] = 0
    BY <1>0, <2>1 DEF BeginTxn, Transaction, Inserted
  <2> QED  BY <2>1, <2>2 DEF Drafting, Started, Updated, Inserted, Counted
<1>8. CASE UpdateTask(w)
  <2> DEFINE t == TaskOf[current[w]]
             d == [status |-> StatusFor(t, result[w].status),
                   score |-> Score(t, result[w].status),
                   cases |-> row[t].cases]
  <2>1. /\ txn'[w] = Writing(txn[w], t, d) /\ pc[w] = "update" /\ pc'[w] = "delete"
        /\ conn[w] = "open" /\ current'[w] = current[w] /\ sent'[w] = sent[w]
        /\ result'[w] = result[w]
    BY <1>0, <1>8 DEF UpdateTask, TypeOK
  <2>2. /\ txn[w].open /\ txn'[w].open /\ txn'[w].msg = txn[w].msg
        /\ txn'[w].task = t /\ txn'[w].draft = d /\ txn'[w].counted = txn[w].counted
    BY <1>0, <2>1 DEF Writing, Transaction, Started
  <2>3. d.status = StatusFor(t, result[w].status) /\ d.score = Score(t, result[w].status)
    OBVIOUS
  <2>4. Started(w)' /\ Updated(w)'
    BY <1>0, <2>1, <2>2, <2>3 DEF Started, Updated
  <2>5. Inserted(w)' /\ Counted(w)'
    BY <1>0, <2>1, <2>2 DEF Inserted, Counted
  <2> QED  BY <2>4, <2>5 DEF Drafting
<1>9. CASE DeleteCases(w)
  BY <1>0, <1>9, DeleteDrafts
<1>10. CASE InsertCase(w)
  BY <1>0, <1>10, InsertDrafts
<1>11. CASE CountAccepted(w)
  <2> DEFINE p == ProblemOf[TaskOf[current[w]]]
  <2>1. /\ txn'[w] = Counting(txn[w], p, accepted[p] + 1) /\ pc[w] = "problem" /\ pc'[w] = "commit"
        /\ conn[w] = "open" /\ current'[w] = current[w] /\ sent'[w] = sent[w]
        /\ result'[w] = result[w]
    BY <1>0, <1>11 DEF CountAccepted, TypeOK
  <2>2. /\ txn[w].open /\ txn'[w].open /\ txn'[w].msg = txn[w].msg
        /\ txn'[w].task = txn[w].task /\ txn'[w].draft = txn[w].draft
        /\ txn'[w].counted = p
    BY <1>0, <2>1 DEF Counting, Transaction, Started
  <2>3. Started(w)' /\ Updated(w)'
    BY <1>0, <2>1, <2>2 DEF Started, Updated
  <2>4. Inserted(w)' /\ Counted(w)'
    BY <1>0, <2>1, <2>2 DEF Inserted, Counted
  <2> QED  BY <2>3, <2>4 DEF Drafting
<1> QED
  BY <1>1, <1>2, <1>3, <1>4, <1>5, <1>6, <1>7, <1>8, <1>9, <1>10, <1>11
     DEF Step, Failure

-----------------------------------------------------------------------------
(* What the tables hold. *)

\* A commit leaves every other row as it was, and in the row of its task the
\* verdict of one judging.
LEMMA WholeVerdictsStep == ASSUME Inv, [Next]_vars PROVE WholeVerdicts'
<1>0. TypeOK /\ WholeVerdicts
  BY DEF Inv
<1>1. CASE row' = row
  BY <1>0, <1>1 DEF WholeVerdicts
<1>2. ASSUME NEW w \in Workers, Recording(w) PROVE WholeVerdicts'
  BY <1>0, <1>2 DEF Recording, WholeVerdicts, TypeOK
<1> QED  BY <1>1, <1>2, TablesStep DEF Next, vars, tables

\* No commit takes a verdict back, and a verdict is never PENDING.
LEMMA RecordedHasVerdictStep == ASSUME Inv, [Next]_vars PROVE RecordedHasVerdict'
<1>0. TypeOK /\ RecordedHasVerdict
  BY DEF Inv
<1>1. CASE UNCHANGED tables
  BY <1>0, <1>1 DEF RecordedHasVerdict, tables
<1>2. ASSUME NEW w \in Workers, Recording(w) PROVE RecordedHasVerdict'
  <2> DEFINE t == TaskOf[current[w]]
             r == result[w]
  <2>1. /\ current[w] \in Messages \ Malformed /\ t \in Tasks /\ r \in Results
        /\ row' = [row EXCEPT ![t] = RowFor(t, r)]
        /\ recorded' = recorded \cup {current[w]}
    BY <1>2 DEF Recording
  <2>2. t \notin Absent => row'[t].status # "PENDING"
    <3>1. row'[t] = RowFor(t, r)
      BY <1>0, <2>1 DEF TypeOK
    <3>2. r.status # "PENDING"
      BY <2>1, ResultTypes
    <3> QED  BY <3>1, <3>2 DEF RowFor, StatusFor
  <2>3. ASSUME NEW m \in recorded'
        PROVE  m \notin Malformed /\ (TaskOf[m] \notin Absent => row'[TaskOf[m]].status # "PENDING")
    <3>1. CASE m = current[w]
      BY <2>1, <2>2, <3>1
    <3>2. CASE m \in recorded /\ TaskOf[m] = t
      BY <1>0, <2>2, <3>2 DEF RecordedHasVerdict
    <3>3. CASE m \in recorded /\ TaskOf[m] # t
      <4>1. row'[TaskOf[m]] = row[TaskOf[m]]
        BY <1>0, <2>1, <3>3, VerdictsAssumption DEF TypeOK
      <4> QED  BY <1>0, <3>3, <4>1 DEF RecordedHasVerdict
    <3> QED  BY <2>1, <3>1, <3>2, <3>3
  <2> QED  BY <2>3 DEF RecordedHasVerdict
<1> QED  BY <1>1, <1>2, TablesStep DEF Next, vars

\* A message leaves the queue only by an ack, and on_message acks only what is
\* committed or does not parse.
LEMMA SettledStep ==
    ASSUME Inv, NEW w \in Workers, Step(w) \/ Failure(w)
    PROVE  \/ UNCHANGED settled
           \/ /\ UNCHANGED tables /\ current[w] \in Messages
              /\ current[w] \in recorded \cup Malformed
              /\ settled' = settled \cup {current[w]}
<1> USE DEF broker, tables
<1>1. CASE Ack(w)
  <2>1. Handling(w) /\ current[w] \in Messages \cup {NoMessage}
    BY DEF Inv, WorkerInv, TypeOK
  <2> QED  BY <1>1, <2>1 DEF Ack, Goto, Handling, Busy
<1>2. CASE Restart(w) \/ ConnectMySQL(w) \/ ConnectRabbitMQ(w) \/ Deliver(w) \/ ConsumeError(w)
  BY <1>2 DEF Restart, ConnectMySQL, ConnectRabbitMQ, Deliver, ConsumeError
<1>3. CASE Judge(w) \/ Ping(w) \/ PingFails(w) \/ Nack(w) \/ StartFails(w)
  BY <1>3 DEF Judge, Ping, PingFails, Nack, StartFails
<1>4. CASE StartTransaction(w) \/ Commit(w) \/ CommitUnanswered(w)
  BY <1>4 DEF StartTransaction, Commit, CommitUnanswered
<1>5. CASE UpdateTask(w) \/ DeleteCases(w) \/ InsertCase(w) \/ CountAccepted(w)
  BY <1>5 DEF UpdateTask, DeleteCases, InsertCase, CountAccepted
<1>6. CASE StatementFails(w) \/ Rollback(w) \/ DeadlockVictim(w)
  BY <1>6 DEF StatementFails, Rollback, DeadlockVictim
<1>7. CASE LoseMySQL(w) \/ LoseRabbitMQ(w) \/ Crash(w)
  BY <1>7 DEF LoseMySQL, LoseRabbitMQ, Crash
<1> QED  BY <1>1, <1>2, <1>3, <1>4, <1>5, <1>6, <1>7 DEF Step, Failure

\* SettledRecorded is preserved: what is recorded stays so, and only that is
\* acked.
LEMMA SettledRecordedStep == ASSUME Inv, [Next]_vars PROVE SettledRecorded'
<1>0. SettledRecorded
  BY DEF Inv
<1>1. CASE UNCHANGED vars
  BY <1>0, <1>1 DEF vars, broker, tables, SettledRecorded
<1>2. ASSUME NEW w \in Workers, Step(w) \/ Failure(w) PROVE SettledRecorded'
  <2>1. recorded \subseteq recorded'
    BY <1>2, RecordedGrows
  <2> QED  BY <1>0, <1>2, <2>1, SettledStep DEF SettledRecorded
<1> QED  BY <1>1, <1>2 DEF Next

\* Each verdict that makes a submission accepted is counted with it, so that the
\* count keeps up with the accepted submissions of the problem.
LEMMA AcceptedCountedStep == ASSUME Inv, [Next]_vars PROVE AcceptedCounted'
<1>0. TypeOK /\ AcceptedCounted
  BY DEF Inv
<1>1. CASE UNCHANGED tables
  BY <1>0, <1>1 DEF AcceptedCounted, Solved, tables
<1>2. ASSUME NEW w \in Workers, Recording(w) PROVE AcceptedCounted'
  <2> DEFINE t == TaskOf[current[w]]
             r == result[w]
  <2>1. /\ t \in Tasks /\ r \in Results
        /\ row' = [row EXCEPT ![t] = RowFor(t, r)]
        /\ accepted' = IF Counts(t, r) THEN [accepted EXCEPT ![ProblemOf[t]] = @ + 1]
                       ELSE accepted
    BY <1>2 DEF Recording
  <2> SUFFICES ASSUME NEW p \in Problems PROVE Cardinality(Solved(p)') <= accepted'[p]
    BY DEF AcceptedCounted
  <2>2. /\ IsFiniteSet(Solved(p)) /\ IsFiniteSet(Solved(p) \cup {t})
        /\ Cardinality(Solved(p)) \in Nat
        /\ Cardinality(Solved(p) \cup {t}) <= Cardinality(Solved(p)) + 1
    <3>1. IsFiniteSet(Solved(p))
      BY TasksAssumption, FS_Subset DEF Solved
    <3>2. Cardinality(Solved(p)) \in Nat
      BY <3>1, FS_CardinalityType
    <3>3. /\ IsFiniteSet(Solved(p) \cup {t})
          /\ Cardinality(Solved(p) \cup {t}) \in {Cardinality(Solved(p)), Cardinality(Solved(p)) + 1}
      BY <3>1, FS_AddElement
    <3> QED  BY <3>1, <3>2, <3>3
  <2>3. accepted[p] \in Nat /\ Cardinality(Solved(p)) <= accepted[p]
    BY <1>0 DEF TypeOK, AcceptedCounted
  <2>4. Solved(p)' \subseteq Solved(p) \cup {t}
    BY <1>0, <2>1 DEF Solved, TypeOK
  <2>5. CASE Counts(t, r) /\ ProblemOf[t] = p
    <3>1. accepted'[p] = accepted[p] + 1
      BY <1>0, <2>1, <2>5 DEF TypeOK
    <3>2. Cardinality(Solved(p)') <= Cardinality(Solved(p) \cup {t})
      BY <2>2, <2>4, FS_Subset
    <3>3. Cardinality(Solved(p)') \in Nat /\ Cardinality(Solved(p) \cup {t}) \in Nat
      BY <2>2, <2>4, FS_Subset, FS_CardinalityType
    <3> QED  BY <2>2, <2>3, <3>1, <3>2, <3>3
  <2>6. CASE ~(Counts(t, r) /\ ProblemOf[t] = p)
    <3>1. accepted'[p] = accepted[p]
      BY <1>0, <2>1, <2>6 DEF TypeOK
    <3>2. t \notin Solved(p)'
      <4>1. row'[t].status = StatusFor(t, r.status)
        BY <1>0, <2>1 DEF TypeOK, RowFor
      <4>2. p # NoProblem
        BY VerdictsAssumption
      <4> QED  BY <2>6, <4>1, <4>2 DEF Solved, Counts, StatusFor, NewRow
    <3>3. Solved(p)' \subseteq Solved(p)
      BY <2>4, <3>2
    <3>4. Cardinality(Solved(p)') <= Cardinality(Solved(p)) /\ Cardinality(Solved(p)') \in Nat
      BY <2>2, <3>3, FS_Subset, FS_CardinalityType
    <3> QED  BY <2>2, <2>3, <3>1, <3>4
  <2> QED  BY <2>5, <2>6
<1> QED  BY <1>1, <1>2, TablesStep DEF Next, vars

-----------------------------------------------------------------------------
(* Counting transactions exclude each other. *)

\* What a transaction has counted stays as it is from the counting to the end.
LEMMA ClaimStep ==
    ASSUME Inv, NEW w \in Workers, Step(w) \/ Failure(w)
    PROVE  \/ CountAccepted(w)
           \/ txn'[w].counted = NoProblem
           \/ UNCHANGED tables /\ txn'[w].counted = txn[w].counted /\ txn'[w].count = txn[w].count
<1> USE DEF tables
<1>0. TypeOK
  BY DEF Inv
<1>1. CASE \/ StartTransaction(w) \/ Commit(w) \/ CommitUnanswered(w) \/ Rollback(w)
           \/ DeadlockVictim(w) \/ LoseMySQL(w) \/ Crash(w)
  <2>1. txn'[w] = NoTxn \/ txn'[w] = BeginTxn(current[w])
    BY <1>0, <1>1 DEF StartTransaction, Commit, CommitUnanswered, Rollback, DeadlockVictim,
        LoseMySQL, Crash, TypeOK
  <2> QED  BY <2>1 DEF NoTxn, BeginTxn, Transaction
<1>2. CASE UpdateTask(w)
  BY <1>0, <1>2 DEF UpdateTask, Writing, Transaction, TypeOK
<1>3. CASE DeleteCases(w)
  BY <1>0, <1>3 DEF DeleteCases, Clearing, Transaction, TypeOK
<1>4. CASE InsertCase(w)
  BY <1>0, <1>4 DEF InsertCase, Adding, Writing, Transaction, TypeOK
<1>5. CASE Restart(w) \/ ConnectMySQL(w) \/ ConnectRabbitMQ(w) \/ Deliver(w) \/ ConsumeError(w)
  BY <1>5 DEF Restart, ConnectMySQL, ConnectRabbitMQ, Deliver, ConsumeError
<1>6. CASE Judge(w) \/ Ping(w) \/ PingFails(w) \/ Ack(w) \/ Nack(w)
  BY <1>6 DEF Judge, Ping, PingFails, Ack, Nack
<1>7. CASE StartFails(w) \/ StatementFails(w) \/ LoseRabbitMQ(w)
  BY <1>7 DEF StartFails, StatementFails, LoseRabbitMQ
<1> QED  BY <1>1, <1>2, <1>3, <1>4, <1>5, <1>6, <1>7 DEF Step, Failure

\* The row of a problem is one transaction's from the counting to the commit: no
\* other one counts it in between, and no other one's commit writes it.
LEMMA CountHeldStep ==
    ASSUME Inv, [Next]_vars, NEW v \in Workers PROVE CountHeld(v)'
<1>0. TypeOK /\ \A u \in Workers : CountHeld(u)
  BY DEF Inv
<1>1. CASE UNCHANGED vars
  BY <1>0, <1>1 DEF vars, tables, CountHeld
<1>2. ASSUME NEW w \in Workers, Step(w) \/ Failure(w) PROVE CountHeld(v)'
  <2>1. \A u \in Workers \ {w} : txn'[u] = txn[u]
    BY <1>0, <1>2, Frame
  <2>2. CASE CountAccepted(w)
    <3> DEFINE q == ProblemOf[TaskOf[current[w]]]
    <3>1. /\ txn'[w].counted = q /\ txn'[w].count = accepted[q] + 1
          /\ accepted' = accepted
      BY <1>0, <2>2 DEF CountAccepted, Counting, Transaction, tables, TypeOK
    <3>2. \A u \in Workers \ {w} : txn[u].counted # q
      BY <2>2 DEF CountAccepted, Goto, Blockers
    <3> HIDE DEF q
    <3> QED  BY <1>0, <2>1, <3>1, <3>2 DEF CountHeld
  <2>3. CASE UNCHANGED tables /\ txn'[w].counted = txn[w].counted /\ txn'[w].count = txn[w].count
    <3>1. \A u \in Workers : txn'[u].counted = txn[u].counted /\ txn'[u].count = txn[u].count
      BY <2>1, <2>3
    <3> QED  BY <1>0, <2>3, <3>1 DEF CountHeld, tables
  <2>4. CASE txn'[w].counted = NoProblem
    <3>1. CASE v = w
      BY <2>4, <3>1 DEF CountHeld
    <3>2. CASE v # w
      <4> DEFINE p == txn[v].counted
      <4>1. ASSUME p # NoProblem PROVE accepted'[p] = accepted[p]
        <5>1. CASE UNCHANGED tables
          BY <5>1 DEF tables
        <5>2. CASE Commit(w) \/ CommitUnanswered(w)
          <6>1. txn[w].counted # p
            BY <1>0, <3>2, <4>1 DEF CountHeld
          <6>2. \/ accepted' = accepted
                \/ accepted' = [accepted EXCEPT ![txn[w].counted] = txn[w].count]
            BY <5>2 DEF Commit, CommitUnanswered, Publish
          <6>3. p \in Problems
            BY <1>0, <4>1 DEF TypeOK, Transactions
          <6> QED  BY <1>0, <6>1, <6>2, <6>3 DEF TypeOK
        <5> QED  BY <1>2, <5>1, <5>2, TablesStep
      <4>2. txn'[v] = txn[v] /\ \A u \in Workers \ {v} : p # NoProblem => txn'[u].counted # p
        BY <1>0, <2>1, <2>4, <3>2 DEF CountHeld
      <4> QED  BY <1>0, <4>1, <4>2 DEF CountHeld
    <3> QED  BY <3>1, <3>2
  <2> QED  BY <1>2, <2>2, <2>3, <2>4, ClaimStep
<1> QED  BY <1>1, <1>2 DEF Next

-----------------------------------------------------------------------------
(* The theorems. *)

\* Inv is preserved: each worker's part by its own steps, and left alone by the
\* others', but for the counts, which take the locks of both.
LEMMA InvStep == ASSUME Inv, [Next]_vars PROVE Inv'
<1>0. TypeOK /\ \A w \in Workers : WorkerInv(w)
  BY DEF Inv
<1>1. \A w \in Workers : WorkerInv(w)'
  <2>1. CASE UNCHANGED vars
    BY <1>0, <2>1 DEF vars, broker, client, tables, WorkerInv, Handling, Holding, Started,
        Updated, Inserted, Counted
  <2>2. ASSUME NEW w \in Workers, Step(w) \/ Failure(w), NEW v \in Workers
        PROVE  WorkerInv(v)'
    <3>1. CASE v = w
      BY <2>2, <3>1, HandlingStep, HoldingStep, DraftingStep DEF WorkerInv, Drafting
    <3>2. CASE v # w
      <4>1. /\ pc'[v] = pc[v] /\ current'[v] = current[v]
            /\ result'[v] = result[v] /\ sent'[v] = sent[v]
            /\ conn'[v] = conn[v] /\ txn'[v] = txn[v]
            /\ channel'[v] = channel[v] /\ unacked'[v] = unacked[v]
        BY <1>0, <2>2, <3>2, Frame
      <4>2. recorded \subseteq recorded'
        BY <2>2, RecordedGrows
      <4>3. Handling(v)' /\ Holding(v)'
        BY <1>0, <4>1, <4>2 DEF WorkerInv, Handling, Holding
      <4>4. Started(v)' /\ Updated(v)' /\ Inserted(v)' /\ Counted(v)'
        BY <1>0, <4>1 DEF WorkerInv, Started, Updated, Inserted, Counted
      <4> QED  BY <4>3, <4>4 DEF WorkerInv
    <3> QED  BY <3>1, <3>2
  <2> QED  BY <2>1, <2>2 DEF Next
<1> QED
  BY <1>1, TypeStep, CountHeldStep, WholeVerdictsStep, SettledRecordedStep,
     RecordedHasVerdictStep, AcceptedCountedStep DEF Inv

\* Inv is an invariant of the specification, for every number of workers,
\* messages, testcases and faults.
LEMMA Invariance == Spec => []Inv
BY InitInv, InvStep, PTL DEF Spec

\* Every reachable state is well typed: in particular no worker ever writes a
\* case row, a problem or a task that its message does not have.
THEOREM TypeCorrect == Spec => []TypeOK
<1>1. Inv => TypeOK
  BY DEF Inv
<1> QED  BY <1>1, Invariance, PTL

\* on_message acks only what is committed or does not parse, for any number of
\* workers and whatever fails.
THEOREM AckedIsRecorded == Spec => []SettledRecorded
<1>1. Inv => SettledRecorded
  BY DEF Inv
<1> QED  BY <1>1, Invariance, PTL

\* A task whose message has left the queue has a verdict, if it has a row.
THEOREM AckedHasVerdict == Spec => []SettledHasVerdict
<1>1. Inv => SettledHasVerdict
  BY DEF Inv, SettledRecorded, RecordedHasVerdict, SettledHasVerdict
<1> QED  BY <1>1, Invariance, PTL

\* The tables hold whole verdicts, for any number of workers, testcases,
\* rejudgings and faults: the statements of update_submission and
\* update_code_run are one atomic write for every reader.
THEOREM VerdictsAreWhole == Spec => []WholeVerdicts
<1>1. Inv => WholeVerdicts
  BY DEF Inv
<1> QED  BY <1>1, Invariance, PTL

\* accepted_count never falls behind the accepted submissions of a problem,
\* however many transactions count at once and however often one is redone: each
\* commits a count that it still holds (CountHeld).
THEOREM NoCountIsLost == Spec => []AcceptedCounted
<1>1. Inv => AcceptedCounted
  BY DEF Inv
<1> QED  BY <1>1, Invariance, PTL

\* update_* closes its transaction on every return path.
THEOREM TransactionsEnd == Spec => []NoTxnLeftOpen
<1>1. Inv => NoTxnLeftOpen
  BY DEF Inv, WorkerInv, Started, InTransaction, NoTxnLeftOpen
<1> QED  BY <1>1, Invariance, PTL

\* on_message answers what the channel holds before the next delivery.
THEOREM DeliveriesAnswered == Spec => []AnsweredOnReturn
<1>1. Inv => AnsweredOnReturn
  BY DEF Inv, WorkerInv, Handling, Holding, Busy, InTransaction, AnsweredOnReturn
<1> QED  BY <1>1, Invariance, PTL

\* Every commit is made by a worker that handles a message of the row's task
\* and, while it is connected, still holds the delivery.
THEOREM CommitsBeforeAnswer == Spec => WrittenWhileUnacked
<1> DEFINE Written ==
        \A t \in Tasks : row'[t] # row[t] =>
            \E w \in Workers :
                /\ current[w] # NoMessage /\ TaskOf[current[w]] = t
                /\ channel[w] => unacked[w] = current[w]
<1>1. ASSUME Inv, [Next]_vars PROVE Written
  <2>1. CASE UNCHANGED tables
    BY <2>1 DEF tables
  <2>2. ASSUME NEW w \in Workers, Commit(w) \/ CommitUnanswered(w), Recording(w) PROVE Written
    <3>1. pc[w] = "commit" /\ TypeOK /\ Holding(w)
      BY <1>1, <2>2 DEF Commit, CommitUnanswered, Goto, Inv, WorkerInv
    <3>2. channel[w] => unacked[w] = current[w]
      BY <3>1 DEF Holding, Busy, InTransaction
    <3>3. /\ current[w] # NoMessage
          /\ \A t \in Tasks : row'[t] # row[t] => t = TaskOf[current[w]]
      BY <2>2, <3>1, VerdictsAssumption DEF Recording, TypeOK
    <3> QED  BY <3>2, <3>3
  <2> QED  BY <1>1, <2>1, <2>2, TablesStep DEF Next, vars
<1> QED  BY <1>1, Invariance, PTL DEF Spec, WrittenWhileUnacked

\* The store speaks of the same verdicts as the workers.
LEMMA SameVerdicts ==
    /\ Store!NewRow = NewRow /\ Store!Results = Results
    /\ \A t \in Tasks, r \in Results :
            Store!RowFor(t, r) = RowFor(t, r) /\ (Store!Counts(t, r) <=> Counts(t, r))
<1>1. Store!NewRow = NewRow
  BY DEF Store!NewRow, NewRow
<1>2. Store!Results = Results
  BY DEF Store!Results, Results, Store!CompileError, CompileError, Store!AllPassed, AllPassed,
      Store!FailedAt, FailedAt
<1>3. ASSUME NEW t \in Tasks, NEW r \in Results
      PROVE  Store!RowFor(t, r) = RowFor(t, r) /\ (Store!Counts(t, r) <=> Counts(t, r))
  BY <1>1 DEF Store!RowFor, RowFor, Store!StatusFor, StatusFor, Store!Score, Score,
      Store!Counts, Counts
<1> QED  BY <1>1, <1>2, <1>3

\* The detailed specification implements the abstract store: a commit is its
\* Record, an ack that reaches the broker its Settle, all else a stutter.
THEOREM StoreImplemented == Spec => ImplementsStore
<1>1. Init => Store!Init
  BY SameVerdicts DEF Init, Store!Init
<1>2. ASSUME Inv, [Next]_vars PROVE [Store!Next]_(Store!vars)
  <2> USE DEF Store!vars, tables
  <2>1. CASE UNCHANGED vars
    BY <2>1 DEF vars, broker
  <2>2. ASSUME NEW w \in Workers, Step(w) \/ Failure(w), UNCHANGED tables
        PROVE  [Store!Next]_(Store!vars)
    <3>1. CASE UNCHANGED settled
      BY <2>2, <3>1
    <3>2. CASE ~UNCHANGED settled
      <4>1. Store!Settle(current[w]) /\ current[w] \in Messages
        BY <1>2, <2>2, <3>2, SettledStep DEF Store!Settle
      <4> QED  BY <4>1 DEF Store!Next
    <3> QED  BY <3>1, <3>2
  <2>3. ASSUME NEW w \in Workers, Commit(w) \/ CommitUnanswered(w), Recording(w)
        PROVE  [Store!Next]_(Store!vars)
    <3>1. UNCHANGED settled
      BY <2>3 DEF Commit, CommitUnanswered, broker
    <3>2. Store!Record(current[w]) /\ current[w] \in Messages
      BY <2>3, <3>1, SameVerdicts DEF Recording, Store!Record
    <3> QED  BY <3>2 DEF Store!Next
  <2> QED  BY <1>2, <2>1, <2>2, <2>3, TablesStep DEF Next
<1> QED  BY <1>1, <1>2, Invariance, PTL DEF Spec, ImplementsStore, Store!Spec

=============================================================================
