--------------------------- MODULE JudgeDelivery ---------------------------
(***************************************************************************)
(* The path of a judge task from the RabbitMQ queue to the MySQL tables.   *)
(* Several worker processes consume one queue.  Each handles one delivery  *)
(* at a time in Worker::on_message: parse, judge, ping MySQL, write the    *)
(* verdict in one transaction, then ack the delivery or hand it back.      *)
(*                                                                         *)
(* One action per step between which another worker, the broker or a crash *)
(* can act: a MySQL statement, a call that sends an ack or a nack, the     *)
(* (re)connection of a client.  The broker and the MySQL server are        *)
(* external: they are modelled by what the workers can observe of them.    *)
(* What judge() computes is any verdict of Results (see SandboxJudge).     *)
(***************************************************************************)
EXTENDS Verdicts, FiniteSets

CONSTANTS
    Workers,        \* worker processes that consume the queue
    GapOf,          \* where in the index of the case rows a task's rows belong
    MaxFaults       \* bound on crashes, lost connections and failed calls

ASSUME FaultsAssumption == MaxFaults \in Nat
ASSUME TasksAssumption == IsFiniteSet(Tasks) /\ DOMAIN GapOf = Tasks
ASSUME PopulationAssumption == IsFiniteSet(Messages) /\ IsFiniteSet(Workers)

VARIABLES
    ready,          \* broker: messages waiting in the queue
    unacked,        \* broker: the delivery each worker's channel has not settled
    settled,        \* broker: messages acked, gone from the queue
    channel,        \* whether the worker's AMQP connection is up
    pc,             \* the call each worker is about to make
    current,        \* the message on_message is handling
    result,         \* the verdict it is writing
    sent,           \* how many of its case rows it has inserted
    conn,           \* its MySQL handle: "open", "lost" or "dead"
    txn,            \* MySQL: the transaction open on its session
    row,            \* MySQL: the committed task rows with their case rows
    accepted,       \* MySQL: fs_problem.accepted_count
    recorded,       \* history: messages whose verdict has been committed
    faults          \* faults so far, at most MaxFaults

broker == <<ready, unacked, settled, channel>>
client == <<current, result, sent>>
tables == <<row, accepted, recorded>>
vars == <<broker, pc, client, conn, txn, tables, faults>>

-----------------------------------------------------------------------------
NoResult == [status |-> "PENDING", cases |-> <<>>]

(* A transaction is what its session alone can see: the row it rewrote,    *)
(* whether its DELETE has cleared the case rows, the problem it has        *)
(* counted and the count it has set there.  It holds the locks of all of   *)
(* it until it ends.                                                       *)

Transactions ==
    [open : BOOLEAN, msg : Messages \cup {NoMessage}, task : Tasks \cup {NoTask},
     cleared : BOOLEAN, draft : Rows, counted : Problems \cup {NoProblem}, count : Nat]

Transaction(o, m, t, c, d, p, n) ==
    [open |-> o, msg |-> m, task |-> t, cleared |-> c, draft |-> d, counted |-> p, count |-> n]

NoTxn == Transaction(FALSE, NoMessage, NoTask, FALSE, NewRow, NoProblem, 0)

BeginTxn(m) == Transaction(TRUE, m, NoTask, FALSE, NewRow, NoProblem, 0)

\* The transaction x after its UPDATE, its DELETE, an INSERT, its counting.
Writing(x, t, d) == Transaction(x.open, x.msg, t, x.cleared, d, x.counted, x.count)
WithCases(d, cs) == [status |-> d.status, score |-> d.score, cases |-> cs]
Clearing(x) == Transaction(x.open, x.msg, x.task, TRUE, WithCases(x.draft, <<>>),
                           x.counted, x.count)
Adding(x, c) == Writing(x, x.task, WithCases(x.draft, Append(x.draft.cases, c)))
Counting(x, p, n) == Transaction(x.open, x.msg, x.task, x.cleared, x.draft, p, n)

\* Whether v has written case rows of its task that it has not committed.
HasWritten(v) == txn[v].cleared /\ (sent[v] > 0 \/ row[txn[v].task].cases # <<>>)

\* The transactions that the statement of w waits for: an UPDATE for the row,
\* a DELETE for case rows of the same task, an INSERT for every other DELETE
\* whose gap lock covers its place in the index, the count for the problem.
Blockers(w) ==
    LET t == TaskOf[current[w]] IN
    {v \in Workers \ {w} :
        \/ pc[w] = "update" /\ t \notin Absent /\ txn[v].task = t
        \/ pc[w] = "delete" /\ txn[v].task = t /\ HasWritten(v)
        \/ pc[w] = "insert" /\ txn[v].cleared /\ GapOf[txn[v].task] = GapOf[t]
        \/ pc[w] = "problem" /\ txn[v].counted = ProblemOf[t]}

\* What the server does when it commits the session's transaction.
Publish(w) ==
    /\ row' = IF txn[w].task = NoTask THEN row
              ELSE [row EXCEPT ![txn[w].task] = txn[w].draft]
    /\ accepted' = IF txn[w].counted = NoProblem THEN accepted
                   ELSE [accepted EXCEPT ![txn[w].counted] = txn[w].count]
    /\ recorded' = IF txn[w].task = NoTask THEN recorded
                   ELSE recorded \cup {txn[w].msg}

-----------------------------------------------------------------------------
Init ==
    /\ ready = Messages
    /\ unacked = [w \in Workers |-> NoMessage]
    /\ settled = {}
    /\ channel = [w \in Workers |-> FALSE]
    /\ pc = [w \in Workers |-> "exited"]
    /\ current = [w \in Workers |-> NoMessage]
    /\ result = [w \in Workers |-> NoResult]
    /\ sent = [w \in Workers |-> 0]
    /\ conn = [w \in Workers |-> "dead"]
    /\ txn = [w \in Workers |-> NoTxn]
    /\ row = [t \in Tasks |-> NewRow]
    /\ accepted = [p \in Problems |-> 0]
    /\ recorded = {}
    /\ faults = 0

Goto(w, from, to) == pc[w] = from /\ pc' = [pc EXCEPT ![w] = to]

Fault == faults < MaxFaults /\ faults' = faults + 1

\* The broker takes back what the channel holds.
Requeue(w) ==
    /\ ready' = IF unacked[w] = NoMessage THEN ready ELSE ready \cup {unacked[w]}
    /\ unacked' = [unacked EXCEPT ![w] = NoMessage]

Forget(w) ==
    /\ current' = [current EXCEPT ![w] = NoMessage]
    /\ result' = [result EXCEPT ![w] = NoResult]
    /\ sent' = [sent EXCEPT ![w] = 0]

-----------------------------------------------------------------------------
(* Worker::run: start, connect, consume. *)

\* The process is started again (by the operator or a supervisor: external).
Restart(w) ==
    /\ Goto(w, "exited", "mysql")
    /\ UNCHANGED <<broker, client, conn, txn, tables, faults>>

ConnectMySQL(w) ==
    /\ Goto(w, "mysql", "rabbitmq")
    /\ conn' = [conn EXCEPT ![w] = "open"]
    /\ UNCHANGED <<broker, client, txn, tables, faults>>

ConnectRabbitMQ(w) ==
    /\ Goto(w, "rabbitmq", "consume")
    /\ channel' = [channel EXCEPT ![w] = TRUE]
    /\ UNCHANGED <<ready, unacked, settled, client, conn, txn, tables, faults>>

\* Mutant: the consumer asks for no_ack = 1, the broker forgets the delivery.
DeliverNoAck(w) ==
    /\ channel[w]
    /\ \E m \in ready :
        /\ Goto(w, "consume", IF m \in Malformed THEN "ack" ELSE "judge")
        /\ ready' = ready \ {m}
        /\ settled' = settled \cup {m}
        /\ current' = [current EXCEPT ![w] = m]
    /\ UNCHANGED <<unacked, channel, result, sent, conn, txn, tables, faults>>

\* amqp_consume_message returns a delivery; on_message acks at once what does
\* not parse.  The broker may redeliver in any order.
Deliver(w) ==
    /\ channel[w] /\ unacked[w] = NoMessage
    /\ \E m \in ready :
        /\ Goto(w, "consume", IF m \in Malformed THEN "ack" ELSE "judge")
        /\ ready' = ready \ {m}
        /\ unacked' = [unacked EXCEPT ![w] = m]
        /\ current' = [current EXCEPT ![w] = m]
    /\ UNCHANGED <<settled, channel, result, sent, conn, txn, tables, faults>>

\* A consume error ends consume(), run() returns 1 and the process exits.
ConsumeError(w) ==
    /\ ~channel[w]
    /\ Goto(w, "consume", "exited")
    /\ conn' = [conn EXCEPT ![w] = "dead"]
    /\ UNCHANGED <<broker, client, txn, tables, faults>>

-----------------------------------------------------------------------------
(* Worker::on_message. *)

Judge(w) ==
    /\ Goto(w, "judge", "ping")
    /\ \E r \in Results : result' = [result EXCEPT ![w] = r]
    /\ UNCHANGED <<broker, current, sent, conn, txn, tables, faults>>

\* ping() reconnects a handle that does not answer.
Ping(w) ==
    /\ Goto(w, "ping", "start")
    /\ conn' = [conn EXCEPT ![w] = "open"]
    /\ UNCHANGED <<broker, client, txn, tables, faults>>

\* The reconnection fails: on_message ignores it, and the handle is the one
\* of the failed mysql_real_connect.
PingFails(w) ==
    /\ Fault
    /\ conn[w] # "open"
    /\ Goto(w, "ping", "start")
    /\ conn' = [conn EXCEPT ![w] = "dead"]
    /\ UNCHANGED <<broker, client, txn, tables>>

\* Mutant: the failure path follows the success path, its return is missing.
AckThenNack(w) ==
    /\ Goto(w, "ack", "consume")
    /\ settled' = IF channel[w] THEN settled \cup {current[w]} ELSE settled
    /\ Requeue(w)
    /\ Forget(w)
    /\ UNCHANGED <<channel, conn, txn, tables, faults>>

Ack(w) ==
    /\ Goto(w, "ack", "consume")
    /\ settled' = IF channel[w] THEN settled \cup {current[w]} ELSE settled
    /\ unacked' = [unacked EXCEPT ![w] = NoMessage]
    /\ Forget(w)
    /\ UNCHANGED <<ready, channel, conn, txn, tables, faults>>

\* Mutant: on_message returns without handing the delivery back.
NackForgotten(w) ==
    /\ Goto(w, "nack", "consume")
    /\ Forget(w)
    /\ UNCHANGED <<broker, conn, txn, tables, faults>>

\* Mutant: the delivery to hand back is taken from a channel that lost it.
NackUnheld(w) ==
    /\ Goto(w, "nack", "consume")
    /\ ready' = ready \cup {unacked[w]}
    /\ unacked' = [unacked EXCEPT ![w] = NoMessage]
    /\ Forget(w)
    /\ UNCHANGED <<settled, channel, conn, txn, tables, faults>>

Nack(w) ==
    /\ Goto(w, "nack", "consume")
    /\ Requeue(w)
    /\ Forget(w)
    /\ UNCHANGED <<settled, channel, conn, txn, tables, faults>>

-----------------------------------------------------------------------------
(* MySQLClient::update_submission and update_code_run, statement by         *)
(* statement.  A handle that libmysqlclient lost reconnects by itself at    *)
(* START TRANSACTION, never inside a transaction.                           *)

\* START TRANSACTION commits what the session had left open.
StartTransaction(w) ==
    /\ conn[w] # "dead"
    /\ Goto(w, "start", "update")
    /\ conn' = [conn EXCEPT ![w] = "open"]
    /\ Publish(w)
    /\ txn' = [txn EXCEPT ![w] = BeginTxn(current[w])]
    /\ UNCHANGED <<broker, client, faults>>

\* Mutant: the result of update_* is ignored.
StartFailsUnnoticed(w) ==
    /\ IF conn[w] = "open" THEN Fault ELSE UNCHANGED faults
    /\ Goto(w, "start", "ack")
    /\ UNCHANGED <<broker, client, conn, txn, tables>>

StartFails(w) ==
    /\ IF conn[w] = "open" THEN Fault ELSE UNCHANGED faults
    /\ Goto(w, "start", "nack")
    /\ UNCHANGED <<broker, client, conn, txn, tables>>

\* Mutant: outside a transaction, the UPDATE is visible at once.
UpdateAutocommitted(w) ==
    LET t == TaskOf[current[w]] IN
    /\ Goto(w, "update", "delete")
    /\ conn[w] = "open"
    /\ Blockers(w) = {}
    /\ row' = [row EXCEPT ![t].status = StatusFor(t, result[w].status)]
    /\ txn' = [txn EXCEPT ![w] = Writing(@, t, row'[t])]
    /\ UNCHANGED <<broker, client, conn, accepted, recorded, faults>>

\* UPDATE fs_submission / fs_code_run: waits for the row lock.
UpdateTask(w) ==
    LET t == TaskOf[current[w]] IN
    /\ Goto(w, "update", "delete")
    /\ conn[w] = "open"
    /\ Blockers(w) = {}
    /\ txn' = [txn EXCEPT ![w] = Writing(@, t,
                    [status |-> StatusFor(t, result[w].status),
                     score |-> Score(t, result[w].status),
                     cases |-> row[t].cases])]
    /\ UNCHANGED <<broker, client, conn, tables, faults>>

\* The statement that follows n INSERTs.
AfterInserts(w, n) ==
    IF n < Len(result[w].cases) THEN "insert"
    ELSE IF Counts(TaskOf[current[w]], result[w]) THEN "problem" ELSE "commit"

\* Mutant: the case rows of an earlier judging stay.
DeleteSkipped(w) ==
    /\ pc[w] = "delete" /\ conn[w] = "open"
    /\ pc' = [pc EXCEPT ![w] = AfterInserts(w, 0)]
    /\ UNCHANGED <<broker, client, conn, txn, tables, faults>>

DeleteCases(w) ==
    /\ pc[w] = "delete" /\ conn[w] = "open"
    /\ Blockers(w) = {}
    /\ pc' = [pc EXCEPT ![w] = AfterInserts(w, 0)]
    /\ txn' = [txn EXCEPT ![w] = Clearing(@)]
    /\ UNCHANGED <<broker, client, conn, tables, faults>>

InsertCase(w) ==
    LET n == sent[w] + 1 IN
    /\ pc[w] = "insert" /\ conn[w] = "open"
    /\ Blockers(w) = {}
    /\ pc' = [pc EXCEPT ![w] = AfterInserts(w, n)]
    /\ sent' = [sent EXCEPT ![w] = n]
    /\ txn' = [txn EXCEPT ![w] = Adding(@, result[w].cases[n])]
    /\ UNCHANGED <<broker, current, result, conn, tables, faults>>

\* Mutant: the count is read without a lock, and what was read plus 1 is written.
CountUnlocked(w) ==
    LET p == ProblemOf[TaskOf[current[w]]] IN
    /\ Goto(w, "problem", "commit")
    /\ conn[w] = "open"
    /\ txn' = [txn EXCEPT ![w] = Counting(@, p, accepted[p] + 1)]
    /\ UNCHANGED <<broker, client, conn, tables, faults>>

\* UPDATE fs_problem SET accepted_count = accepted_count + 1: waits for the row
\* of the problem, adds to the committed count, and keeps the row until COMMIT.
CountAccepted(w) ==
    LET p == ProblemOf[TaskOf[current[w]]] IN
    /\ Goto(w, "problem", "commit")
    /\ conn[w] = "open"
    /\ Blockers(w) = {}
    /\ txn' = [txn EXCEPT ![w] = Counting(@, p, accepted[p] + 1)]
    /\ UNCHANGED <<broker, client, conn, tables, faults>>

Commit(w) ==
    /\ conn[w] = "open"
    /\ Goto(w, "commit", "ack")
    /\ Publish(w)
    /\ txn' = [txn EXCEPT ![w] = NoTxn]
    /\ UNCHANGED <<broker, client, conn, faults>>

\* The server commits but the connection breaks before the reply arrives.
CommitUnanswered(w) ==
    /\ Fault
    /\ conn[w] = "open"
    /\ Goto(w, "commit", "rollback")
    /\ Publish(w)
    /\ conn' = [conn EXCEPT ![w] = "lost"]
    /\ txn' = [txn EXCEPT ![w] = NoTxn]
    /\ UNCHANGED <<broker, client>>

\* A statement fails: the server refuses it (a value that does not fit, a lock
\* wait timeout, ...), or the connection was lost.
StatementFails(w) ==
    /\ pc[w] \in {"update", "delete", "insert", "problem", "commit"}
    /\ IF conn[w] = "open" THEN Fault ELSE UNCHANGED faults
    /\ pc' = [pc EXCEPT ![w] = "rollback"]
    /\ UNCHANGED <<broker, client, conn, txn, tables>>

\* Mutants: the failed statement is not rolled back; the failure is acked.
RollbackSkipped(w) ==
    /\ Goto(w, "rollback", "nack")
    /\ UNCHANGED <<broker, client, conn, txn, tables, faults>>
RollbackThenAck(w) ==
    /\ Goto(w, "rollback", "ack")
    /\ txn' = [txn EXCEPT ![w] = NoTxn]
    /\ UNCHANGED <<broker, client, conn, tables, faults>>

\* On a lost connection ROLLBACK fails too: the server has already undone
\* the transaction.
Rollback(w) ==
    /\ Goto(w, "rollback", "nack")
    /\ txn' = [txn EXCEPT ![w] = NoTxn]
    /\ UNCHANGED <<broker, client, conn, tables, faults>>

\* Transactions in a circle, each waiting for the next: a least set in which
\* everyone waits for a member.
Waiting(D) == D # {} /\ \A v \in D : Blockers(v) \cap D # {}
Circle(D) == Waiting(D) /\ \A E \in SUBSET D : Waiting(E) => E = D

\* InnoDB's weight of a transaction: the rows it has written.
Weight(v) == sent[v] + IF txn[v].cleared THEN Len(row[txn[v].task].cases) ELSE 0

\* The server finds the circle at once, undoes a lightest transaction of it and
\* fails its statement.
DeadlockVictim(w) ==
    /\ \E D \in SUBSET Workers :
        w \in D /\ Circle(D) /\ \A v \in D : Weight(w) <= Weight(v)
    /\ pc' = [pc EXCEPT ![w] = "rollback"]
    /\ txn' = [txn EXCEPT ![w] = NoTxn]
    /\ UNCHANGED <<broker, client, conn, tables, faults>>

-----------------------------------------------------------------------------
(* The environment. *)

\* The server ends the session and undoes its transaction.
LoseMySQL(w) ==
    /\ Fault
    /\ conn[w] = "open"
    /\ conn' = [conn EXCEPT ![w] = "lost"]
    /\ txn' = [txn EXCEPT ![w] = NoTxn]
    /\ UNCHANGED <<broker, pc, client, tables>>

\* The broker drops the connection and requeues its delivery; the worker may
\* still be judging it, and finds out only when it consumes again.
LoseRabbitMQ(w) ==
    /\ Fault
    /\ channel[w]
    /\ channel' = [channel EXCEPT ![w] = FALSE]
    /\ Requeue(w)
    /\ UNCHANGED <<settled, pc, client, conn, txn, tables>>

\* The process is killed, or ends on an exception nobody catches.
Crash(w) ==
    /\ Fault
    /\ pc[w] # "exited"
    /\ pc' = [pc EXCEPT ![w] = "exited"]
    /\ channel' = [channel EXCEPT ![w] = FALSE]
    /\ Requeue(w)
    /\ Forget(w)
    /\ conn' = [conn EXCEPT ![w] = "dead"]
    /\ txn' = [txn EXCEPT ![w] = NoTxn]
    /\ UNCHANGED <<settled, tables>>

-----------------------------------------------------------------------------
\* What a worker does when nothing goes wrong from here on.
Step(w) ==
    \/ Restart(w) \/ ConnectMySQL(w) \/ ConnectRabbitMQ(w)
    \/ Deliver(w) \/ ConsumeError(w)
    \/ Judge(w) \/ Ping(w) \/ Ack(w) \/ Nack(w)
    \/ StartTransaction(w) \/ UpdateTask(w) \/ DeleteCases(w) \/ InsertCase(w)
    \/ CountAccepted(w) \/ Commit(w) \/ DeadlockVictim(w) \/ Rollback(w)

Failure(w) ==
    \/ PingFails(w) \/ StartFails(w) \/ StatementFails(w) \/ CommitUnanswered(w)
    \/ LoseMySQL(w) \/ LoseRabbitMQ(w) \/ Crash(w)

Next == \E w \in Workers : Step(w) \/ Failure(w)

Spec == Init /\ [][Next]_vars

\* Every call returns: isolate bounds judge() by its wall time, MySQL and
\* RabbitMQ answer or fail, and a process that exited is started again.
\* Nothing obliges a fault to happen.  A statement that waits gets its lock
\* when it is released, and not only if it stays free: InnoDB queues requests.
Fairness ==
    \A w \in Workers :
        /\ WF_vars(\/ Step(w)
                   \/ conn[w] # "open" /\ (StartFails(w) \/ StatementFails(w)))
        /\ SF_vars(UpdateTask(w)) /\ SF_vars(InsertCase(w)) /\ SF_vars(CountAccepted(w))

FairSpec == Spec /\ Fairness

-----------------------------------------------------------------------------
(* Properties. *)

\* Every variable stays in its type; the history and the broker sets hold
\* messages, a row holds a status, a score and its case rows.
TypeOK ==
    /\ ready \subseteq Messages /\ settled \subseteq Messages
    /\ unacked \in [Workers -> Messages \cup {NoMessage}]
    /\ channel \in [Workers -> BOOLEAN]
    /\ pc \in [Workers -> {"exited", "mysql", "rabbitmq", "consume", "judge", "ping",
                           "start", "update", "delete", "insert", "problem", "commit",
                           "rollback", "nack", "ack"}]
    /\ current \in [Workers -> Messages \cup {NoMessage}]
    /\ result \in [Workers -> Results \cup {NoResult}]
    /\ sent \in [Workers -> Nat]
    /\ conn \in [Workers -> {"open", "lost", "dead"}]
    /\ txn \in [Workers -> Transactions]
    /\ row \in [Tasks -> Rows]
    /\ accepted \in [Problems -> Nat]
    /\ recorded \subseteq Messages
    /\ faults \in 0..MaxFaults

\* on_message acks a delivery only after its own verdict was committed, or
\* because it does not parse (DESIGN.md 5.5): no crash, lost ack or failed
\* statement makes a settled task without a verdict.
SettledRecorded == settled \subseteq recorded \cup Malformed

\* Readers of MySQL see a verdict with the score and the case rows of the same
\* execution, whoever wrote them last: never the status of one judging with
\* the cases of another, nor half of an update.
WholeVerdicts ==
    \A t \in Tasks : row[t] \in {NewRow} \cup {RowFor(t, r) : r \in Results}

\* update_* leaves no transaction behind on any of its return paths: the next
\* START TRANSACTION on the session would commit it.
NoTxnLeftOpen ==
    \A w \in Workers :
        txn[w].open => pc[w] \in {"update", "delete", "insert", "problem",
                                  "commit", "rollback"}

\* Every return path of on_message answers its delivery: with prefetch 1, one left
\* unanswered would stop the consumer for good.  (That none is answered twice is
\* in MessagesConserved.)
AnsweredOnReturn ==
    \A w \in Workers :
        /\ pc[w] \in {"mysql", "rabbitmq", "consume"} => unacked[w] = NoMessage
        /\ unacked[w] # NoMessage => unacked[w] = current[w]

\* An accepted submission has been counted for its problem, also when several
\* transactions count it at once: no commit writes a count that another one has
\* overtaken.
Solved(p) ==
    {t \in Tasks \ Runs : row[t].status = "ACCEPTED" /\ ProblemOf[t] = p}
AcceptedCounted == \A p \in Problems : Cardinality(Solved(p)) <= accepted[p]

\* No message is lost, and none is doubled: each is in the queue, or held by one
\* channel that has not answered it, or settled, whatever on_message does with
\* its deliveries and whenever a worker dies.
MessagesConserved ==
    /\ \A m \in Messages : m \in ready \cup settled \/ \E w \in Workers : unacked[w] = m
    /\ ready \cap settled = {}
    /\ \A w \in Workers : unacked[w] # NoMessage =>
        /\ unacked[w] \notin ready \cup settled
        /\ \A v \in Workers \ {w} : unacked[v] # unacked[w]

\* Each accepted submission is counted once as long as nothing fails and each
\* row has one message; only one whose row is missing may be counted although
\* no row shows it.
OneMessageEach == \A m, n \in Messages \ Malformed : TaskOf[m] = TaskOf[n] => m = n
Unseen(p) ==
    {t \in Absent \ Runs : ProblemOf[t] = p /\ \E m \in recorded : TaskOf[m] = t}
CountedOnce ==
    OneMessageEach /\ faults = 0 =>
        \A p \in Problems :
            accepted[p] - Cardinality(Solved(p)) \in 0..Cardinality(Unseen(p))

\* A verdict is counted a second time only after a fault: accepted_count is
\* never above the messages that were recorded for the problem's submissions
\* by more than the crashes, lost answers and failed calls there were, also when a
\* message for the same submission was published twice.
Submitted(p) ==
    {m \in recorded : TaskOf[m] \notin Runs /\ ProblemOf[TaskOf[m]] = p}
RecountsAreFaults ==
    \A p \in Problems : accepted[p] <= Cardinality(Submitted(p)) + faults

\* Who asks for the row of a message that has left the queue finds a verdict in
\* it, unless there is no such row (nobody looks at the number of affected rows).
SettledHasVerdict ==
    \A m \in settled \ Malformed :
        TaskOf[m] \notin Absent => row[TaskOf[m]].status # "PENDING"

\* The workers with their statements, crashes and redeliveries implement the
\* abstract store: a verdict with its cases and its count appears at once, for a
\* message that parses, and only then the message may leave the queue.
Store == INSTANCE VerdictStore
ImplementsStore == Store!Spec

\* A row is written before its delivery is answered: a worker that is still
\* connected holds the delivery at every commit, so that a crash at any point
\* brings the message back.
WrittenWhileUnacked ==
    [][\A t \in Tasks : row'[t] # row[t] =>
         \E w \in Workers :
            /\ current[w] # NoMessage /\ TaskOf[current[w]] = t
            /\ channel[w] => unacked[w] = current[w]]_vars

\* Every message is settled in the end: the faults are finite, and every
\* failure path hands the delivery back to the queue.
EventuallySettled == \A m \in Messages : <>(m \in settled)

-----------------------------------------------------------------------------
(* The inductive invariant of the proofs (JudgeDeliveryProofs). *)

InTransaction == {"update", "delete", "insert", "problem", "commit", "rollback"}
Busy == InTransaction \cup {"judge", "ping", "start", "nack", "ack"}

\* What on_message has in hand at each of its calls.
Handling(w) ==
    /\ pc[w] \in Busy <=> current[w] # NoMessage
    /\ pc[w] \in Busy \ {"ack"} => current[w] \notin Malformed
    /\ pc[w] \in Busy \ {"judge", "ack"} => result[w] \in Results
    /\ pc[w] = "ack" => current[w] \in recorded \cup Malformed

\* What the channel holds is what on_message handles.
Holding(w) ==
    /\ unacked[w] # NoMessage => channel[w] /\ unacked[w] = current[w]
    /\ channel[w] /\ pc[w] \in Busy => unacked[w] = current[w]

\* How far the open transaction has come.
Started(w) ==
    LET x == txn[w] IN
    /\ x.open => pc[w] \in InTransaction
    /\ ~x.open => x = NoTxn
    /\ conn[w] = "open" /\ pc[w] \in InTransaction \ {"rollback"} => x.open
    /\ x.open => x.msg = current[w]

Updated(w) ==
    LET x == txn[w]
        t == TaskOf[current[w]] IN
    x.open /\ pc[w] \in {"delete", "insert", "problem", "commit"} =>
        /\ x.task = t
        /\ x.draft.status = StatusFor(t, result[w].status)
        /\ x.draft.score = Score(t, result[w].status)

Inserted(w) ==
    LET done == txn[w].draft.cases IN
    /\ pc[w] \notin {"insert", "problem", "commit", "rollback", "nack", "ack"} => sent[w] = 0
    /\ txn[w].open /\ pc[w] \in {"insert", "problem", "commit"} =>
        /\ sent[w] = Len(done)
        /\ sent[w] <= Len(result[w].cases)
        /\ \A i \in 1..sent[w] : done[i] = result[w].cases[i]
        /\ pc[w] = "insert" <=> sent[w] < Len(result[w].cases)

Counted(w) ==
    LET t == TaskOf[current[w]]
        p == txn[w].counted IN
    /\ pc[w] = "problem" => Counts(t, result[w])
    /\ txn[w].open /\ pc[w] \in {"update", "delete", "insert", "problem"} => p = NoProblem
    /\ txn[w].open /\ pc[w] = "commit" =>
        p = IF Counts(t, result[w]) THEN ProblemOf[t] ELSE NoProblem

\* The count a transaction has set is still the next one when it commits: nobody
\* else can count the problem before.
CountHeld(w) ==
    LET p == txn[w].counted IN
    p # NoProblem =>
        /\ txn[w].count = accepted[p] + 1
        /\ \A v \in Workers \ {w} : txn[v].counted # p

WorkerInv(w) ==
    Handling(w) /\ Holding(w) /\ Started(w) /\ Updated(w) /\ Inserted(w) /\ Counted(w)

\* A committed verdict is one of a message that parses, and is never taken back.
RecordedHasVerdict ==
    \A m \in recorded :
        /\ m \notin Malformed
        /\ TaskOf[m] \notin Absent => row[TaskOf[m]].status # "PENDING"

Inv ==
    /\ TypeOK
    /\ \A w \in Workers : WorkerInv(w)
    /\ \A w \in Workers : CountHeld(w)
    /\ WholeVerdicts
    /\ SettledRecorded
    /\ RecordedHasVerdict
    /\ AcceptedCounted

-----------------------------------------------------------------------------
(* The inductive invariant about messages and counts, on top of Inv            *)
(* (JudgeDeliveryCounts).                                                      *)

\* The messages that may be counted for p; those that still may, in the queue or
\* with a worker that has not committed.  Only a fault makes a second copy of one.
CountableFor(p) ==
    {m \in Messages \ Malformed : TaskOf[m] \notin Runs /\ ProblemOf[TaskOf[m]] = p}
Queued(p) == ready \cap CountableFor(p)
Underway(p) ==
    {w \in Workers : pc[w] \in Busy \ {"ack"} /\ current[w] \in CountableFor(p)}
CountBudget ==
    \A p \in Problems :
        accepted[p] + Cardinality(Queued(p)) + Cardinality(Underway(p))
            <= Cardinality(CountableFor(p)) + faults

\* Without a fault a worker stays connected, and what it has committed is never
\* judged again.
Quiet ==
    faults = 0 =>
        /\ \A w \in Workers : pc[w] \in Busy => channel[w]
        /\ \A m \in recorded :
            m \in settled \/ \E w \in Workers : pc[w] = "ack" /\ current[w] = m

RowsAreRecorded == \A t \in Tasks : row[t] # NewRow => \E m \in recorded : TaskOf[m] = t

CountInv == MessagesConserved /\ CountBudget /\ Quiet /\ RowsAreRecorded /\ CountedOnce
=============================================================================
