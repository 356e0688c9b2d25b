------------------------------ MODULE Verdicts ------------------------------
(***************************************************************************)
(* What a judge task is about and what its verdict looks like: the data    *)
(* shared by the delivery protocol and by the store it implements.  A      *)
(* message is an opaque value; what matters of it is the row it addresses, *)
(* the problem of that row, and whether parse_message accepts it.          *)
(***************************************************************************)
EXTENDS Naturals, Sequences

CONSTANTS
    Messages,       \* messages published to the queue
    Malformed,      \* the messages that parse_message rejects
    Tasks,          \* rows of fs_submission and fs_code_run
    Runs,           \* the rows of fs_code_run (task_type "RUN")
    Absent,         \* tasks whose row does not exist (yet, or any more)
    TaskOf,         \* the row a message is about
    Problems,       \* rows of fs_problem
    ProblemOf,      \* the problem of a task, NoProblem when problem_id is 0
    NumCases,       \* testcases of every message
    Failures,       \* verdicts of a testcase other than ACCEPTED
    NoMessage, NoTask, NoProblem

ASSUME VerdictsAssumption ==
    /\ Malformed \subseteq Messages
    /\ Runs \subseteq Tasks
    /\ Absent \subseteq Tasks
    /\ TaskOf \in [Messages -> Tasks]
    /\ ProblemOf \in [Tasks -> Problems \cup {NoProblem}]
    /\ NumCases \in Nat
    /\ NoMessage \notin Messages
    /\ NoTask \notin Tasks
    /\ NoProblem \notin Problems
    /\ Failures \cap {"ACCEPTED", "PENDING", "COMPILE_ERROR"} = {}

\* The results of judge(): every case before the last one passed, and it
\* stops at the first that does not.
FailedAt(k, failure) ==
    [status |-> failure,
     cases |-> [i \in 1..k |-> IF i = k THEN failure ELSE "ACCEPTED"]]

AllPassed == [status |-> "ACCEPTED", cases |-> [i \in 1..NumCases |-> "ACCEPTED"]]

CompileError == [status |-> "COMPILE_ERROR", cases |-> <<>>]

Results == {CompileError, AllPassed}
              \cup {FailedAt(k, f) : k \in 1..NumCases, f \in Failures}

Statuses == Failures \cup {"ACCEPTED", "COMPILE_ERROR", "PENDING"}

\* A task's row together with its case rows, as its readers see them.
Rows == [status : Statuses, score : {0, 100}, cases : Seq(Statuses)]

NewRow == [status |-> "PENDING", score |-> 0, cases |-> <<>>]

\* An UPDATE that finds no row changes nothing, and is no error.
StatusFor(t, status) == IF t \in Absent THEN NewRow.status ELSE status

\* fs_code_run has no score column: it is left at 0 here.
Score(t, status) ==
    IF t \notin Runs \cup Absent /\ status = "ACCEPTED" THEN 100 ELSE 0

\* The row a complete transaction for this result leaves behind.
RowFor(t, r) == [status |-> StatusFor(t, r.status), score |-> Score(t, r.status),
                 cases |-> r.cases]

\* Mutant: custom runs count.
CountsRuns(t, r) == r.status = "ACCEPTED" /\ ProblemOf[t] # NoProblem

\* Mutant: the status is not looked at.
CountsAnyVerdict(t, r) == t \notin Runs /\ ProblemOf[t] # NoProblem

\* An accepted submission of a known problem adds 1 to accepted_count.
Counts(t, r) == t \notin Runs /\ r.status = "ACCEPTED" /\ ProblemOf[t] # NoProblem
=============================================================================
