---------------------------- MODULE TaskMessage ----------------------------
(***************************************************************************)
(* What becomes of the body of a message: JudgeEngine::parse_message turns *)
(* a JSON text into a task or rejects it, judge() numbers its case results *)
(* and on_message with MySQLClient writes them to the row that the message *)
(* names.  A default for the same key is chosen in more than one place.    *)
(*                                                                         *)
(* A JSON value is a record of its kind and its content, an object's being *)
(* a function from its keys.  Numbers are integers, converted to uint64_t  *)
(* and int as the code's types do.                                         *)
(***************************************************************************)
EXTENDS Integers, Sequences

LOCAL INSTANCE SequencesExt

CONSTANTS
    Bodies,         \* the JSON values of what is published; Broken if it is none
    IdRange,        \* 2^64: ids are uint64_t
    IntRange,       \* 2^32: a case_index is an int
    NoMessage

ASSUME MessageAssumption ==
    IdRange \in Nat \ {0} /\ IntRange \in Nat \ {0}

VARIABLES
    body,           \* the delivery
    pc,             \* where on_message is
    msg,            \* the SubmissionMessage, or NoMessage
    cases,          \* case_results
    written         \* what update_submission or update_code_run wrote

vars == <<body, pc, msg, cases, written>>

-----------------------------------------------------------------------------
(* nlohmann::json (external): get, value and at throw for a wrong type, at   *)
(* also for a key that is not there.                                         *)

Broken == [kind |-> "broken"]
Null == [kind |-> "null"]
Text(s) == [kind |-> "text", of |-> s]
Number(n) == [kind |-> "number", of |-> n]
Bool(b) == [kind |-> "bool", of |-> IF b THEN 1 ELSE 0]
Object(f) == [kind |-> "object", of |-> f]
Array(s) == [kind |-> "array", of |-> s]

\* What get<uint64_t> accepts, and what get<int> accepts.
Id == {"number"}
Int32 == {"number", "bool"}
String == {"text"}

Required(j, key, kinds) == key \in DOMAIN j.of /\ j.of[key].kind \in kinds
Optional(j, key, kinds) == key \in DOMAIN j.of => j.of[key].kind \in kinds
Value(j, key, default) == IF key \in DOMAIN j.of THEN j.of[key].of ELSE default

\* contains(key) && !j[key].is_null()
Given(j, key) == key \in DOMAIN j.of /\ j.of[key].kind # "null"

\* A range-for visits the values of an array or an object (in the order of its
\* keys: any order does here), nothing of null, and any other value itself.
Items(j) == CASE j.kind = "array" -> j.of
              [] j.kind = "object" ->
                    LET keys == SetToSeq(DOMAIN j.of) IN [i \in DOMAIN keys |-> j.of[keys[i]]]
              [] j.kind = "null" -> <<>>
              [] OTHER -> <<j>>

\* static_cast to uint64_t and to int.
ToId(n) == n % IdRange
ToInt(n) == ((n + IntRange \div 2) % IntRange) - IntRange \div 2

-----------------------------------------------------------------------------
(* JudgeEngine::parse_message *)

\* Mutant: a key that is null is read like any other.
IdNotNull(j, key) == Optional(j, key, Id)

\* get<uint64_t> of a key that is there and not null.
IdParses(j, key) == Given(j, key) => j.of[key].kind \in Id

IdOf(j, key) == IF Given(j, key) THEN ToId(j.of[key].of) ELSE 0

CaseParses(tc) ==
    /\ tc.kind = "object"
    /\ IdParses(tc, "testcase_id")
    /\ Optional(tc, "case_index", Int32)
    /\ Required(tc, "input", String) /\ Required(tc, "expected_output", String)

\* Nothing is thrown; the order of the keys does not matter, since what was
\* parsed before an exception is dropped.
Parses(j) ==
    /\ j.kind = "object"
    /\ \A key \in {"task_type", "language", "submit_mode"} : Optional(j, key, String)
    /\ IdParses(j, "run_id") /\ IdParses(j, "submission_id")
    /\ Required(j, "problem_id", Id) /\ Required(j, "code", String)
    /\ \A key \in {"time_limit", "memory_limit"} : Optional(j, key, Int32)
    /\ "testcases" \in DOMAIN j.of
    /\ LET tcs == Items(j.of["testcases"]) IN \A i \in 1..Len(tcs) : CaseParses(tcs[i])

\* Mutant: the size of the vector is the position.
TestCaseFromZero(tc, i) ==
    [testcase_id |-> IdOf(tc, "testcase_id"),
     case_index |-> ToInt(Value(tc, "case_index", i - 1))]

\* The i-th testcase: without an index of its own it gets its position.
TestCase(tc, i) ==
    [testcase_id |-> IdOf(tc, "testcase_id"),
     case_index |-> ToInt(Value(tc, "case_index", i))]

ParseMessage(j) ==
    LET tcs == Items(j.of["testcases"]) IN
    [task_type |-> Value(j, "task_type", "SUBMISSION"),
     run_id |-> IdOf(j, "run_id"),
     submission_id |-> IdOf(j, "submission_id"),
     problem_id |-> ToId(j.of["problem_id"].of),
     testcases |-> [i \in 1..Len(tcs) |-> TestCase(tcs[i], i)]]

-----------------------------------------------------------------------------
(* Worker::on_message *)

NotWritten == [table |-> "none", id |-> 0, cases |-> <<>>]

Init ==
    /\ body \in Bodies
    /\ pc = "parse"
    /\ msg = NoMessage /\ cases = <<>> /\ written = NotWritten

Goto(from, to) == pc = from /\ pc' = to

\* parse_message returns nullopt: the delivery is acked and gone.
Discard ==
    /\ Goto("parse", "acked")
    /\ ~Parses(body)
    /\ UNCHANGED <<body, msg, cases, written>>

Parse ==
    /\ Goto("parse", "judge")
    /\ Parses(body)
    /\ msg' = ParseMessage(body)
    /\ UNCHANGED <<body, cases, written>>

\* The case result of the i-th testcase: judge() numbers it a second time.
CaseResult(tc, i) ==
    [testcase_id |-> tc.testcase_id,
     case_index |-> IF tc.case_index > 0 THEN tc.case_index ELSE i]

\* judge() returns after any number of testcases (SandboxJudge).
Judge ==
    /\ Goto("judge", "write")
    /\ \E n \in 0..Len(msg.testcases) :
        cases' = [i \in 1..n |-> CaseResult(msg.testcases[i], i)]
    /\ UNCHANGED <<body, msg, written>>

\* Mutant: the ids decide, not the type.
WriteByIds ==
    /\ Goto("write", "acked")
    /\ written' = [table |-> IF msg.submission_id = 0 THEN "fs_code_run" ELSE "fs_submission",
                   id |-> IF msg.submission_id = 0 THEN msg.run_id ELSE msg.submission_id,
                   cases |-> cases]
    /\ UNCHANGED <<body, msg, cases>>

\* update_code_run for a RUN, update_submission for any other type; the
\* statements and their failures are JudgeDelivery's.
Write ==
    /\ Goto("write", "acked")
    /\ written' = IF msg.task_type = "RUN"
                  THEN [table |-> "fs_code_run", id |-> msg.run_id, cases |-> cases]
                  ELSE [table |-> "fs_submission", id |-> msg.submission_id, cases |-> cases]
    /\ UNCHANGED <<body, msg, cases>>

Next == Discard \/ Parse \/ Judge \/ Write

Spec == Init /\ [][Next]_vars

-----------------------------------------------------------------------------
(* Properties. *)

\* DATA_FORMATS.md section 1: the keys and their types; the id of the other
\* kind of task and a testcase_id may also be null (integration_test.cpp:82).
IdKey(j) == IF Value(j, "task_type", "SUBMISSION") = "RUN" THEN "run_id" ELSE "submission_id"
OtherKey(j) == IF IdKey(j) = "run_id" THEN "submission_id" ELSE "run_id"

DocumentedCase(tc) ==
    /\ tc.kind = "object"
    /\ "testcase_id" \in DOMAIN tc.of => tc.of["testcase_id"].kind \in {"null", "number"}
    /\ "case_index" \in DOMAIN tc.of => tc.of["case_index"].kind = "number"
    /\ \A key \in {"input", "expected_output"} :
        key \in DOMAIN tc.of /\ tc.of[key].kind = "text"

Documented(j) ==
    /\ j.kind = "object"
    /\ \A key \in DOMAIN j.of \cap {"task_type", "language", "submit_mode"} :
        j.of[key].kind = "text"
    /\ IdKey(j) \in DOMAIN j.of /\ j.of[IdKey(j)].kind = "number"
    /\ OtherKey(j) \in DOMAIN j.of => j.of[OtherKey(j)].kind \in {"null", "number"}
    /\ {"problem_id", "code", "testcases"} \subseteq DOMAIN j.of
    /\ j.of["problem_id"].kind = "number" /\ j.of["code"].kind = "text"
    /\ \A key \in DOMAIN j.of \cap {"time_limit", "memory_limit"} : j.of[key].kind = "number"
    /\ j.of["testcases"].kind = "array"
    /\ LET tcs == j.of["testcases"].of IN \A i \in 1..Len(tcs) : DocumentedCase(tcs[i])

\* No task that keeps to the documented format is lost: whatever of its optional
\* keys is missing or null, its delivery is not acked without a verdict.
DocumentedIsWritten == pc = "acked" /\ Documented(body) => written.table # "none"

\* The verdict goes to the row the sender named, whichever other ids the
\* message carries: a custom run never overwrites a submission.  An id that was
\* not given is 0, and one below 0 is as far from the ids in use as it was.
OwnRow ==
    written.table # "none" =>
        LET key == IdKey(body)
            n == body.of[key].of IN
        /\ written.table = IF key = "run_id" THEN "fs_code_run" ELSE "fs_submission"
        /\ Given(body, key) /\ n \in 0..(IdRange - 1) => written.id = n
        /\ Given(body, key) /\ n \in (-IdRange)..(-1) => written.id = IdRange + n
        /\ ~Given(body, key) => written.id = 0

\* The case rows are numbered by the testcases they are about: by the index that
\* the sender gave if it is one, otherwise by position; so they are distinct
\* whenever the given ones agree with the positions.
Indexes == (-(IntRange \div 2))..(IntRange \div 2 - 1)
CasesNumbered ==
    written.table # "none" =>
        \A i \in 1..Len(written.cases) :
            LET tc == Items(body.of["testcases"])[i]
                n == Value(tc, "case_index", i) IN
            n \in Indexes =>
                written.cases[i].case_index = IF n > 0 THEN n ELSE i

-----------------------------------------------------------------------------
(* The inductive invariant of the proofs (TaskMessageProofs). *)

\* What was parsed is what is judged, and what was judged is what is written.
Listed == Items(body.of["testcases"])
Results == {[i \in 1..n |-> CaseResult(TestCase(Listed[i], i), i)] : n \in 0..Len(Listed)}

Inv ==
    /\ pc \in {"judge", "write"} => Parses(body) /\ msg = ParseMessage(body)
    /\ pc = "write" => cases \in Results
    /\ pc = "acked" /\ Parses(body) => written.table # "none"
    /\ written.table # "none" =>
        LET run == Value(body, "task_type", "SUBMISSION") = "RUN" IN
        /\ Parses(body)
        /\ written.table = IF run THEN "fs_code_run" ELSE "fs_submission"
        /\ written.id = IdOf(body, IF run THEN "run_id" ELSE "submission_id")
        /\ written.cases \in Results
=============================================================================
