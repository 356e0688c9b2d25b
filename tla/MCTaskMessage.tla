--------------------------- MODULE MCTaskMessage ---------------------------
(* Bodies for TLC: every kind of value for every key that decides something. *)
EXTENDS TaskMessage

None == [kind |-> "none"]

\* The object with the keys of c that are not None.
Built(c) == Object([key \in {k \in DOMAIN c : c[k] # None} |-> c[key]])

Ids == {None, Null, Number(0), Number(5), Number(-1), Text("5"), Bool(TRUE)}

Cases ==
    {Built(c) :
        c \in [testcase_id : {None, Null, Number(7)},
               case_index : {None, Number(0), Number(1), Number(3), Number(17), Number(-9), Bool(TRUE), Null},
               input : {Text("in")}, expected_output : {None, Text("out")}]}
       \cup {Text("case"), Null}

ACase == Built([input |-> Text("in"), expected_output |-> Text("out")])

\* The head varies, with one testcase.
Heads ==
    [task_type : {None, Null, Text("RUN"), Text("SUBMISSION"), Text("run")},
     run_id : Ids, submission_id : Ids,
     problem_id : {None, Null, Number(1)}, code : {None, Null, Text("code")},
     language : {None, Null}, time_limit : {None, Null, Number(1), Bool(TRUE)},
     testcases : {Array(<<ACase>>)}]

\* The testcases vary, with one head.
Lists ==
    [submission_id : {Number(5)}, problem_id : {Number(1)}, code : {Text("code")},
     testcases : {Array(<<c, d>>) : c, d \in Cases} \cup {Array(<<c, ACase, d>>) : c, d \in Cases}
                   \cup {None, Null, Number(1), Text("cases"), Array(<<>>), Bool(FALSE), ACase}
                   \cup {Object([one |-> c]) : c \in Cases}]

SomeBodies ==
    {Broken, Null, Number(1), Array(<<>>), Text("body")}
       \cup {Built(c) : c \in Heads} \cup {Built(c) : c \in Lists}
=============================================================================
