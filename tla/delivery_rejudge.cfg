SPECIFICATION Spec
CONSTANTS
    w1 = w1  w2 = w2
    m1 = m1  m2 = m2  m3 = m3  m4 = m4
    sub1 = sub1  sub2 = sub2  run1 = run1
    prob = prob
    NoMessage = NoMessage  NoTask = NoTask  NoProblem = NoProblem
    Workers = {w1, w2}
    Messages = {m1, m2}
    Malformed = {}
    Tasks = {sub1}
    Runs = {}
    Absent = {}
    TaskOf <- RejudgeTaskOf
    Problems = {prob}
    ProblemOf <- OneProblem
    GapOf <- TableGap
    NumCases = 2
    Failures = {"WRONG_ANSWER"}
    MaxFaults = 3
SYMMETRY Symmetry
INVARIANTS TypeOK WholeVerdicts SettledRecorded RecountsAreFaults
PROPERTIES WrittenWhileUnacked
CHECK_DEADLOCK FALSE
