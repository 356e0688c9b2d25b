SPECIFICATION Spec
CONSTANTS
    w1 = w1  w2 = w2
    m1 = m1  m2 = m2  m3 = m3  m4 = m4
    sub1 = sub1  sub2 = sub2  run1 = run1
    prob = prob
    NoMessage = NoMessage  NoTask = NoTask  NoProblem = NoProblem
    Workers = {w1, w2}
    Messages = {m1, m2, m3, m4}
    Malformed = {m4}
    Tasks = {sub1, sub2, run1}
    Runs = {run1}
    Absent = {run1}
    TaskOf <- MixedTaskOf
    Problems = {prob}
    ProblemOf <- OneProblem
    GapOf <- OwnGap
    NumCases = 1
    Failures = {"WRONG_ANSWER"}
    MaxFaults = 2
SYMMETRY Symmetry
INVARIANTS MessagesConserved AnsweredOnReturn AcceptedCounted CountedOnce NoTxnLeftOpen SettledHasVerdict
CHECK_DEADLOCK FALSE
