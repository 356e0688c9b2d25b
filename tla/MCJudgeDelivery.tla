-------------------------- MODULE MCJudgeDelivery --------------------------
(* Instances of JudgeDelivery for TLC. *)
EXTENDS JudgeDelivery, TLC

CONSTANTS w1, w2, m1, m2, m3, m4, sub1, sub2, run1, prob

\* Two submissions of one problem, a custom run, a message that does not parse.
MixedTaskOf == (m1 :> sub1) @@ (m2 :> sub2) @@ (m3 :> run1) @@ (m4 :> sub1)

\* Two messages for the same submission: it is judged again.
RejudgeTaskOf == (m1 :> sub1) @@ (m2 :> sub1)

\* Two submissions whose case rows have their place in the same gap.
StoreTaskOf == (m1 :> sub1) @@ (m2 :> sub2)

OneProblem == [t \in Tasks |-> prob]

\* The case rows of submissions and those of custom runs are in two tables.
TableGap == [t \in Tasks |-> t \in Runs]

\* Every task has rows of others between its own and the next: no INSERT waits
\* for another task's DELETE, and transactions come to the count side by side.
OwnGap == [t \in Tasks |-> t]

\* Workers are interchangeable: no safety property names one.
Symmetry == Permutations(Workers)
=============================================================================
