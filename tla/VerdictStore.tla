---------------------------- MODULE VerdictStore ----------------------------
(***************************************************************************)
(* What the judge promises to the rest of the system (DESIGN.md section 5, *)
(* item 5): a verdict with its score, its case rows and its count appears  *)
(* in one piece; it may be written more than once, because delivery is at  *)
(* least once; and a message leaves the queue only after its own verdict   *)
(* was written, or because it does not parse.                              *)
(***************************************************************************)
EXTENDS Verdicts

VARIABLES
    row,            \* task rows with their case rows
    accepted,       \* accepted_count of every problem
    recorded,       \* messages whose verdict has been written
    settled         \* messages that have left the queue

vars == <<row, accepted, recorded, settled>>

Init ==
    /\ row = [t \in Tasks |-> NewRow]
    /\ accepted = [p \in Problems |-> 0]
    /\ recorded = {}
    /\ settled = {}

\* A verdict of m becomes visible, all at once.
Record(m) ==
    /\ m \notin Malformed
    /\ \E r \in Results :
        LET t == TaskOf[m] IN
        /\ row' = [row EXCEPT ![t] = RowFor(t, r)]
        /\ accepted' = IF Counts(t, r) THEN [accepted EXCEPT ![ProblemOf[t]] = @ + 1]
                       ELSE accepted
    /\ recorded' = recorded \cup {m}
    /\ UNCHANGED settled

Settle(m) ==
    /\ m \in recorded \cup Malformed
    /\ settled' = settled \cup {m}
    /\ UNCHANGED <<row, accepted, recorded>>

Next == \E m \in Messages : Record(m) \/ Settle(m)

Spec == Init /\ [][Next]_vars
=============================================================================
