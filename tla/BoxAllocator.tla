---------------------------- MODULE BoxAllocator ----------------------------
(***************************************************************************)
(* What JudgeEngine promises with its sandboxes (DESIGN.md section 2.4):   *)
(* whoever judges has a box of its own, and gives it back.                 *)
(***************************************************************************)
CONSTANTS Threads, Boxes, NoBox

VARIABLES
    free,           \* boxes that nobody has
    held            \* the box of each thread, or NoBox

vars == <<free, held>>

Init == free = {} /\ held = [t \in Threads |-> NoBox]

\* A box nobody knows of yet joins the pool.
Create(b) ==
    /\ b \notin free /\ \A t \in Threads : held[t] # b
    /\ free' = free \cup {b}
    /\ UNCHANGED held

Acquire(t, b) ==
    /\ held[t] = NoBox /\ b \in free
    /\ free' = free \ {b}
    /\ held' = [held EXCEPT ![t] = b]

Release(t) ==
    /\ held[t] # NoBox
    /\ free' = free \cup {held[t]}
    /\ held' = [held EXCEPT ![t] = NoBox]

Next ==
    \/ \E b \in Boxes : Create(b)
    \/ \E t \in Threads : Release(t) \/ \E b \in Boxes : Acquire(t, b)

Spec == Init /\ [][Next]_vars
=============================================================================
