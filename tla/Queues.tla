------------------------------- MODULE Queues -------------------------------
(* std::queue<int> of box ids, as a sequence: what is in it, and whether once. *)
EXTENDS Naturals, Sequences

Elements(s) == {s[i] : i \in 1..Len(s)}

Distinct(s) == \A i, j \in 1..Len(s) : s[i] = s[j] => i = j
=============================================================================
