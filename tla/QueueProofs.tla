---------------------------- MODULE QueueProofs ----------------------------
(* Lemmas about the queue of box ids that the proofs of both pools rest on. *)
EXTENDS Queues, SequenceTheorems, TLAPS

\* push() of a box that is not in the queue.
LEMMA AppendElements ==
    ASSUME NEW S, NEW s \in Seq(S), NEW b \in S
    PROVE  /\ Elements(Append(s, b)) = Elements(s) \cup {b}
           /\ Distinct(s) /\ b \notin Elements(s) => Distinct(Append(s, b))
<1> DEFINE a == Append(s, b)
<1>1. /\ Len(s) \in Nat /\ Len(a) = Len(s) + 1
      /\ \A i \in 1..Len(s) : a[i] = s[i]
      /\ a[Len(s) + 1] = b
  BY AppendProperties, LenProperties
<1>2. Elements(a) \subseteq Elements(s) \cup {b}
  <2> SUFFICES ASSUME NEW i \in 1..(Len(s) + 1) PROVE a[i] \in Elements(s) \cup {b}
    BY <1>1 DEF Elements
  <2>1. CASE i = Len(s) + 1
    BY <1>1, <2>1
  <2>2. CASE i # Len(s) + 1
    <3>1. i \in 1..Len(s)
      BY <1>1, <2>2
    <3> QED  BY <1>1, <3>1 DEF Elements
  <2> QED  BY <2>1, <2>2
<1>3. Elements(s) \cup {b} \subseteq Elements(a)
  <2>1. b \in Elements(a)
    <3>1. Len(s) + 1 \in 1..Len(a)
      BY <1>1
    <3> QED  BY <1>1, <3>1 DEF Elements
  <2>2. ASSUME NEW i \in 1..Len(s) PROVE s[i] \in Elements(a)
    <3>1. i \in 1..Len(a)
      BY <1>1
    <3> QED  BY <1>1, <3>1 DEF Elements
  <2> QED  BY <2>1, <2>2 DEF Elements
<1>4. ASSUME Distinct(s), b \notin Elements(s), NEW i \in 1..Len(a), NEW j \in 1..Len(a),
             a[i] = a[j]
      PROVE  i = j
  <2>1. CASE i = Len(s) + 1 /\ j = Len(s) + 1
    BY <2>1
  <2>2. CASE i # Len(s) + 1 /\ j # Len(s) + 1
    <3>1. i \in 1..Len(s) /\ j \in 1..Len(s)
      BY <1>1, <2>2
    <3> QED  BY <1>1, <1>4, <3>1 DEF Distinct
  <2>3. CASE i # Len(s) + 1 /\ j = Len(s) + 1
    <3>1. i \in 1..Len(s)
      BY <1>1, <2>3
    <3> QED  BY <1>1, <1>4, <2>3, <3>1 DEF Elements
  <2>4. CASE i = Len(s) + 1 /\ j # Len(s) + 1
    <3>1. j \in 1..Len(s)
      BY <1>1, <2>4
    <3> QED  BY <1>1, <1>4, <2>4, <3>1 DEF Elements
  <2> QED  BY <2>1, <2>2, <2>3, <2>4
<1> QED  BY <1>2, <1>3, <1>4 DEF Distinct

\* front() and pop() of a queue without doubles.
LEMMA TailElements ==
    ASSUME NEW S, NEW s \in Seq(S), s # <<>>, Distinct(s)
    PROVE  /\ Head(s) \in Elements(s)
           /\ Elements(Tail(s)) = Elements(s) \ {Head(s)}
           /\ Distinct(Tail(s))
           /\ Len(Tail(s)) = Len(s) - 1
<1> DEFINE u == Tail(s)
<1>1. /\ Len(s) \in Nat /\ Len(s) > 0 /\ Len(u) = Len(s) - 1
      /\ \A i \in 1..Len(u) : u[i] = s[i + 1]
  BY HeadTailProperties, EmptySeq, LenProperties
<1>2. Head(s) = s[1] /\ 1 \in 1..Len(s)
  BY <1>1
<1>3. Elements(u) \subseteq Elements(s) \ {Head(s)}
  <2> SUFFICES ASSUME NEW i \in 1..Len(u) PROVE u[i] \in Elements(s) \ {Head(s)}
    BY DEF Elements
  <2>1. i + 1 \in 1..Len(s) /\ i + 1 # 1 /\ u[i] = s[i + 1]
    BY <1>1
  <2> QED  BY <1>2, <2>1 DEF Elements, Distinct
<1>4. Elements(s) \ {Head(s)} \subseteq Elements(u)
  <2> SUFFICES ASSUME NEW i \in 1..Len(s), i # 1 PROVE s[i] \in Elements(u)
    BY <1>2 DEF Elements
  <2> DEFINE j == i - 1
  <2>1. j \in 1..Len(u) /\ j + 1 = i
    BY <1>1
  <2>2. u[j] = s[i]
    BY <1>1, <2>1
  <2> QED  BY <2>1, <2>2 DEF Elements
<1>5. ASSUME NEW i \in 1..Len(u), NEW j \in 1..Len(u), u[i] = u[j] PROVE i = j
  <2>1. i + 1 \in 1..Len(s) /\ j + 1 \in 1..Len(s)
    BY <1>1
  <2>2. s[i + 1] = s[j + 1]
    BY <1>1, <1>5
  <2>3. i + 1 = j + 1
    BY <2>1, <2>2 DEF Distinct
  <2> QED  BY <2>3
<1> QED  BY <1>1, <1>2, <1>3, <1>4, <1>5 DEF Elements, Distinct
=============================================================================
