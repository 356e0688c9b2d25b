------------------------- MODULE TaskMessageProofs -------------------------
(***************************************************************************)
(* Proofs about TaskMessage, for any set of bodies and any width of the    *)
(* integers.                                                               *)
(***************************************************************************)
EXTENDS TaskMessage, TLAPS

-----------------------------------------------------------------------------
(* Conversions. *)

\* A remainder of a number that is already in range, or one range below it.
LEMMA Remainder ==
    ASSUME NEW r \in Nat \ {0}, NEW n \in Int
    PROVE  /\ n \in 0..(r - 1) => n % r = n
           /\ n \in (-r)..(-1) => n % r = r + n
<1>1. ASSUME n \in 0..(r - 1) PROVE n % r = n
  BY <1>1
<1>2. ASSUME n \in (-r)..(-1) PROVE n % r = r + n
  BY <1>2
<1> QED  BY <1>1, <1>2

\* static_cast to int keeps what an int can hold.
LEMMA IntKept == ASSUME NEW n \in Indexes PROVE ToInt(n) = n
<1> DEFINE h == IntRange \div 2
<1>1. h \in Nat /\ 2 * h <= IntRange /\ IntRange \in Nat \ {0}
  BY MessageAssumption
<1>2. n \in Int /\ n + h \in 0..(IntRange - 1)
  BY <1>1 DEF Indexes
<1>3. (n + h) % IntRange = n + h
  BY <1>1, <1>2, Remainder
<1> QED  BY <1>1, <1>2, <1>3 DEF ToInt

-----------------------------------------------------------------------------
(* The invariant. *)

\* Nothing is parsed or written before the first step.
LEMMA InitInv == Init => Inv
BY DEF Init, Inv, NotWritten

\* Each step of on_message works on what the one before it left.
LEMMA InvStep == ASSUME Inv, [Next]_vars PROVE Inv'
<1>1. CASE UNCHANGED vars
  BY <1>1 DEF vars, Inv, Results, Listed
<1>2. CASE Discard
  BY <1>2 DEF Discard, Goto, Inv, Results, Listed
<1>3. CASE Parse
  BY <1>3 DEF Parse, Goto, Inv, Results, Listed
<1>4. CASE Judge
  <2>1. msg = ParseMessage(body) /\ Parses(body)
    BY <1>4 DEF Judge, Goto, Inv
  <2>2. PICK n \in 0..Len(msg.testcases) :
            cases' = [i \in 1..n |-> CaseResult(msg.testcases[i], i)]
    BY <1>4 DEF Judge
  <2>3. cases' \in Results
    BY <2>1, <2>2 DEF ParseMessage, Results, Listed
  <2> QED  BY <1>4, <2>1, <2>3 DEF Judge, Goto, Inv, Results, Listed
<1>5. CASE Write
  <2>1. msg = ParseMessage(body) /\ Parses(body) /\ cases \in Results
    BY <1>5 DEF Write, Goto, Inv
  <2> QED  BY <1>5, <2>1 DEF Write, Goto, Inv, ParseMessage, Results, Listed
<1> QED  BY <1>1, <1>2, <1>3, <1>4, <1>5 DEF Next

\* So it is with every delivery, up to its ack.
LEMMA Invariance == Spec => []Inv
BY InitInv, InvStep, PTL DEF Spec

-----------------------------------------------------------------------------
(* The theorems. *)

\* The parser accepts every body of the documented format.
LEMMA DocumentedParses == ASSUME NEW j, Documented(j) PROVE Parses(j)
<1>1. IdParses(j, "run_id") /\ IdParses(j, "submission_id")
  BY DEF Documented, IdKey, OtherKey, IdParses, Given, Id
<1>2. ASSUME NEW tc, DocumentedCase(tc) PROVE CaseParses(tc)
  BY <1>2 DEF DocumentedCase, CaseParses, IdParses, Given, Optional, Required, Id, Int32, String
<1>3. Items(j.of["testcases"]) = j.of["testcases"].of
  BY DEF Documented, Items
<1> QED
  BY <1>1, <1>2, <1>3 DEF Documented, Parses, Optional, Required, Id, Int32, String

\* No delivery in the documented format is acked without a verdict.
THEOREM NoTaskIsDropped == Spec => []DocumentedIsWritten
<1>1. Inv => DocumentedIsWritten
  BY DocumentedParses DEF Inv, DocumentedIsWritten
<1> QED  BY <1>1, Invariance, PTL

\* The verdict is written to the row the message names.
THEOREM WrittenToOwnRow == Spec => []OwnRow
<1>1. ASSUME Inv, written.table # "none" PROVE OwnRow
  <2> DEFINE key == IdKey(body)
             n == body.of[key].of
  <2>1. /\ written.table = IF key = "run_id" THEN "fs_code_run" ELSE "fs_submission"
        /\ written.id = IdOf(body, key)
    BY <1>1 DEF Inv, IdKey
  <2>2. Given(body, key) /\ n \in 0..(IdRange - 1) => IdOf(body, key) = n
    BY Remainder, MessageAssumption DEF IdOf, ToId
  <2>3. Given(body, key) /\ n \in (-IdRange)..(-1) => IdOf(body, key) = IdRange + n
    BY Remainder, MessageAssumption DEF IdOf, ToId
  <2>4. ~Given(body, key) => IdOf(body, key) = 0
    BY DEF IdOf
  <2> QED  BY <2>1, <2>2, <2>3, <2>4 DEF OwnRow
<1>2. Inv => OwnRow
  BY <1>1 DEF OwnRow
<1> QED  BY <1>2, Invariance, PTL

\* The case rows carry the index the sender gave, or the testcase's position.
THEOREM RowsAreNumbered == Spec => []CasesNumbered
<1>1. ASSUME Inv, written.table # "none", NEW i \in 1..Len(written.cases)
      PROVE  LET n == Value(Listed[i], "case_index", i) IN
             n \in Indexes => written.cases[i].case_index = IF n > 0 THEN n ELSE i
  <2> DEFINE n == Value(Listed[i], "case_index", i)
  <2>1. PICK k \in 0..Len(Listed) :
            written.cases = [x \in 1..k |-> CaseResult(TestCase(Listed[x], x), x)]
    BY <1>1 DEF Inv, Results
  <2>2. written.cases[i] = CaseResult(TestCase(Listed[i], i), i)
    BY <2>1
  <2>3. n \in Indexes => TestCase(Listed[i], i).case_index = n
    BY IntKept DEF TestCase
  <2> QED  BY <2>2, <2>3 DEF CaseResult
<1>2. Inv => CasesNumbered
  BY <1>1 DEF CasesNumbered, Listed
<1> QED  BY <1>2, Invariance, PTL
=============================================================================
