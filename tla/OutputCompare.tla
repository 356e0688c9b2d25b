--------------------------- MODULE OutputCompare ---------------------------
(***************************************************************************)
(* JudgeEngine::compare_output, on character sequences.  Both texts are    *)
(* read one character at a time, as std::getline reads them, and may end   *)
(* after any of them, so that every pair up to MaxLength is a state; the   *)
(* reference definition does not split anything into lines.                *)
(***************************************************************************)
EXTENDS Naturals, Sequences, FiniteSetsExt

CONSTANTS
    Chars,          \* the characters of the texts, newline among them
    MaxLength       \* bound on the length of each text

Texts == {"expected", "actual"}
Newline == "\n"
Blanks == {" ", "\t", "\r"}

VARIABLES
    text,           \* what has been read of each text
    lines,          \* the lines split off so far, normalised
    line            \* what getline has read of the next line
vars == <<text, lines, line>>

\* The last of a set of positions, 0 if there is none.
LastOf(I) == Max({0} \cup I)

\* normalize_line: everything up to the last character that is not blank.
Visible(l) == {i \in DOMAIN l : l[i] \notin Blanks}
NormalizeLine(l) == SubSeq(l, 1, LastOf(Visible(l)))

-----------------------------------------------------------------------------
Init ==
    /\ text = [t \in Texts |-> <<>>]
    /\ lines = [t \in Texts |-> <<>>]
    /\ line = [t \in Texts |-> <<>>]

\* std::getline takes the next character of the stream; a newline completes
\* the line, which is normalised and pushed.
Read(t, c) ==
    /\ text' = [text EXCEPT ![t] = Append(@, c)]
    /\ \/ /\ c = Newline
          /\ lines' = [lines EXCEPT ![t] = Append(@, NormalizeLine(line[t]))]
          /\ line' = [line EXCEPT ![t] = <<>>]
       \/ /\ c # Newline
          /\ line' = [line EXCEPT ![t] = Append(@, c)]
          /\ UNCHANGED lines

Next == \E t \in Texts, c \in Chars : Len(text[t]) < MaxLength /\ Read(t, c)

Spec == Init /\ [][Next]_vars

-----------------------------------------------------------------------------
(* What compare_output answers if the texts end here. *)

\* At the end of the stream getline still returns what it has, but no line if
\* that is nothing: a text that ends in a newline has no empty line after it.
GetLines(t) ==
    IF line[t] = <<>> THEN lines[t] ELSE Append(lines[t], NormalizeLine(line[t]))

\* Mutant: empty lines at the end are kept.
KeepEmptyLines(ls) == ls

Filled(ls) == {i \in DOMAIN ls : ls[i] # <<>>}
DropEmptyLines(ls) == SubSeq(ls, 1, LastOf(Filled(ls)))

SplitLines(t) == DropEmptyLines(GetLines(t))

CompareOutput ==
    LET exp == SplitLines("expected")
        act == SplitLines("actual") IN
    /\ Len(exp) = Len(act)
    /\ \A i \in 1..Len(exp) : exp[i] = act[i]

-----------------------------------------------------------------------------
(* The printed characters of a text, without splitting it. *)

Newlines(s) == {p \in DOMAIN s : s[p] = Newline}
Before(s, p) == {q \in Newlines(s) : q < p}
LineOf(s, p) == Cardinality(Before(s, p))
ColumnOf(s, p) == p - LastOf(Before(s, p))

\* A blank is printed only when a character that is not blank follows it on its
\* line.
Printed(s, p) ==
    \E q \in p..Len(s) : s[q] \notin Blanks \cup {Newline} /\ LineOf(s, q) = LineOf(s, p)

\* The printed characters with the line and the column they are in.
Marks(s) ==
    {<<LineOf(s, p), ColumnOf(s, p), s[p]>> :
        p \in {q \in DOMAIN s \ Newlines(s) : Printed(s, q)}}

\* compare_output accepts exactly the texts that print the same characters at
\* the same places (DESIGN.md 3.3: blanks at the end of a line and empty lines
\* at the end do not matter, everything else does).
ComparesPrintedText == CompareOutput <=> Marks(text["expected"]) = Marks(text["actual"])

-----------------------------------------------------------------------------
(* The inductive invariant of the proof (OutputCompareProofs). *)

\* The set of positions has a last one, or it is empty.
HasLast(I) == \E e \in {0} \cup I : \A i \in I : i <= e

\* The partial line l is the end of the text s, back to its last newline.
Pace(s, ls, l) ==
    LET b == Len(s) - Len(l) IN
    /\ s \in Seq(Chars) /\ l \in Seq(Chars) /\ ls \in Seq(Seq(Chars))
    /\ Len(l) <= Len(s) /\ Len(ls) = Cardinality(Newlines(s))
    /\ \A i \in 1..Len(l) : l[i] = s[b + i] /\ l[i] # Newline
    /\ b # 0 => s[b] = Newline

\* The characters of the lines with their places.
LineCells(k, l) == {<<k, j, l[j]>> : j \in DOMAIN l}
Cells(ls) == UNION {LineCells(i - 1, ls[i]) : i \in DOMAIN ls}

\* They are the printed characters of what has been read.
SameMarks(s, ls, l) ==
    Marks(s) = Cells(ls) \cup LineCells(Len(ls), NormalizeLine(l))

Split(s, ls, l) ==
    Pace(s, ls, l) /\ SameMarks(s, ls, l) /\ HasLast(Visible(l)) /\ HasLast(Filled(ls))

Inv ==
    /\ text \in [Texts -> Seq(Chars)]
    /\ lines \in [Texts -> Seq(Seq(Chars))] /\ line \in [Texts -> Seq(Chars)]
    /\ \A t \in Texts : Split(text[t], lines[t], line[t])
=============================================================================
