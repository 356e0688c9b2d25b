------------------------ MODULE OutputCompareProofs ------------------------
(***************************************************************************)
(* Proofs about OutputCompare, for texts of any length over any            *)
(* characters.                                                             *)
(***************************************************************************)
EXTENDS OutputCompare, SequenceTheorems, FiniteSetTheorems, TLAPS

-----------------------------------------------------------------------------
(* Positions. *)

\* The largest position is the last one.
LEMMA LastOfIs ==
    ASSUME NEW I \in SUBSET Nat, NEW e \in {0} \cup I, \A i \in I : i <= e
    PROVE  LastOf(I) = e /\ HasLast(I)
<1>1. \A x \in {0} \cup I : (\A y \in {0} \cup I : x >= y) <=> x = e
  OBVIOUS
<1>2. LastOf(I) = e
  BY <1>1 DEF LastOf, Max
<1> QED  BY <1>2 DEF HasLast

\* One more position, after all the others, is the last.
LEMMA LastOfExtended ==
    ASSUME NEW n \in Nat, NEW I \in SUBSET (1..n)
    PROVE  LastOf(I \cup {n + 1}) = n + 1 /\ HasLast(I \cup {n + 1})
<1>1. I \cup {n + 1} \in SUBSET Nat /\ \A i \in I \cup {n + 1} : i <= n + 1
  OBVIOUS
<1>2. n + 1 \in {0} \cup (I \cup {n + 1})
  OBVIOUS
<1> QED  BY <1>1, <1>2, LastOfIs

\* What a list is cut to when everything after the last position of I goes.
LEMMA CutProperties ==
    ASSUME NEW S, NEW s \in Seq(S), NEW I \in SUBSET (1..Len(s)), HasLast(I)
    PROVE  \E e \in 0..Len(s) :
              LET cut == SubSeq(s, 1, LastOf(I)) IN
              /\ LastOf(I) = e /\ cut \in Seq(S) /\ Len(cut) = e
              /\ \A i \in 1..e : cut[i] = s[i]
              /\ \A i \in I : i <= e
              /\ e # 0 => e \in I
<1>1. Len(s) \in Nat
  BY LenProperties
<1>2. PICK e \in {0} \cup I : \A i \in I : i <= e
  BY DEF HasLast
<1>3. e \in 0..Len(s) /\ LastOf(I) = e
  <2>1. I \in SUBSET Nat
    BY <1>1
  <2> QED  BY <1>1, <1>2, <2>1, LastOfIs
<1>4. \A i \in 1..e : s[i] \in S
  BY <1>1, <1>3, ElementOfSeq
<1>5. /\ SubSeq(s, 1, e) \in Seq(S)
      /\ Len(SubSeq(s, 1, e)) = IF 1 <= e THEN e - 1 + 1 ELSE 0
      /\ \A i \in 1..(e - 1 + 1) : SubSeq(s, 1, e)[i] = s[1 + i - 1]
  BY <1>3, <1>4, SubSeqProperties
<1>6. Len(SubSeq(s, 1, e)) = e /\ \A i \in 1..e : SubSeq(s, 1, e)[i] = s[i]
  BY <1>1, <1>3, <1>5
<1> QED  BY <1>2, <1>3, <1>5, <1>6

-----------------------------------------------------------------------------
(* One character more. *)

\* A longer text has the same characters, newlines, lines and columns up to
\* where it was.
LEMMA Longer ==
    ASSUME NEW s \in Seq(Chars), NEW c \in Chars
    PROVE  LET z == Append(s, c)
               n == Len(s) IN
           /\ z \in Seq(Chars) /\ n \in Nat /\ Len(z) = n + 1
           /\ DOMAIN s = 1..n /\ DOMAIN z = 1..(n + 1)
           /\ z[n + 1] = c /\ \A p \in 1..n : z[p] = s[p]
           /\ Newlines(z) = Newlines(s) \cup (IF c = Newline THEN {n + 1} ELSE {})
           /\ \A p \in 1..(n + 1) : Before(z, p) = {q \in Newlines(s) : q < p}
           /\ \A p \in 1..n : LineOf(z, p) = LineOf(s, p) /\ ColumnOf(z, p) = ColumnOf(s, p)
<1> DEFINE z == Append(s, c)
           n == Len(s)
<1>1. /\ z \in Seq(Chars) /\ n \in Nat /\ Len(z) = n + 1
      /\ z[n + 1] = c /\ \A p \in 1..n : z[p] = s[p]
  BY AppendProperties, LenProperties
<1>2. DOMAIN s = 1..n /\ DOMAIN z = 1..(n + 1)
  BY <1>1, LenProperties
<1> HIDE DEF z, n
<1>3. Newlines(z) = Newlines(s) \cup (IF c = Newline THEN {n + 1} ELSE {})
  BY <1>1, <1>2 DEF Newlines
<1>4. ASSUME NEW p \in 1..(n + 1)
      PROVE  Before(z, p) = {q \in Newlines(s) : q < p}
  BY <1>1, <1>3 DEF Before
<1>5. ASSUME NEW p \in 1..n
      PROVE  LineOf(z, p) = LineOf(s, p) /\ ColumnOf(z, p) = ColumnOf(s, p)
  <2>1. Before(z, p) = Before(s, p)
    BY <1>1, <1>4 DEF Before
  <2> QED  BY <2>1 DEF LineOf, ColumnOf
<1> QED  BY <1>1, <1>2, <1>3, <1>4, <1>5 DEF z, n

\* A blank or a newline prints nothing by itself.
LEMMA UnprintedCharacter ==
    ASSUME NEW s \in Seq(Chars), NEW c \in Chars, c \in Blanks \cup {Newline}
    PROVE  Marks(Append(s, c)) = Marks(s)
<1> DEFINE z == Append(s, c)
           n == Len(s)
<1>1. /\ n \in Nat /\ Len(z) = n + 1 /\ DOMAIN s = 1..n /\ DOMAIN z = 1..(n + 1)
      /\ z[n + 1] = c /\ \A p \in 1..n : z[p] = s[p]
      /\ Newlines(z) = Newlines(s) \cup (IF c = Newline THEN {n + 1} ELSE {})
      /\ \A p \in 1..n : LineOf(z, p) = LineOf(s, p) /\ ColumnOf(z, p) = ColumnOf(s, p)
  BY Longer
<1> HIDE DEF z, n
<1>2. ~Printed(z, n + 1)
  BY <1>1 DEF Printed
<1>3. ASSUME NEW p \in 1..n PROVE Printed(z, p) <=> Printed(s, p)
  BY <1>1 DEF Printed, n
<1> DEFINE P(y) == {q \in DOMAIN y \ Newlines(y) : Printed(y, q)}
<1>4. P(z) = P(s)
  BY <1>1, <1>2, <1>3
<1>5. P(s) \subseteq 1..n
  BY <1>1
<1> QED  BY <1>1, <1>4, <1>5 DEF Marks, z

-----------------------------------------------------------------------------
(* The line being read. *)

\* The characters after the last newline, at b, and the place after them are on
\* one line; everything before is on another.
LEMMA LastLine ==
    ASSUME NEW s \in Seq(Chars), NEW c \in Chars, NEW b \in 0..Len(s),
           \A q \in (b + 1)..Len(s) : s[q] # Newline,
           b # 0 => s[b] = Newline
    PROVE  LET z == Append(s, c)
               k == Cardinality(Newlines(s)) IN
           /\ k \in Nat
           /\ \A p \in (b + 1)..(Len(s) + 1) : LineOf(z, p) = k /\ ColumnOf(z, p) = p - b
           /\ \A p \in (1..b) \ Newlines(s) : LineOf(z, p) \in Nat /\ LineOf(z, p) < k
<1> DEFINE n == Len(s)
           N == Newlines(s)
           z == Append(s, c)
<1>1. n \in Nat /\ b \in 0..n /\ DOMAIN s = 1..n
  BY LenProperties
<1>2. ASSUME NEW p \in 1..(n + 1)
      PROVE  Before(z, p) = {q \in N : q < p}
  BY Longer
<1>3. \A q \in N : q \in 1..n /\ s[q] = Newline
  BY <1>1 DEF Newlines
<1> HIDE DEF n
<1>4. ASSUME NEW q \in N PROVE q \in 1..b
  <2>1. q \notin (b + 1)..n
    BY <1>3 DEF n
  <2> QED  BY <1>1, <1>3, <2>1
<1>5. b # 0 => b \in N
  BY <1>1 DEF Newlines
<1>6. IsFiniteSet(N) /\ Cardinality(N) \in Nat
  <2>1. IsFiniteSet(1..n) /\ N \in SUBSET (1..n)
    BY <1>1, <1>3, FS_Interval
  <2> QED  BY <2>1, FS_Subset, FS_CardinalityType
<1> HIDE DEF N, z
<1>7. ASSUME NEW p \in (b + 1)..(n + 1)
      PROVE  LineOf(z, p) = Cardinality(N) /\ ColumnOf(z, p) = p - b
  <2>1. p \in 1..(n + 1) /\ b < p
    BY <1>1
  <2>2. \A q \in N : q < p
    BY <1>1, <1>4, <2>1
  <2>3. Before(z, p) = N
    BY <1>2, <2>1, <2>2
  <2>4. LastOf(N) = b
    <3>1. N \in SUBSET Nat /\ b \in {0} \cup N /\ \A q \in N : q <= b
      BY <1>1, <1>4, <1>5
    <3> QED  BY <3>1, LastOfIs
  <2> QED  BY <2>3, <2>4 DEF LineOf, ColumnOf
<1>8. ASSUME NEW p \in (1..b) \ N
      PROVE  LineOf(z, p) \in Nat /\ LineOf(z, p) < Cardinality(N)
  <2>1. p \in 1..(n + 1) /\ b # 0 /\ ~(b < p)
    BY <1>1, <1>8
  <2>2. Before(z, p) \in SUBSET N /\ b \in N /\ b \notin Before(z, p)
    BY <1>2, <1>5, <2>1
  <2>3. Before(z, p) # N
    BY <2>2
  <2>4. /\ Cardinality(Before(z, p)) \in Nat /\ Cardinality(Before(z, p)) <= Cardinality(N)
        /\ Cardinality(Before(z, p)) # Cardinality(N)
    BY <1>6, <2>2, <2>3, FS_Subset, FS_CardinalityType
  <2> QED  BY <1>6, <2>4 DEF LineOf
<1> QED  BY <1>6, <1>7, <1>8 DEF n, N, z

\* A printed character prints the blanks before it on its line as well.
LEMMA PrintedCharacter ==
    ASSUME NEW s \in Seq(Chars), NEW c \in Chars, c \notin Blanks \cup {Newline},
           NEW b \in 0..Len(s),
           \A q \in (b + 1)..Len(s) : s[q] # Newline,
           b # 0 => s[b] = Newline
    PROVE  LET z == Append(s, c)
               k == Cardinality(Newlines(s)) IN
           Marks(z) = {m \in Marks(s) : m[1] # k}
                        \cup {<<k, j, z[b + j]>> : j \in 1..(Len(s) + 1 - b)}
<1> DEFINE n == Len(s)
           N == Newlines(s)
           z == Append(s, c)
           k == Cardinality(N)
           New == {<<k, j, z[b + j]>> : j \in 1..(n + 1 - b)}
<1>1. /\ n \in Nat /\ Len(z) = n + 1 /\ DOMAIN s = 1..n /\ DOMAIN z = 1..(n + 1)
      /\ z[n + 1] = c /\ Newlines(z) = N /\ b \in 0..n
      /\ \A p \in 1..n : z[p] = s[p]
      /\ \A p \in 1..n : LineOf(z, p) = LineOf(s, p) /\ ColumnOf(z, p) = ColumnOf(s, p)
  <2>1. /\ n \in Nat /\ Len(z) = n + 1 /\ DOMAIN s = 1..n /\ DOMAIN z = 1..(n + 1)
        /\ z[n + 1] = c /\ \A p \in 1..n : z[p] = s[p]
        /\ Newlines(z) = N \cup (IF c = Newline THEN {n + 1} ELSE {})
        /\ \A p \in 1..n : LineOf(z, p) = LineOf(s, p) /\ ColumnOf(z, p) = ColumnOf(s, p)
    BY Longer
  <2>2. c # Newline
    OBVIOUS
  <2> HIDE DEF z, n, N
  <2> QED  BY <2>1, <2>2 DEF n
<1>2. /\ \A p \in (b + 1)..(n + 1) : LineOf(z, p) = k /\ ColumnOf(z, p) = p - b
      /\ \A p \in (1..b) \ N : LineOf(z, p) # k
  <2>1. /\ k \in Nat
        /\ \A p \in (b + 1)..(n + 1) : LineOf(z, p) = k /\ ColumnOf(z, p) = p - b
        /\ \A p \in (1..b) \ N : LineOf(z, p) \in Nat /\ LineOf(z, p) < k
    BY LastLine
  <2> HIDE DEF k, z, n, N
  <2> QED  BY <2>1
<1>3. \A q \in N : q \in 1..b
  BY <1>1 DEF Newlines
<1> HIDE DEF z, k, n, N
<1>4. ASSUME NEW p \in (b + 1)..(n + 1)
      PROVE  p \in DOMAIN z \ Newlines(z) /\ Printed(z, p)
  <2>1. p \in 1..(n + 1) /\ p \notin 1..b /\ n + 1 \in p..Len(z) /\ n + 1 \in (b + 1)..(n + 1)
    BY <1>1
  <2>2. LineOf(z, n + 1) = LineOf(z, p)
    BY <1>2, <2>1
  <2> QED  BY <1>1, <1>3, <2>1, <2>2 DEF Printed
<1>5. ASSUME NEW p \in (1..b) \ N PROVE Printed(z, p) <=> Printed(s, p)
  <2>1. p \in 1..n /\ LineOf(z, p) # LineOf(z, n + 1)
    BY <1>1, <1>2
  <2>2. \A q \in p..(n + 1) : q = n + 1 \/ q \in p..n
    BY <1>1
  <2>3. ASSUME NEW q \in p..n
        PROVE  q \in p..(n + 1) /\ z[q] = s[q] /\ LineOf(z, q) = LineOf(s, q)
    BY <1>1
  <2>4. LineOf(z, p) = LineOf(s, p)
    BY <1>1, <2>1
  <2> QED  BY <1>1, <2>1, <2>2, <2>3, <2>4 DEF Printed, n
<1>6. ASSUME NEW m \in Marks(z) PROVE m \in {x \in Marks(s) : x[1] # k} \cup New
  <2>1. PICK p \in DOMAIN z \ Newlines(z) :
            Printed(z, p) /\ m = <<LineOf(z, p), ColumnOf(z, p), z[p]>>
    BY DEF Marks
  <2>2. CASE p \in 1..b
    <3>1. /\ p \in (1..b) \ N /\ p \in DOMAIN s \ N /\ Printed(s, p)
          /\ m = <<LineOf(s, p), ColumnOf(s, p), s[p]>> /\ LineOf(s, p) # k
      BY <1>1, <1>2, <1>5, <2>1, <2>2
    <3> QED  BY <3>1 DEF Marks, N
  <2>3. CASE p \notin 1..b
    <3>1. p \in (b + 1)..(n + 1) /\ p - b \in 1..(n + 1 - b) /\ b + (p - b) = p
      BY <1>1, <2>1, <2>3
    <3>2. m = <<k, p - b, z[b + (p - b)]>>
      BY <1>2, <2>1, <3>1
    <3> QED  BY <3>1, <3>2
  <2> QED  BY <2>2, <2>3
<1>7. ASSUME NEW m \in Marks(s), m[1] # k PROVE m \in Marks(z)
  <2>1. PICK p \in DOMAIN s \ N :
            Printed(s, p) /\ m = <<LineOf(s, p), ColumnOf(s, p), s[p]>>
    BY DEF Marks, N
  <2>2. LineOf(s, p) # k
    BY <1>7, <2>1
  <2>3. p \in (1..b) \ N /\ p \in 1..n
    BY <1>1, <1>2, <2>1, <2>2
  <2> QED  BY <1>1, <1>5, <2>1, <2>3 DEF Marks
<1>8. ASSUME NEW j \in 1..(n + 1 - b) PROVE <<k, j, z[b + j]>> \in Marks(z)
  <2>1. b + j \in (b + 1)..(n + 1) /\ (b + j) - b = j
    BY <1>1
  <2>2. <<k, j, z[b + j]>> = <<LineOf(z, b + j), ColumnOf(z, b + j), z[b + j]>>
    BY <1>2, <2>1
  <2> QED  BY <1>4, <2>1, <2>2 DEF Marks
<1>9. Marks(z) = {m \in Marks(s) : m[1] # k} \cup New
  BY <1>6, <1>7, <1>8
<1> QED  BY <1>9 DEF z, k, n, N

-----------------------------------------------------------------------------
(* Lines and the places of their characters. *)

\* A normalised line: a prefix, with the last visible character in it.
LEMMA Normalized ==
    ASSUME NEW l \in Seq(Chars), HasLast(Visible(l))
    PROVE  NormalizeLine(l) \in Seq(Chars)
<1>1. Visible(l) \in SUBSET (1..Len(l))
  BY LenProperties DEF Visible
<1> QED  BY <1>1, CutProperties DEF NormalizeLine

\* Nothing is cut off a line that ends in a visible character; a blank at its end
\* is.
LEMMA NormalizedAppend ==
    ASSUME NEW l \in Seq(Chars), NEW c \in Chars, HasLast(Visible(l))
    PROVE  LET x == Append(l, c) IN
           /\ HasLast(Visible(x))
           /\ c \in Blanks => NormalizeLine(x) = NormalizeLine(l)
           /\ c \notin Blanks => NormalizeLine(x) = x
<1> DEFINE x == Append(l, c)
           n == Len(l)
<1>1. /\ n \in Nat /\ x \in Seq(Chars) /\ Len(x) = n + 1
      /\ x[n + 1] = c /\ \A i \in 1..n : x[i] = l[i]
  BY AppendProperties, LenProperties
<1>2. DOMAIN l = 1..n /\ DOMAIN x = 1..(n + 1)
  BY <1>1, LenProperties
<1> HIDE DEF x, n
<1>3. Visible(l) \in SUBSET (1..n)
  BY <1>2 DEF Visible
<1>4. CASE c \in Blanks
  <2>1. Visible(x) = Visible(l)
    BY <1>1, <1>2, <1>4 DEF Visible
  <2>2. PICK e \in 0..n :
            LET cut == SubSeq(l, 1, LastOf(Visible(l))) IN
            LastOf(Visible(l)) = e /\ cut \in Seq(Chars) /\ Len(cut) = e
            /\ \A i \in 1..e : cut[i] = l[i]
    BY <1>3, CutProperties DEF n
  <2>3. Visible(l) \in SUBSET (1..Len(x)) /\ n <= Len(x)
    BY <1>1, <1>3
  <2>4. PICK f \in 0..Len(x) :
            LET cut == SubSeq(x, 1, LastOf(Visible(l))) IN
            LastOf(Visible(l)) = f /\ cut \in Seq(Chars) /\ Len(cut) = f
            /\ \A i \in 1..f : cut[i] = x[i]
    BY <1>1, <2>3, CutProperties
  <2> DEFINE u == SubSeq(l, 1, LastOf(Visible(l)))
             v == SubSeq(x, 1, LastOf(Visible(l)))
  <2>5. /\ u \in Seq(Chars) /\ v \in Seq(Chars) /\ Len(u) = e /\ Len(v) = e
        /\ \A i \in 1..e : u[i] = l[i] /\ v[i] = x[i]
    BY <2>2, <2>4
  <2> HIDE DEF u, v
  <2>6. \A i \in 1..e : u[i] = v[i]
    BY <1>1, <2>5
  <2>7. u = v
    BY <2>5, <2>6, SeqEqual
  <2> QED  BY <1>4, <2>1, <2>7 DEF u, v, x, NormalizeLine
<1>5. CASE c \notin Blanks
  <2>1. Visible(x) = Visible(l) \cup {n + 1}
    BY <1>1, <1>2, <1>5 DEF Visible
  <2>2. LastOf(Visible(x)) = Len(x) /\ HasLast(Visible(x))
    BY <1>1, <1>3, <2>1, LastOfExtended
  <2>3. NormalizeLine(x) = x
    BY <1>1, <2>2, SubSeqFull DEF NormalizeLine
  <2> QED  BY <1>5, <2>2, <2>3 DEF x
<1> QED  BY <1>4, <1>5

\* One line more is the last filled one, if it is filled.
LEMMA FilledAppend ==
    ASSUME NEW ls \in Seq(Seq(Chars)), NEW x \in Seq(Chars), HasLast(Filled(ls))
    PROVE  HasLast(Filled(Append(ls, x)))
<1> DEFINE k == Len(ls)
           ms == Append(ls, x)
<1>1. /\ k \in Nat /\ ms \in Seq(Seq(Chars)) /\ Len(ms) = k + 1
      /\ ms[k + 1] = x /\ \A i \in 1..k : ms[i] = ls[i]
  BY AppendProperties, LenProperties
<1>2. DOMAIN ls = 1..k /\ DOMAIN ms = 1..(k + 1)
  BY <1>1, LenProperties
<1> HIDE DEF k, ms
<1>3. CASE x = <<>>
  <2>1. Filled(ms) = Filled(ls)
    BY <1>1, <1>2, <1>3 DEF Filled
  <2> QED  BY <2>1 DEF ms
<1>4. CASE x # <<>>
  <2>1. Filled(ms) = Filled(ls) \cup {k + 1} /\ Filled(ls) \in SUBSET (1..k)
    BY <1>1, <1>2, <1>4 DEF Filled
  <2> QED  BY <1>1, <2>1, LastOfExtended DEF ms
<1> QED  BY <1>3, <1>4

\* One line more adds its own characters.
LEMMA CellsAppend ==
    ASSUME NEW ls \in Seq(Seq(Chars)), NEW x \in Seq(Chars)
    PROVE  Cells(Append(ls, x)) = Cells(ls) \cup LineCells(Len(ls), x)
<1> DEFINE n == Len(ls)
           ms == Append(ls, x)
<1>1. /\ n \in Nat /\ ms \in Seq(Seq(Chars)) /\ Len(ms) = n + 1
      /\ ms[n + 1] = x /\ \A i \in 1..n : ms[i] = ls[i]
  BY AppendProperties, LenProperties
<1>2. DOMAIN ls = 1..n /\ DOMAIN ms = 1..(n + 1)
  BY <1>1, LenProperties
<1> HIDE DEF n, ms
<1>3. ASSUME NEW m \in Cells(ms) PROVE m \in Cells(ls) \cup LineCells(n, x)
  <2>1. PICK i \in 1..(n + 1) : m \in LineCells(i - 1, ms[i])
    BY <1>2 DEF Cells
  <2>2. CASE i = n + 1
    <3>1. i - 1 = n /\ ms[i] = x
      BY <1>1, <2>2
    <3> QED  BY <2>1, <3>1
  <2>3. CASE i \in 1..n
    BY <1>1, <1>2, <2>1, <2>3 DEF Cells
  <2> QED  BY <1>1, <2>2, <2>3
<1>4. Cells(ls) \subseteq Cells(ms)
  BY <1>1, <1>2 DEF Cells
<1>5. LineCells(n, x) \subseteq Cells(ms)
  <2>1. n + 1 \in DOMAIN ms /\ ms[n + 1] = x /\ (n + 1) - 1 = n
    BY <1>1, <1>2
  <2> QED  BY <2>1 DEF Cells
<1> QED  BY <1>3, <1>4, <1>5 DEF n, ms

\* The first part of a place tells the line.
LEMMA CellPlaces ==
    ASSUME NEW ls \in Seq(Seq(Chars))
    PROVE  /\ \A m \in Cells(ls) : m[1] \in 0..(Len(ls) - 1)
           /\ \A k, x : \A m \in LineCells(k, x) : m[1] = k
<1>1. \A k, x : \A m \in LineCells(k, x) : m[1] = k
  BY DEF LineCells
<1>2. DOMAIN ls = 1..Len(ls) /\ Len(ls) \in Nat
  BY LenProperties
<1>3. ASSUME NEW m \in Cells(ls) PROVE m[1] \in 0..(Len(ls) - 1)
  <2>1. PICK i \in 1..Len(ls) : m \in LineCells(i - 1, ls[i])
    BY <1>2 DEF Cells
  <2>2. m[1] = i - 1
    BY <1>1, <2>1
  <2> QED  BY <1>2, <2>2
<1> QED  BY <1>1, <1>3

-----------------------------------------------------------------------------
(* Reading a character. *)

\* Where the partial line begins in the text.
LEMMA PaceFacts ==
    ASSUME NEW s, NEW ls, NEW l, Pace(s, ls, l)
    PROVE  \E b \in 0..Len(s) :
              /\ s \in Seq(Chars) /\ Len(s) \in Nat /\ Len(l) \in Nat /\ Len(s) = b + Len(l)
              /\ \A i \in 1..Len(l) : l[i] = s[b + i]
              /\ \A q \in (b + 1)..Len(s) : s[q] # Newline
              /\ b # 0 => s[b] = Newline
<1> DEFINE n == Len(s)
           j == Len(l)
           b == n - j
<1>1. /\ s \in Seq(Chars) /\ l \in Seq(Chars) /\ j <= n
      /\ \A i \in 1..j : l[i] = s[b + i] /\ l[i] # Newline
      /\ b # 0 => s[b] = Newline
  BY DEF Pace
<1>2. n \in Nat /\ j \in Nat
  BY <1>1, LenProperties
<1> HIDE DEF n, j
<1>3. b \in 0..n /\ n = b + j
  BY <1>1, <1>2
<1>4. ASSUME NEW q \in (b + 1)..n PROVE s[q] # Newline
  <2>1. q - b \in 1..j /\ b + (q - b) = q
    BY <1>2, <1>3
  <2>2. l[q - b] = s[b + (q - b)] /\ l[q - b] # Newline
    BY <1>1, <2>1
  <2> QED  BY <2>1, <2>2
<1> HIDE DEF b
<1> QED  BY <1>1, <1>2, <1>3, <1>4 DEF n, j

\* An empty list of positions, and what it cuts.
LEMMA NothingLeft ==
    /\ LastOf({}) = 0 /\ HasLast({})
    /\ Visible(<<>>) = {} /\ Filled(<<>>) = {} /\ NormalizeLine(<<>>) = <<>>
    /\ \A k : LineCells(k, <<>>) = {}
<1>1. LastOf({}) = 0 /\ HasLast({})
  BY LastOfIs
<1>2. Visible(<<>>) = {} /\ Filled(<<>>) = {} /\ \A k : LineCells(k, <<>>) = {}
  BY DEF Visible, Filled, LineCells
<1>3. NormalizeLine(<<>>) = <<>>
  BY <1>1, <1>2, SubSeqEmpty DEF NormalizeLine
<1> QED  BY <1>1, <1>2, <1>3

\* A newline ends the partial line: it joins the lines, normalised.
LEMMA NewlineRead ==
    ASSUME NEW s, NEW ls, NEW l, Split(s, ls, l), NEW c \in Chars, c = Newline
    PROVE  Split(Append(s, c), Append(ls, NormalizeLine(l)), <<>>)
<1> DEFINE x == NormalizeLine(l)
           z == Append(s, c)
           ms == Append(ls, x)
           n == Len(s)
           k == Len(ls)
           N == Newlines(s)
<1>1. /\ s \in Seq(Chars) /\ l \in Seq(Chars) /\ ls \in Seq(Seq(Chars)) /\ k = Cardinality(N)
      /\ SameMarks(s, ls, l) /\ HasLast(Visible(l)) /\ HasLast(Filled(ls))
  BY DEF Split, Pace
<1>2. x \in Seq(Chars)
  BY <1>1, Normalized
<1>3. /\ ms \in Seq(Seq(Chars)) /\ k \in Nat /\ Len(ms) = k + 1 /\ DOMAIN ls = 1..k
      /\ DOMAIN ms = 1..(k + 1) /\ ms[k + 1] = x /\ \A i \in 1..k : ms[i] = ls[i]
  <2>1. /\ ms \in Seq(Seq(Chars)) /\ Len(ms) = k + 1
        /\ ms[k + 1] = x /\ \A i \in 1..k : ms[i] = ls[i]
    BY <1>1, <1>2, AppendProperties
  <2>2. k \in Nat /\ DOMAIN ls = 1..k /\ DOMAIN ms = 1..Len(ms)
    BY <1>1, <2>1, LenProperties
  <2> QED  BY <2>1, <2>2
<1>4. /\ z \in Seq(Chars) /\ n \in Nat /\ Len(z) = n + 1 /\ DOMAIN s = 1..n
      /\ z[n + 1] = c /\ Newlines(z) = N \cup {n + 1}
  <2>1. /\ z \in Seq(Chars) /\ n \in Nat /\ Len(z) = n + 1 /\ DOMAIN s = 1..n
        /\ z[n + 1] = c /\ Newlines(z) = N \cup (IF c = Newline THEN {n + 1} ELSE {})
    BY <1>1, Longer
  <2> QED  BY <2>1
<1>5. Marks(z) = Marks(s)
  BY <1>1, UnprintedCharacter
<1> HIDE DEF x, z, ms, n, k, N
<1>6. Cardinality(Newlines(z)) = k + 1
  <2>1. IsFiniteSet(1..n) /\ N \in SUBSET (1..n) /\ n + 1 \notin N
    BY <1>4, FS_Interval DEF N, Newlines
  <2> QED  BY <1>1, <1>4, <2>1, FS_Subset, FS_AddElement
<1>7. Pace(z, ms, <<>>)
  <2>1. Len(<<>>) = 0 /\ <<>> \in Seq(Chars)
    BY EmptySeq
  <2>2. Len(<<>>) <= Len(z) /\ Len(z) - Len(<<>>) = n + 1
    BY <1>4, <2>1
  <2> QED  BY <1>3, <1>4, <1>6, <2>1, <2>2 DEF Pace
<1>8. SameMarks(z, ms, <<>>)
  <2>1. Cells(ms) = Cells(ls) \cup LineCells(k, x)
    BY <1>1, <1>2, CellsAppend DEF ms, k
  <2>2. Marks(s) = Cells(ls) \cup LineCells(k, x)
    BY <1>1 DEF SameMarks, k, x
  <2> QED  BY <1>5, <2>1, <2>2, NothingLeft DEF SameMarks
<1>9. HasLast(Filled(ms))
  BY <1>1, <1>2, FilledAppend DEF ms
<1> QED  BY <1>7, <1>8, <1>9, NothingLeft DEF Split, z, ms, x

\* Any other character extends the partial line.
LEMMA CharacterRead ==
    ASSUME NEW s, NEW ls, NEW l, Split(s, ls, l), NEW c \in Chars, c # Newline
    PROVE  Split(Append(s, c), ls, Append(l, c))
<1> DEFINE y == Append(l, c)
           z == Append(s, c)
           n == Len(s)
           j == Len(l)
           k == Len(ls)
<1>1. /\ s \in Seq(Chars) /\ l \in Seq(Chars) /\ ls \in Seq(Seq(Chars))
      /\ k = Cardinality(Newlines(s)) /\ Pace(s, ls, l)
      /\ SameMarks(s, ls, l) /\ HasLast(Visible(l)) /\ HasLast(Filled(ls))
  BY DEF Split, Pace
<1>2. PICK b \in 0..n :
        /\ n \in Nat /\ j \in Nat /\ n = b + j
        /\ \A i \in 1..j : l[i] = s[b + i]
        /\ \A q \in (b + 1)..n : s[q] # Newline
        /\ b # 0 => s[b] = Newline
  BY <1>1, PaceFacts
<1>3. /\ z \in Seq(Chars) /\ Len(z) = n + 1 /\ Newlines(z) = Newlines(s)
      /\ z[n + 1] = c /\ \A p \in 1..n : z[p] = s[p]
  <2>1. /\ z \in Seq(Chars) /\ Len(z) = n + 1 /\ z[n + 1] = c /\ \A p \in 1..n : z[p] = s[p]
        /\ Newlines(z) = Newlines(s) \cup (IF c = Newline THEN {n + 1} ELSE {})
    BY <1>1, Longer
  <2> QED  BY <2>1
<1>4. /\ y \in Seq(Chars) /\ Len(y) = j + 1 /\ DOMAIN y = 1..(j + 1)
      /\ y[j + 1] = c /\ \A i \in 1..j : y[i] = l[i]
  <2>1. /\ y \in Seq(Chars) /\ Len(y) = j + 1
        /\ y[j + 1] = c /\ \A i \in 1..j : y[i] = l[i]
    BY <1>1, AppendProperties
  <2> QED  BY <2>1, LenProperties
<1>5. /\ HasLast(Visible(y))
      /\ c \in Blanks => NormalizeLine(y) = NormalizeLine(l)
      /\ c \notin Blanks => NormalizeLine(y) = y
  BY <1>1, NormalizedAppend
<1> HIDE DEF y, z, n, j, k
<1>6. ASSUME NEW i \in 1..(j + 1) PROVE y[i] = z[b + i]
  <2>1. CASE i = j + 1
    BY <1>2, <1>3, <1>4, <2>1
  <2>2. CASE i \in 1..j
    <3>1. b + i \in 1..n
      BY <1>2, <2>2
    <3> QED  BY <1>2, <1>3, <1>4, <2>2, <3>1
  <2> QED  BY <1>2, <2>1, <2>2
<1>7. Pace(z, ls, y)
  <2>1. (n + 1) - (j + 1) = b /\ j + 1 <= n + 1
    BY <1>2
  <2>2. ASSUME NEW i \in 1..(j + 1) PROVE y[i] # Newline
    <3>1. b + i = n + 1 \/ (b + i \in (b + 1)..n /\ b + i \in 1..n)
      BY <1>2
    <3> QED  BY <1>2, <1>3, <1>6, <3>1
  <2>3. b # 0 => z[b] = Newline
    BY <1>2, <1>3
  <2> QED  BY <1>1, <1>3, <1>4, <1>6, <2>1, <2>2, <2>3 DEF Pace, k
<1>8. SameMarks(z, ls, y)
  <2>1. Marks(s) = Cells(ls) \cup LineCells(k, NormalizeLine(l))
    BY <1>1 DEF SameMarks, k
  <2>2. CASE c \in Blanks
    <3>1. Marks(z) = Marks(s)
      BY <1>1, <2>2, UnprintedCharacter DEF z
    <3> QED  BY <1>5, <2>1, <2>2, <3>1 DEF SameMarks, k
  <2>3. CASE c \notin Blanks
    <3>1. Marks(z) = {m \in Marks(s) : m[1] # k} \cup {<<k, i, z[b + i]>> : i \in 1..(n + 1 - b)}
      <4>1. c \notin Blanks \cup {Newline}
        BY <2>3
      <4>2. /\ b \in 0..Len(s) /\ \A q \in (b + 1)..Len(s) : s[q] # Newline
            /\ b # 0 => s[b] = Newline
        BY <1>2 DEF n
      <4>3. Marks(z) = {m \in Marks(s) : m[1] # Cardinality(Newlines(s))}
                          \cup {<<Cardinality(Newlines(s)), i, z[b + i]>> : i \in 1..(n + 1 - b)}
        BY <1>1, <4>1, <4>2, PrintedCharacter DEF z, n
      <4> QED  BY <1>1, <4>3
    <3>2. {m \in Marks(s) : m[1] # k} = Cells(ls)
      <4>1. k \in Nat /\ \A m \in Cells(ls) : m[1] \in 0..(k - 1)
        BY <1>1, CellPlaces, LenProperties DEF k
      <4>2. /\ \A m \in Cells(ls) : m[1] # k
            /\ \A m \in LineCells(k, NormalizeLine(l)) : m[1] = k
        BY <1>1, <4>1, CellPlaces
      <4> QED  BY <2>1, <4>2
    <3>3. {<<k, i, z[b + i]>> : i \in 1..(n + 1 - b)} = LineCells(k, y)
      <4>1. n + 1 - b = j + 1
        BY <1>2
      <4> QED  BY <1>4, <1>6, <4>1 DEF LineCells
    <3> QED  BY <1>5, <2>3, <3>1, <3>2, <3>3 DEF SameMarks, k
  <2> QED  BY <2>2, <2>3
<1> QED  BY <1>1, <1>5, <1>7, <1>8 DEF Split, y, z

-----------------------------------------------------------------------------
(* What is compared. *)

\* DropEmptyLines keeps the lines up to the last one that is not empty.
LEMMA Dropped ==
    ASSUME NEW g \in Seq(Seq(Chars)), HasLast(Filled(g))
    PROVE  \E e \in 0..Len(g) :
              /\ DropEmptyLines(g) \in Seq(Seq(Chars)) /\ Len(DropEmptyLines(g)) = e
              /\ \A i \in 1..e : DropEmptyLines(g)[i] = g[i]
              /\ \A i \in Filled(g) : i <= e
              /\ e # 0 => e \in Filled(g)
<1>1. Filled(g) \in SUBSET (1..Len(g))
  BY LenProperties DEF Filled
<1> QED  BY <1>1, CutProperties DEF DropEmptyLines

\* The lines that compare_output splits a text into: their characters are the
\* printed ones, and the last line is not empty.
LEMMA SplitResult ==
    ASSUME NEW t \in Texts, Inv
    PROVE  /\ SplitLines(t) \in Seq(Seq(Chars)) /\ Cells(SplitLines(t)) = Marks(text[t])
           /\ SplitLines(t) # <<>> => SplitLines(t)[Len(SplitLines(t))] # <<>>
<1> DEFINE s == text[t]
           ls == lines[t]
           l == line[t]
           x == NormalizeLine(l)
           k == Len(ls)
           g == GetLines(t)
           d == SplitLines(t)
<1>1. /\ l \in Seq(Chars) /\ ls \in Seq(Seq(Chars)) /\ HasLast(Visible(l)) /\ HasLast(Filled(ls))
      /\ Marks(s) = Cells(ls) \cup LineCells(k, x)
  BY DEF Inv, Split, SameMarks
<1>2. x \in Seq(Chars)
  BY <1>1, Normalized
<1>3. g \in Seq(Seq(Chars)) /\ Cells(g) = Marks(s) /\ HasLast(Filled(g))
  <2>1. CASE l = <<>>
    <3>1. g = ls
      BY <2>1 DEF GetLines
    <3>2. x = <<>> /\ LineCells(k, x) = {}
      BY <2>1, NothingLeft
    <3> QED  BY <1>1, <3>1, <3>2
  <2>2. CASE l # <<>>
    <3>1. g = Append(ls, x)
      BY <2>2 DEF GetLines
    <3> QED  BY <1>1, <1>2, <3>1, CellsAppend, AppendProperties, FilledAppend
  <2> QED  BY <2>1, <2>2
<1> HIDE DEF s, ls, l, x, k, g
<1>4. Filled(g) \in SUBSET (1..Len(g)) /\ DOMAIN g = 1..Len(g) /\ Len(g) \in Nat
  BY <1>3, LenProperties DEF Filled
<1>5. d = DropEmptyLines(g)
  BY DEF SplitLines, g
<1> HIDE DEF d
<1>6. PICK e \in 0..Len(g) :
        /\ d \in Seq(Seq(Chars)) /\ Len(d) = e
        /\ \A i \in 1..e : d[i] = g[i]
        /\ \A i \in Filled(g) : i <= e
        /\ e # 0 => e \in Filled(g)
  BY <1>3, <1>5, Dropped
<1>7. DOMAIN d = 1..e
  BY <1>6, LenProperties
<1>8. Cells(d) = Cells(g)
  <2>1. \A i \in (1..Len(g)) \ (1..e) : g[i] = <<>>
    BY <1>4, <1>6 DEF Filled
  <2>2. \A i \in (1..Len(g)) \ (1..e) : LineCells(i - 1, g[i]) = {}
    BY <2>1, NothingLeft
  <2>3. Cells(d) \subseteq Cells(g)
    BY <1>4, <1>6, <1>7 DEF Cells
  <2>4. ASSUME NEW m \in Cells(g) PROVE m \in Cells(d)
    <3>1. PICK i \in 1..Len(g) : m \in LineCells(i - 1, g[i])
      BY <1>4 DEF Cells
    <3>2. i \in 1..e
      BY <2>2, <3>1
    <3> QED  BY <1>6, <1>7, <3>1, <3>2 DEF Cells
  <2> QED  BY <2>3, <2>4
<1>9. d # <<>> => d[Len(d)] # <<>>
  <2>1. d # <<>> => e # 0
    BY <1>6, EmptySeq
  <2>2. e # 0 => e \in 1..e /\ g[e] # <<>>
    BY <1>4, <1>6 DEF Filled
  <2> QED  BY <1>6, <2>1, <2>2
<1> QED  BY <1>3, <1>6, <1>8, <1>9 DEF d, s

\* Lists of lines with the same characters at the same places are the same, unless
\* one ends in an empty line.
LEMMA CellsTellLines ==
    ASSUME NEW u \in Seq(Seq(Chars)), NEW v \in Seq(Seq(Chars)), Cells(u) = Cells(v),
           u # <<>> => u[Len(u)] # <<>>, v # <<>> => v[Len(v)] # <<>>
    PROVE  u = v
<1>1. ASSUME NEW a \in Seq(Seq(Chars)), NEW i \in 1..Len(a), NEW j \in DOMAIN a[i]
      PROVE  <<i - 1, j, a[i][j]>> \in Cells(a)
  <2>1. i \in DOMAIN a
    BY LenProperties
  <2> QED  BY <2>1 DEF Cells, LineCells
<1>2. ASSUME NEW a \in Seq(Seq(Chars)), NEW i \in Nat \ {0}, NEW j, NEW c, <<i - 1, j, c>> \in Cells(a)
      PROVE  i \in 1..Len(a) /\ j \in DOMAIN a[i] /\ c = a[i][j]
  <2>1. Len(a) \in Nat /\ DOMAIN a = 1..Len(a)
    BY LenProperties
  <2>2. PICK h \in 1..Len(a) : <<i - 1, j, c>> \in LineCells(h - 1, a[h])
    BY <1>2, <2>1 DEF Cells
  <2>3. i - 1 = h - 1 /\ j \in DOMAIN a[h] /\ c = a[h][j]
    BY <2>2 DEF LineCells
  <2>4. i = h
    BY <2>1, <2>3
  <2> QED  BY <2>3, <2>4
<1>3. ASSUME NEW a \in Seq(Seq(Chars)), NEW o \in Seq(Seq(Chars)), Cells(a) = Cells(o),
             a # <<>> => a[Len(a)] # <<>>
      PROVE  Len(a) <= Len(o)
  <2>1. Len(a) \in Nat /\ Len(o) \in Nat
    BY LenProperties
  <2>2. CASE a = <<>>
    BY <2>1, <2>2, EmptySeq
  <2>3. CASE a # <<>>
    <3>1. Len(a) \in 1..Len(a)
      BY <2>1, <2>3, EmptySeq
    <3>2. a[Len(a)] \in Seq(Chars) /\ a[Len(a)] # <<>>
      BY <1>3, <2>3, <3>1, ElementOfSeq
    <3>3. 1 \in DOMAIN a[Len(a)]
      BY <3>2, EmptySeq, LenProperties
    <3>4. <<Len(a) - 1, 1, a[Len(a)][1]>> \in Cells(o)
      BY <1>1, <1>3, <3>1, <3>3
    <3>5. Len(a) \in 1..Len(o)
      BY <1>2, <2>1, <3>1, <3>4
    <3> QED  BY <2>1, <3>5
  <2> QED  BY <2>2, <2>3
<1>4. Len(u) = Len(v)
  <2>1. Len(u) \in Nat /\ Len(v) \in Nat
    BY LenProperties
  <2>2. Len(u) <= Len(v) /\ Len(v) <= Len(u)
    BY <1>3
  <2> QED  BY <2>1, <2>2
<1>5. ASSUME NEW i \in 1..Len(u) PROVE u[i] = v[i]
  <2>1. i \in Nat \ {0} /\ i \in 1..Len(v) /\ u[i] \in Seq(Chars) /\ v[i] \in Seq(Chars)
    BY <1>4, ElementOfSeq, LenProperties
  <2>2. ASSUME NEW j \in DOMAIN u[i] PROVE j \in DOMAIN v[i] /\ u[i][j] = v[i][j]
    <3>1. <<i - 1, j, u[i][j]>> \in Cells(v)
      BY <1>1
    <3> QED  BY <1>2, <2>1, <3>1
  <2>3. ASSUME NEW j \in DOMAIN v[i] PROVE j \in DOMAIN u[i]
    <3>1. <<i - 1, j, v[i][j]>> \in Cells(u)
      BY <1>1, <2>1
    <3> QED  BY <1>2, <2>1, <3>1
  <2>4. DOMAIN u[i] = DOMAIN v[i]
    BY <2>2, <2>3
  <2> QED  BY <2>1, <2>2, <2>4, LenProperties, SeqEqual
<1> QED  BY <1>4, <1>5, SeqEqual

-----------------------------------------------------------------------------
(* The theorem. *)

\* Nothing has been read, and nothing is printed.
LEMMA InitInv == Init => Inv
<1> SUFFICES ASSUME Init PROVE Inv
  OBVIOUS
<1>1. \A S : <<>> \in Seq(S) /\ Len(<<>>) = 0
  BY EmptySeq
<1>2. Marks(<<>>) = {} /\ Newlines(<<>>) = {} /\ Cells(<<>>) = {}
  BY DEF Marks, Newlines, Cells
<1>3. Split(<<>>, <<>>, <<>>)
  <2>1. Pace(<<>>, <<>>, <<>>)
    BY <1>1, <1>2, FS_EmptySet DEF Pace
  <2> QED  BY <1>2, <2>1, NothingLeft DEF Split, SameMarks
<1>4. \A t \in Texts : Split(text[t], lines[t], line[t])
  BY <1>3 DEF Init
<1>5. /\ text \in [Texts -> Seq(Chars)]
      /\ lines \in [Texts -> Seq(Seq(Chars))] /\ line \in [Texts -> Seq(Chars)]
  BY <1>1 DEF Init
<1> QED  BY <1>4, <1>5 DEF Inv

\* getline keeps the pace of each text, whichever is read.
LEMMA InvStep == ASSUME Inv, [Next]_vars PROVE Inv'
<1>0. /\ text \in [Texts -> Seq(Chars)]
      /\ lines \in [Texts -> Seq(Seq(Chars))] /\ line \in [Texts -> Seq(Chars)]
      /\ \A t \in Texts : Split(text[t], lines[t], line[t])
  BY DEF Inv
<1>1. CASE UNCHANGED vars
  BY <1>0, <1>1 DEF vars, Inv
<1>2. ASSUME NEW t \in Texts, NEW c \in Chars, Read(t, c) PROVE Inv'
  <2>1. /\ text' = [text EXCEPT ![t] = Append(text[t], c)]
        /\ \/ /\ c = Newline /\ line' = [line EXCEPT ![t] = <<>>]
              /\ lines' = [lines EXCEPT ![t] = Append(lines[t], NormalizeLine(line[t]))]
           \/ /\ c # Newline /\ lines' = lines
              /\ line' = [line EXCEPT ![t] = Append(line[t], c)]
    BY <1>2 DEF Read
  <2>2. Split(text'[t], lines'[t], line'[t])
    <3>1. CASE c = Newline
      <4>1. /\ text'[t] = Append(text[t], c) /\ line'[t] = <<>>
            /\ lines'[t] = Append(lines[t], NormalizeLine(line[t]))
        BY <1>0, <2>1, <3>1
      <4> QED  BY <1>0, <3>1, <4>1, NewlineRead
    <3>2. CASE c # Newline
      <4>1. /\ text'[t] = Append(text[t], c) /\ line'[t] = Append(line[t], c)
            /\ lines'[t] = lines[t]
        BY <1>0, <2>1, <3>2
      <4> QED  BY <1>0, <3>2, <4>1, CharacterRead
    <3> QED  BY <3>1, <3>2
  <2>3. ASSUME NEW v \in Texts, v # t
        PROVE  text'[v] = text[v] /\ lines'[v] = lines[v] /\ line'[v] = line[v]
    BY <1>0, <2>1, <2>3
  <2>4. \A v \in Texts : Split(text'[v], lines'[v], line'[v])
    BY <1>0, <2>2, <2>3
  <2>5. /\ text' \in [Texts -> Seq(Chars)]
        /\ lines' \in [Texts -> Seq(Seq(Chars))] /\ line' \in [Texts -> Seq(Chars)]
    <3>1. /\ DOMAIN text' = Texts /\ text' = [v \in Texts |-> text'[v]]
          /\ lines' = [v \in Texts |-> lines'[v]] /\ line' = [v \in Texts |-> line'[v]]
      BY <1>0, <2>1
    <3>2. \A v \in Texts : /\ text'[v] \in Seq(Chars) /\ line'[v] \in Seq(Chars)
                           /\ lines'[v] \in Seq(Seq(Chars))
      BY <2>4 DEF Split, Pace
    <3> QED  BY <3>1, <3>2
  <2> QED  BY <2>4, <2>5 DEF Inv
<1> QED  BY <1>1, <1>2 DEF Next

\* compare_output tells texts apart exactly by what they print, whatever their
\* length and their characters.
THEOREM ComparesWhatIsPrinted == Spec => []ComparesPrintedText
<1>1. ASSUME Inv PROVE ComparesPrintedText
  <2> DEFINE u == SplitLines("expected")
             v == SplitLines("actual")
  <2>1. /\ u \in Seq(Seq(Chars)) /\ Cells(u) = Marks(text["expected"])
        /\ u # <<>> => u[Len(u)] # <<>>
        /\ v \in Seq(Seq(Chars)) /\ Cells(v) = Marks(text["actual"])
        /\ v # <<>> => v[Len(v)] # <<>>
    BY <1>1, SplitResult DEF Texts
  <2>2. CompareOutput <=> Len(u) = Len(v) /\ \A i \in 1..Len(u) : u[i] = v[i]
    BY DEF CompareOutput
  <2> HIDE DEF u, v
  <2>3. CompareOutput <=> u = v
    BY <2>1, <2>2, SeqEqual
  <2>4. Cells(u) = Cells(v) => u = v
    BY <2>1, CellsTellLines
  <2> QED  BY <2>1, <2>3, <2>4 DEF ComparesPrintedText
<1> QED  BY <1>1, InitInv, InvStep, PTL DEF Spec
=============================================================================
