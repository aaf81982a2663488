--------------------------- MODULE FormatsProofs ---------------------------
(***************************************************************************)
(* What is written is read back.  The rows of a log, whatever its format,  *)
(* the width of its rows, the length of the run and of its batches, and    *)
(* the writes refused; the packets on the air, whatever the values of      *)
(* their fields and the devices in range, by either implementation; and    *)
(* what a manifest says of a relay, in the parameters of its board.        *)
(***************************************************************************)
EXTENDS RunLog, AirWire, Manifests, TLAPS, NaturalsInduction, WellFoundedInduction,
        SequenceTheorems, FiniteSetTheorems

CellSet == Nat \X (1 .. Newline)

\* The first n cells of a file are those of the rows appended, in order.
Begins(width, f, n) ==
  /\ n <= Len(f)
  /\ \A i \in 1 .. n : f[i] = Cell(width, i)

-----------------------------------------------------------------------------
(* Induction and recursion.                                                *)

Below == {ss \in Nat \X Nat : ss[1] < ss[2]}

\* A set of numbers that has 0 and with each number the next has them all.
LEMMA SetInduction ==
  ASSUME NEW S, 0 \in S, \A n \in Nat : n \in S => n + 1 \in S
  PROVE  Nat \subseteq S
<1> DEFINE T == Nat \ S
<1>1. SUFFICES ASSUME T # {} PROVE FALSE
  OBVIOUS
<1>2. IsWellFoundedOn(Below, Nat)
  BY NatLessThanWellFounded DEF OpToRel, Below
<1>3. PICK n \in T : \A m \in T : ~ (<<m, n>> \in Below)
  BY <1>1, <1>2, WFMin
<1>4. n # 0 /\ n - 1 \in Nat
  BY <1>3
<1>5. <<n - 1, n>> \in Below
  BY <1>4 DEF Below
<1>6. n - 1 \in S
  BY <1>3, <1>4, <1>5
<1> QED BY <1>3, <1>4, <1>6

\* What a function makes of its last value, step by step.
Stepwise(n, S, start, F) ==
  \E g \in [0 .. n -> S] : g[0] = start /\ \A i \in 1 .. n : g[i] = F[<<i, g[i - 1]>>]

LEMMA StepsExist ==
  ASSUME NEW n \in Nat, NEW S, NEW start \in S, NEW F \in [(1 .. n) \X S -> S]
  PROVE  Stepwise(n, S, start, F)
<1> DEFINE Upto(g, m) == g[0] = start /\ \A i \in 1 .. m : g[i] = F[<<i, g[i - 1]>>]
           T == {m \in Nat : m <= n => \E g \in [0 .. m -> S] : Upto(g, m)}
<1>1. 0 \in T
  <2>1. [i \in 0 .. 0 |-> start] \in [0 .. 0 -> S] /\ Upto([i \in 0 .. 0 |-> start], 0)
    OBVIOUS
  <2> QED BY <2>1
<1>2. ASSUME NEW m \in Nat, m \in T PROVE m + 1 \in T
  <2> HIDE DEF Upto
  <2> SUFFICES ASSUME m + 1 <= n PROVE \E g \in [0 .. m + 1 -> S] : Upto(g, m + 1)
    OBVIOUS
  <2>1. PICK g \in [0 .. m -> S] : Upto(g, m)
    BY <1>2
  <2> USE DEF Upto
  <2> DEFINE last == F[<<m + 1, g[m]>>]
             h == [i \in 0 .. m + 1 |-> IF i = m + 1 THEN last ELSE g[i]]
  <2>2. last \in S
    <3>1. m \in 0 .. m /\ m + 1 \in 1 .. n
      OBVIOUS
    <3>2. <<m + 1, g[m]>> \in (1 .. n) \X S
      BY <2>1, <3>1
    <3> QED BY <3>2
  <2>3. last = F[<<m + 1, g[m]>>]
    OBVIOUS
  <2> HIDE DEF last
  <2>4. h \in [0 .. m + 1 -> S]
    BY <2>1, <2>2
  <2>5. h[m + 1] = last /\ \A i \in 0 .. m : h[i] = g[i]
    OBVIOUS
  <2> HIDE DEF h
  <2>6. Upto(h, m + 1)
    <3>1. h[0] = start
      BY <2>1, <2>5
    <3>2. ASSUME NEW i \in 1 .. m + 1 PROVE h[i] = F[<<i, h[i - 1]>>]
      <4>1. CASE i = m + 1
        <5>1. m \in 0 .. m /\ i - 1 = m
          BY <4>1
        <5> QED BY <2>3, <2>5, <4>1, <5>1
      <4>2. CASE i \in 1 .. m
        <5>1. i \in 0 .. m /\ i - 1 \in 0 .. m
          BY <4>2
        <5> QED BY <2>1, <2>5, <4>2, <5>1
      <4> QED BY <4>1, <4>2
    <3> QED BY <3>1, <3>2
  <2> QED BY <2>4, <2>6
<1>3. Nat \subseteq T
  <2> HIDE DEF T
  <2> QED BY <1>1, <1>2, SetInduction
<1>4. \E g \in [0 .. n -> S] : Upto(g, n)
  <2>1. n \in T
    BY <1>3
  <2> HIDE DEF Upto
  <2> QED BY <2>1
<1> QED BY <1>4, Zenon DEF Stepwise

-----------------------------------------------------------------------------
(* Where the cells of a row are.                                           *)

LEMMA Constants == Cells \in Nat /\ Cells >= 1 /\ Newline \in Nat /\ Newline = Cells + 1
BY RunLogAssumption DEF Newline

LEMMA WidthType ==
  ASSUME NEW format
  PROVE  Width(format) \in Nat /\ Width(format) >= Cells /\ Width(format) >= 1
         /\ Width(format) <= Newline
BY Constants DEF Width

LEMMA Times ==
  ASSUME NEW a \in Nat, NEW b \in Nat, NEW w \in Nat, a <= b
  PROVE  a * w \in Nat /\ a * w <= b * w /\ (a + 1) * w = a * w + w
<1>1. PICK d \in Nat : b = a + d
  <2>1. b - a \in Nat /\ b = a + (b - a)
    OBVIOUS
  <2> QED BY <2>1
<1>2. a * w \in Nat /\ d * w \in Nat
  OBVIOUS
<1>3. (a + d) * w = a * w + d * w
  OBVIOUS
<1>4. (a + 1) * w = a * w + w
  OBVIOUS
<1> QED BY <1>1, <1>2, <1>3, <1>4

LEMMA TimesBelow ==
  ASSUME NEW a \in Nat, NEW b \in Nat, NEW w \in Nat, w >= 1, NEW p \in Nat,
         a * w + p < b * w
  PROVE  a < b
<1> SUFFICES ASSUME b <= a PROVE FALSE
  OBVIOUS
<1>1. b * w <= a * w
  BY Times
<1>2. a * w \in Nat /\ b * w \in Nat
  OBVIOUS
<1> QED BY <1>1, <1>2

LEMMA CellAt ==
  ASSUME NEW width \in Nat, width >= 1, NEW r \in Nat, NEW p \in 1 .. width
  PROVE  r * width + p \in Nat /\ r * width + p >= 1 /\ Cell(width, r * width + p) = <<r + 1, p>>
<1>1. r * width \in Nat
  OBVIOUS
<1>2. (r * width + p - 1) \div width = r /\ (r * width + p - 1) % width = p - 1
  OBVIOUS
<1> QED BY <1>1, <1>2 DEF Cell

LEMMA CellType ==
  ASSUME NEW width \in Nat, width >= 1, width <= Newline, NEW i \in Nat, i >= 1
  PROVE  /\ Cell(width, i) \in CellSet
         /\ \E r \in Nat, p \in 1 .. width : i = r * width + p /\ Cell(width, i) = <<r + 1, p>>
<1>1. (i - 1) \div width \in Nat /\ (i - 1) % width \in 0 .. width - 1
  OBVIOUS
<1>2. i - 1 = ((i - 1) \div width) * width + ((i - 1) % width)
  OBVIOUS
<1> DEFINE r == (i - 1) \div width
           p == ((i - 1) % width) + 1
<1>3. r \in Nat /\ p \in 1 .. width /\ Cell(width, i) = <<r + 1, p>>
  BY <1>1 DEF Cell
<1>4. r * width \in Int
  BY <1>1
<1>5. i = r * width + p
  BY <1>1, <1>2, <1>4
<1>6. Cell(width, i) \in CellSet
  <2> HIDE DEF r, p
  <2> QED BY <1>3, Constants DEF CellSet
<1> HIDE DEF r, p
<1> QED BY <1>3, <1>5, <1>6

-----------------------------------------------------------------------------
(* A binary file is cut into records.                                      *)

LEMMA Quotient ==
  ASSUME NEW n \in Nat, NEW w \in Nat, w >= 1
  PROVE  /\ n \div w \in Nat /\ (n \div w) * w \in Nat
         /\ (n \div w) * w <= n /\ n < (n \div w) * w + w
         /\ \A k \in Nat : k <= n \div w <=> k * w <= n
<1>1. n \div w \in Nat /\ n % w \in 0 .. w - 1 /\ n = (n \div w) * w + (n % w)
  OBVIOUS
<1> DEFINE q == n \div w
<1>2. q \in Nat /\ q * w \in Nat /\ q * w <= n /\ n < q * w + w
  BY <1>1
<1>3. ASSUME NEW k \in Nat PROVE k <= q <=> k * w <= n
  <2> HIDE DEF q
  <2>1. k * w \in Nat
    OBVIOUS
  <2>2. k <= q => k * w <= q * w
    BY <1>2, Times
  <2>3. ASSUME q + 1 <= k PROVE (q + 1) * w <= k * w
    BY <1>2, <2>3, Times
  <2>4. (q + 1) * w = q * w + w
    BY <1>2
  <2> QED BY <1>2, <2>1, <2>2, <2>3, <2>4
<1> HIDE DEF q
<1> QED BY <1>2, <1>3 DEF q

LEMMA RecordType ==
  ASSUME NEW f \in Seq(CellSet)
  PROVE  /\ Records(f) \in Seq(Seq(CellSet))
         /\ Len(Records(f)) = Len(f) \div Cells
         /\ \A k \in DOMAIN Records(f) :
              Len(Records(f)[k]) = Cells
<1> DEFINE n == Len(f) \div Cells
<1>1. n \in Nat /\ n * Cells \in Nat /\ n * Cells <= Len(f)
  BY Constants, Quotient
<1>2. ASSUME NEW k \in 1 .. n
      PROVE  /\ SubSeq(f, (k - 1) * Cells + 1, k * Cells) \in Seq(CellSet)
             /\ Len(SubSeq(f, (k - 1) * Cells + 1, k * Cells)) = Cells
  <2> HIDE DEF n
  <2>1. k - 1 \in Nat /\ (k - 1) * Cells \in Nat /\ k * Cells = (k - 1) * Cells + Cells
    BY <1>1, Constants
  <2>2. k * Cells <= n * Cells
    BY <1>1, Constants, Times
  <2> DEFINE a == (k - 1) * Cells
             b == k * Cells
             c == n * Cells
  <2>a. c <= Len(f) /\ a \in Nat /\ b = a + Cells /\ b <= c /\ c \in Nat
    BY <1>1, <2>1, <2>2
  <2> HIDE DEF a, b, c
  <2>3. a \in Nat /\ b = a + Cells /\ b <= Len(f)
    BY <2>a, Constants
  <2>4. SubSeq(f, a + 1, b) \in Seq(CellSet) /\ Len(SubSeq(f, a + 1, b)) = Cells
    BY <2>3, Constants
  <2> QED BY <2>4 DEF a, b
<1> DEFINE R(k) == SubSeq(f, (k - 1) * Cells + 1, k * Cells)
<1>3. Records(f) = [k \in 1 .. n |-> R(k)]
  BY DEF Records
<1>4. \A k \in 1 .. n : R(k) \in Seq(CellSet) /\ Len(R(k)) = Cells
  BY <1>2
<1> HIDE DEF n, R
<1> QED BY <1>1, <1>3, <1>4 DEF n

LEMMA RecordsRead ==
  ASSUME NEW f \in Seq(CellSet), NEW n \in Nat, Begins(Cells, f, n * Cells)
  PROVE  /\ n <= Len(Records(f))
         /\ \A k \in 1 .. n : Records(f)[k] = Row(k)
<1>1. n <= Len(f) \div Cells
  BY Constants, Quotient DEF Begins
<1>2. n <= Len(Records(f))
  BY <1>1, RecordType
<1> SUFFICES ASSUME NEW k \in 1 .. n PROVE Records(f)[k] = Row(k)
  BY <1>2
<1> DEFINE a == (k - 1) * Cells
<1>3. k - 1 \in Nat /\ a \in Nat /\ k * Cells = a + Cells
  BY Constants
<1>4. k * Cells <= n * Cells /\ n * Cells <= Len(f)
  BY Constants, Times DEF Begins
<1>5. k \in 1 .. (Len(f) \div Cells)
  <2>1. Len(f) \div Cells \in Nat
    BY Constants, Quotient
  <2> QED BY <1>1, <2>1
<1>6. Records(f)[k] = SubSeq(f, a + 1, a + Cells)
  BY <1>3, <1>5 DEF Records
<1>7. ASSUME NEW i \in 1 .. Cells PROVE f[a + i] = <<k, i>>
  <2>1. Cell(Cells, a + i) = <<(k - 1) + 1, i>>
    BY <1>3, Constants, CellAt
  <2>2. a + i \in 1 .. n * Cells
    BY <1>3, <1>4, Constants
  <2>3. f[a + i] = Cell(Cells, a + i)
    BY <2>2 DEF Begins
  <2> QED BY <2>1, <2>3
<1> DEFINE b == k * Cells
           c == n * Cells
<1>a. a \in Nat /\ b = a + Cells /\ b <= c /\ c <= Len(f) /\ c \in Nat
  BY <1>3, <1>4, Constants
<1> HIDE DEF a, b, c
<1>8. a + Cells <= Len(f)
  BY <1>a, Constants
<1>9. SubSeq(f, a + 1, a + Cells) = [i \in 1 .. Cells |-> f[a + i]]
  BY <1>3, <1>8, Constants
<1> QED BY <1>6, <1>7, <1>9 DEF Row

-----------------------------------------------------------------------------
(* A text is read line by line.                                            *)

Lined == {Row(r) : r \in Nat}
RowSet(format) == IF format = "jsonl" THEN Lined ELSE Seq(CellSet)
ReadState(format) == [rows : Seq(RowSet(format)), line : Seq(CellSet)]

After(format, f, i, was) ==
  IF f[i][2] = Newline
  THEN [rows |-> Taken(format, was.rows, was.line), line |-> << >>]
  ELSE [was EXCEPT !.line = Append(@, f[i])]

LEMMA RowType ==
  ASSUME NEW r \in Nat
  PROVE  Row(r) \in Seq(CellSet) /\ Len(Row(r)) = Cells /\ Row(r) # << >>
<1>1. \A i \in 1 .. Cells : <<r, i>> \in CellSet
  BY Constants DEF CellSet
<1>2. Row(r) \in Seq(CellSet) /\ Len(Row(r)) = Cells
  BY <1>1, Constants DEF Row
<1> QED BY <1>2, Constants

LEMMA ParsedType ==
  ASSUME NEW format, NEW line \in Seq(CellSet), Parsed(format, line)
  PROVE  line \in RowSet(format)
<1>1. CASE format = "jsonl"
  <2>1. line # << >> /\ line = Row(line[1][1])
    BY <1>1 DEF Parsed
  <2>2. line[1] \in CellSet
    BY <2>1
  <2>3. line[1][1] \in Nat
    BY <2>2 DEF CellSet
  <2> QED BY <1>1, <2>1, <2>3 DEF RowSet, Lined
<1> QED BY <1>1 DEF RowSet

LEMMA TakenType ==
  ASSUME NEW format, NEW rows \in Seq(RowSet(format)), NEW line \in Seq(CellSet)
  PROVE  Taken(format, rows, line) \in Seq(RowSet(format))
BY ParsedType DEF Taken

LEMMA AfterType ==
  ASSUME NEW format, NEW f \in Seq(CellSet), NEW i \in 1 .. Len(f), NEW was \in ReadState(format)
  PROVE  After(format, f, i, was) \in ReadState(format)
<1>1. was.rows \in Seq(RowSet(format)) /\ was.line \in Seq(CellSet)
  BY DEF ReadState
<1>2. f[i] \in CellSet
  OBVIOUS
<1>3. Taken(format, was.rows, was.line) \in Seq(RowSet(format))
  BY <1>1, TakenType
<1>4. Append(was.line, f[i]) \in Seq(CellSet)
  BY <1>1, <1>2
<1>5. << >> \in Seq(CellSet)
  OBVIOUS
<1> QED BY <1>3, <1>4, <1>5 DEF After, ReadState

LEMMA ReadSteps ==
  ASSUME NEW format, NEW f \in Seq(CellSet)
  PROVE  /\ Read(format, f)[0] = [rows |-> << >>, line |-> << >>]
         /\ \A i \in 0 .. Len(f) : Read(format, f)[i] \in ReadState(format)
         /\ \A i \in 1 .. Len(f) :
              Read(format, f)[i] = After(format, f, i, Read(format, f)[i - 1])
<1> DEFINE n == Len(f)
           start == [rows |-> << >>, line |-> << >>]
           S == ReadState(format)
           F == [x \in (1 .. n) \X S |-> After(format, f, x[1], x[2])]
           read[i \in 0 .. n] ==
             IF i = 0 THEN [rows |-> << >>, line |-> << >>]
             ELSE IF f[i][2] = Newline
                  THEN [rows |-> Taken(format, read[i - 1].rows, read[i - 1].line), line |-> << >>]
                  ELSE [read[i - 1] EXCEPT !.line = Append(@, f[i])]
<1>1. Read(format, f) = read
  BY DEF Read
<1>2. start \in S
  BY DEF ReadState
<1>3. F \in [(1 .. n) \X S -> S]
  <2>1. \A x \in (1 .. n) \X S : After(format, f, x[1], x[2]) \in S
    BY AfterType
  <2> QED BY <2>1
<1>4. PICK g \in [0 .. n -> S] : g[0] = start /\ \A i \in 1 .. n : g[i] = F[<<i, g[i - 1]>>]
  <2>1. n \in Nat
    OBVIOUS
  <2> HIDE DEF n, start, S, F
  <2>2. Stepwise(n, S, start, F)
    BY <1>2, <1>3, <2>1, StepsExist
  <2> QED BY <2>2, Zenon DEF Stepwise
<1>5. \A i \in 1 .. n : g[i] = After(format, f, i, g[i - 1])
  <2>1. TAKE i \in 1 .. n
  <2>2. i - 1 \in 0 .. n
    OBVIOUS
  <2>3. g[i - 1] \in S
    BY <1>4, <2>2
  <2>4. \A w \in S : F[<<i, w>>] = After(format, f, i, w)
    OBVIOUS
  <2> HIDE DEF F, S
  <2> QED BY <1>4, <2>3, <2>4
<1>6. g = [i \in 0 .. n |->
             IF i = 0 THEN [rows |-> << >>, line |-> << >>]
             ELSE IF f[i][2] = Newline
                  THEN [rows |-> Taken(format, g[i - 1].rows, g[i - 1].line), line |-> << >>]
                  ELSE [g[i - 1] EXCEPT !.line = Append(@, f[i])]]
  <2>1. \A i \in 0 .. n : i = 0 \/ i \in 1 .. n
    OBVIOUS
  <2> QED BY <1>4, <1>5, <2>1 DEF After
<1>7. read = [i \in 0 .. n |->
             IF i = 0 THEN [rows |-> << >>, line |-> << >>]
             ELSE IF f[i][2] = Newline
                  THEN [rows |-> Taken(format, read[i - 1].rows, read[i - 1].line), line |-> << >>]
                  ELSE [read[i - 1] EXCEPT !.line = Append(@, f[i])]]
  BY <1>6, Zenon DEF read
<1> HIDE DEF read
<1>8. /\ read[0] = start
      /\ \A i \in 1 .. n : read[i] = After(format, f, i, read[i - 1])
  <2>1. 0 \in 0 .. n /\ \A i \in 1 .. n : i \in 0 .. n /\ i # 0
    OBVIOUS
  <2> QED BY <1>7, <2>1 DEF After
<1>9. \A i \in 0 .. n : read[i] \in S
  <2> DEFINE T == {m \in Nat : m <= n => read[m] \in S}
  <2>1. 0 \in T
    BY <1>2, <1>8
  <2>2. ASSUME NEW m \in Nat, m \in T PROVE m + 1 \in T
    <3> SUFFICES ASSUME m + 1 <= n PROVE read[m + 1] \in S
      OBVIOUS
    <3>1. m + 1 \in 1 .. n /\ (m + 1) - 1 = m /\ m <= n
      OBVIOUS
    <3>2. read[m] \in S
      BY <2>2, <3>1
    <3>3. read[m + 1] = After(format, f, m + 1, read[m])
      BY <1>8, <3>1
    <3> QED BY <3>1, <3>2, <3>3, AfterType
  <2>3. Nat \subseteq T
    <3> HIDE DEF T
    <3> QED BY <2>1, <2>2, SetInduction
  <2> QED BY <2>3
<1> QED BY <1>1, <1>8, <1>9

-----------------------------------------------------------------------------
(* Lines that begin as the rows appended are read as those rows.           *)

\* The first p cells of row r.
Part(r, p) == [i \in 1 .. p |-> <<r, i>>]

LEMMA PartFacts ==
  ASSUME NEW r \in Nat, NEW p \in Nat, p <= Cells
  PROVE  /\ Part(r, p) \in Seq(CellSet) /\ Len(Part(r, p)) = p
         /\ Part(r, p) = << >> <=> p = 0
         /\ Part(r, Cells) = Row(r)
         /\ p + 1 <= Cells => Append(Part(r, p), <<r, p + 1>>) = Part(r, p + 1)
<1>1. \A i \in 1 .. p : <<r, i>> \in CellSet
  BY Constants DEF CellSet
<1>2. Part(r, p) \in Seq(CellSet) /\ Len(Part(r, p)) = p
  BY <1>1 DEF Part
<1>3. Part(r, p) = << >> <=> p = 0
  BY <1>2
<1>4. Part(r, Cells) = Row(r)
  BY DEF Part, Row
<1>5. Append(Part(r, p), <<r, p + 1>>) = Part(r, p + 1)
  BY DEF Part
<1> QED BY <1>2, <1>3, <1>4, <1>5

LEMMA AllRowsFacts ==
  ASSUME NEW n \in Nat
  PROVE  /\ AllRows(n) \in Seq(Seq(CellSet)) /\ Len(AllRows(n)) = n
         /\ \A k \in 1 .. n : AllRows(n)[k] = Row(k)
         /\ Append(AllRows(n), Row(n + 1)) = AllRows(n + 1)
         /\ \A m \in Nat : m <= n => SubSeq(AllRows(n), 1, m) = AllRows(m)
<1>1. \A k \in 1 .. n : Row(k) \in Seq(CellSet)
  BY RowType
<1>2. AllRows(n) \in Seq(Seq(CellSet)) /\ Len(AllRows(n)) = n
  BY <1>1 DEF AllRows
<1>3. Append(AllRows(n), Row(n + 1)) = AllRows(n + 1)
  BY DEF AllRows
<1>4. \A m \in Nat : m <= n => SubSeq(AllRows(n), 1, m) = AllRows(m)
  BY DEF AllRows
<1> QED BY <1>2, <1>3, <1>4 DEF AllRows

LEMMA RowIsParsed ==
  ASSUME NEW format, NEW r \in Nat
  PROVE  Parsed(format, Row(r))
<1>1. Row(r)[1] = <<r, 1>>
  BY Constants DEF Row
<1> QED BY <1>1, RowType DEF Parsed

\* After p cells of row r + 1: the rows up to r, and that part of the next.
ReadAsAppended(format, f, n) ==
  \A r \in Nat, p \in 0 .. Cells :
    r * Newline + p <= n =>
      Read(format, f)[r * Newline + p] = [rows |-> AllRows(r), line |-> Part(r + 1, p)]

LEMMA LinesBegun ==
  ASSUME NEW format, NEW f \in Seq(CellSet), NEW n \in Nat, Begins(Newline, f, n)
  PROVE  ReadAsAppended(format, f, n)
<1> DEFINE Says(m) ==
             \A r \in Nat, p \in 0 .. Cells :
               r * Newline + p = m =>
                 Read(format, f)[m] = [rows |-> AllRows(r), line |-> Part(r + 1, p)]
           T == {m \in Nat : m <= n => Says(m)}
<1>1. 0 \in T
  <2>1. ASSUME NEW r \in Nat, NEW p \in 0 .. Cells, r * Newline + p = 0 PROVE r = 0 /\ p = 0
    <3>1. CASE r >= 1
      <4>1. 1 * Newline <= r * Newline
        BY <3>1, Constants, Times
      <4>2. r * Newline \in Nat
        BY Constants
      <4> QED BY <2>1, <4>1, <4>2, Constants
    <3>2. CASE r = 0
      BY <2>1, <3>2, Constants
    <3> QED BY <3>1, <3>2
  <2>2. AllRows(0) = << >> /\ Part(0 + 1, 0) = << >>
    BY DEF AllRows, Part
  <2>3. Read(format, f)[0] = [rows |-> AllRows(0), line |-> Part(0 + 1, 0)]
    BY <2>2, ReadSteps
  <2> QED BY <2>1, <2>3
<1>2. ASSUME NEW m \in Nat, m \in T PROVE m + 1 \in T
  <2> SUFFICES ASSUME m + 1 <= n, NEW r \in Nat, NEW p \in 0 .. Cells, r * Newline + p = m + 1
               PROVE  Read(format, f)[m + 1] = [rows |-> AllRows(r), line |-> Part(r + 1, p)]
    OBVIOUS
  <2>1. Says(m)
    BY <1>2
  <2> HIDE DEF T
  <2>2. m + 1 \in 1 .. Len(f) /\ (m + 1) - 1 = m /\ m \in 0 .. Len(f)
    BY DEF Begins
  <2>3. Read(format, f)[m + 1] = After(format, f, m + 1, Read(format, f)[m])
    BY <2>2, ReadSteps
  <2>4. f[m + 1] = Cell(Newline, m + 1)
    BY DEF Begins
  <2>5. CASE p \in 1 .. Cells
    <3> DEFINE q == p - 1
    <3>1. q \in 0 .. Cells /\ q + 1 = p /\ q \in Nat /\ q <= Cells
      BY <2>5, Constants
    <3>2. r * Newline \in Nat
      BY Constants
    <3>3. r * Newline + q = m
      BY <3>1, <3>2
    <3> HIDE DEF q
    <3>4. Read(format, f)[m] = [rows |-> AllRows(r), line |-> Part(r + 1, q)]
      BY <2>1, <3>1, <3>3
    <3>5. Cell(Newline, r * Newline + p) = <<r + 1, p>>
      <4>1. p \in 1 .. Newline
        BY <2>5, Constants
      <4>2. Newline \in Nat /\ Newline >= 1
        BY Constants
      <4> QED BY <4>1, <4>2, CellAt, Zenon
    <3>6. f[m + 1] = <<r + 1, p>> /\ p # Newline
      BY <2>4, <2>5, <3>5, Constants
    <3>7. Append(Part(r + 1, q), <<r + 1, p>>) = Part(r + 1, p)
      <4>1. r + 1 \in Nat /\ q + 1 <= Cells
        BY <2>5, <3>1, Constants
      <4> QED BY <3>1, <4>1, PartFacts
    <3>8. After(format, f, m + 1, [rows |-> AllRows(r), line |-> Part(r + 1, q)])
            = [rows |-> AllRows(r), line |-> Append(Part(r + 1, q), <<r + 1, p>>)]
      <4>1. f[m + 1][2] # Newline
        BY <3>6
      <4> QED BY <3>6, <4>1, Zenon DEF After
    <3> QED BY <2>3, <3>4, <3>7, <3>8
  <2>6. CASE p = 0
    <3> DEFINE s == r - 1
    <3>0. r # 0
      BY <2>6, Constants
    <3>1. s \in Nat /\ s + 1 = r
      BY <3>0
    <3> HIDE DEF s
    <3>2. s * Newline \in Nat /\ r * Newline = s * Newline + Newline
      BY <3>1, Constants, Times
    <3>3. s * Newline + Cells = m
      BY <2>6, <3>2, Constants
    <3>4. Read(format, f)[m] = [rows |-> AllRows(s), line |-> Part(s + 1, Cells)]
      <4>1. Cells \in 0 .. Cells
        BY Constants
      <4> QED BY <2>1, <3>1, <3>3, <4>1
    <3>5. Cell(Newline, s * Newline + Newline) = <<s + 1, Newline>>
      <4>1. Newline \in 1 .. Newline
        BY Constants
      <4>2. Newline \in Nat /\ Newline >= 1
        BY Constants
      <4> QED BY <3>1, <4>1, <4>2, CellAt, Zenon
    <3>6. f[m + 1][2] = Newline
      <4>1. m + 1 = s * Newline + Newline
        BY <2>6, <3>2, Constants
      <4> QED BY <2>4, <3>5, <4>1
    <3>7. Part(s + 1, Cells) = Row(r)
      BY <3>1, Constants, PartFacts
    <3>8. Taken(format, AllRows(s), Row(r)) = AllRows(r)
      BY <3>1, RowIsParsed, AllRowsFacts DEF Taken
    <3>9. Part(r + 1, 0) = << >>
      BY DEF Part
    <3> QED BY <2>3, <2>6, <3>4, <3>6, <3>7, <3>8, <3>9 DEF After
  <2> QED BY <2>5, <2>6
<1>3. Nat \subseteq T
  <2> HIDE DEF T
  <2> QED BY <1>1, <1>2, SetInduction
<1>4. SUFFICES ASSUME NEW r \in Nat, NEW p \in 0 .. Cells, r * Newline + p <= n
                PROVE  Read(format, f)[r * Newline + p] = [rows |-> AllRows(r), line |-> Part(r + 1, p)]
  BY DEF ReadAsAppended
<1>5. r * Newline + p <= n
  BY <1>4
<1>6. r * Newline + p \in Nat
  BY Constants
<1>7. Says(r * Newline + p)
  BY <1>3, <1>5, <1>6
<1> QED BY <1>7

\* What was read stays: the rows of a file are not changed by its later cells.
Starts(a, b) == Len(a) <= Len(b) /\ \A k \in 1 .. Len(a) : a[k] = b[k]

LEMMA TakenStarts ==
  ASSUME NEW S, NEW rows \in Seq(S), NEW format, NEW line, line \in S \/ ~Parsed(format, line)
  PROVE  Starts(rows, Taken(format, rows, line))
<1>1. CASE Parsed(format, line)
  <2>1. Taken(format, rows, line) = Append(rows, line) /\ line \in S
    BY <1>1 DEF Taken
  <2> QED BY <2>1 DEF Starts
<1>2. CASE ~Parsed(format, line)
  BY <1>2 DEF Taken, Starts
<1> QED BY <1>1, <1>2

LEMMA StateTaken ==
  ASSUME NEW format, NEW st \in ReadState(format)
  PROVE  /\ Taken(format, st.rows, st.line) \in Seq(RowSet(format))
         /\ Starts(st.rows, Taken(format, st.rows, st.line))
<1>1. st.rows \in Seq(RowSet(format)) /\ st.line \in Seq(CellSet)
  BY DEF ReadState
<1>2. st.line \in RowSet(format) \/ ~Parsed(format, st.line)
  BY <1>1, ParsedType
<1> QED BY <1>1, <1>2, TakenType, TakenStarts

LEMMA ReadGrows ==
  ASSUME NEW format, NEW f \in Seq(CellSet), NEW i \in 0 .. Len(f)
  PROVE  Starts(Read(format, f)[i].rows, Lines(format, f))
<1> DEFINE R(j) == Read(format, f)[j].rows
           T == {m \in Nat : i + m <= Len(f) => Starts(R(i), R(i + m))}
<1>1. \A j \in 0 .. Len(f) : Read(format, f)[j] \in ReadState(format) /\ R(j) \in Seq(RowSet(format))
  BY ReadSteps DEF ReadState
<1>2. 0 \in T
  BY <1>1 DEF Starts
<1>3. ASSUME NEW m \in Nat, m \in T PROVE m + 1 \in T
  <2> SUFFICES ASSUME i + (m + 1) <= Len(f) PROVE Starts(R(i), R(i + (m + 1)))
    OBVIOUS
  <2> DEFINE j == i + m
  <2>1. j \in 0 .. Len(f) /\ j + 1 \in 1 .. Len(f) /\ (j + 1) - 1 = j /\ i + (m + 1) = j + 1
        /\ j + 1 \in 0 .. Len(f)
    OBVIOUS
  <2>2. Starts(R(i), R(j))
    BY <1>3
  <2> HIDE DEF j, T
  <2>3. Read(format, f)[j + 1] = After(format, f, j + 1, Read(format, f)[j])
    BY <2>1, ReadSteps
  <2>4. \/ R(j + 1) = Taken(format, R(j), Read(format, f)[j].line)
        \/ R(j + 1) = R(j)
    <3>1. Read(format, f)[j] \in ReadState(format)
      BY <1>1, <2>1
    <3> QED BY <2>3, <3>1 DEF After, ReadState
  <2>5. Starts(R(j), R(j + 1))
    <3>1. CASE R(j + 1) = R(j)
      BY <1>1, <2>1, <3>1 DEF Starts
    <3>2. CASE R(j + 1) = Taken(format, R(j), Read(format, f)[j].line)
      BY <1>1, <2>1, <3>2, StateTaken
    <3> QED BY <2>4, <3>1, <3>2
  <2>6. R(i) \in Seq(RowSet(format)) /\ R(j) \in Seq(RowSet(format)) /\ R(j + 1) \in Seq(RowSet(format))
    BY <1>1, <2>1
  <2> HIDE DEF R
  <2>7. Starts(R(i), R(j + 1))
    BY <2>2, <2>5, <2>6 DEF Starts
  <2> QED BY <2>1, <2>7
<1>4. Nat \subseteq T
  <2> HIDE DEF T
  <2> QED BY <1>2, <1>3, SetInduction
<1>5. Starts(R(i), R(Len(f)))
  <2>1. Len(f) - i \in Nat /\ i + (Len(f) - i) = Len(f)
    OBVIOUS
  <2>2. Len(f) - i \in T
    BY <1>4, <2>1
  <2> QED BY <2>1, <2>2
<1>6. Len(f) \in 0 .. Len(f)
  OBVIOUS
<1>7. /\ Starts(R(Len(f)), Lines(format, f))
      /\ Lines(format, f) \in Seq(RowSet(format))
  BY <1>1, <1>6, StateTaken DEF Lines
<1>8. R(i) \in Seq(RowSet(format)) /\ R(Len(f)) \in Seq(RowSet(format))
  BY <1>1, <1>6
<1> HIDE DEF R
<1> QED BY <1>5, <1>7, <1>8 DEF Starts, R

LEMMA LinesType ==
  ASSUME NEW format, NEW f \in Seq(CellSet)
  PROVE  Lines(format, f) \in Seq(RowSet(format))
<1>1. Len(f) \in 0 .. Len(f)
  OBVIOUS
<1> QED BY <1>1, ReadSteps, StateTaken DEF Lines

\* Of a file that is the rows appended up to some cell.
LEMMA LinesOfPrefix ==
  ASSUME NEW format, NEW f \in Seq(CellSet), Begins(Newline, f, Len(f)),
         NEW r \in Nat, NEW p \in 0 .. Cells, r * Newline + p = Len(f)
  PROVE  Lines(format, f) = Taken(format, AllRows(r), Part(r + 1, p))
<1>1. Read(format, f)[r * Newline + p] = [rows |-> AllRows(r), line |-> Part(r + 1, p)]
  <2>1. Len(f) \in Nat /\ r * Newline + p <= Len(f)
    OBVIOUS
  <2>2. ReadAsAppended(format, f, Len(f))
    BY <2>1, LinesBegun
  <2> QED BY <2>1, <2>2, Zenon DEF ReadAsAppended
<1> QED BY <1>1 DEF Lines

-----------------------------------------------------------------------------
(* What is recovered of a file, in any format.                             *)

LEMMA RecoveredType ==
  ASSUME NEW format, NEW f \in Seq(CellSet)
  PROVE  /\ Recovered(format, f) \in Seq(Seq(CellSet))
         /\ format \in {"binary", "jsonl"} =>
              \A k \in DOMAIN Recovered(format, f) : Len(Recovered(format, f)[k]) = Cells
<1>1. CASE format = "binary"
  BY <1>1, RecordType DEF Recovered
<1>2. CASE format = "jsonl"
  <2>1. Recovered(format, f) \in Seq(Lined)
    BY <1>2, LinesType DEF Recovered, RowSet
  <2>2. \A row \in Lined : row \in Seq(CellSet) /\ Len(row) = Cells
    BY RowType DEF Lined
  <2> QED BY <2>1, <2>2
<1>3. CASE format \notin {"binary", "jsonl"}
  BY <1>3, LinesType DEF Recovered, RowSet
<1> QED BY <1>1, <1>2, <1>3

\* A file that begins with n rows is read with those rows first.
LEMMA RecoveredKeeps ==
  ASSUME NEW format, NEW f \in Seq(CellSet), NEW n \in Nat,
         Begins(Width(format), f, n * Width(format))
  PROVE  Starts(AllRows(n), Recovered(format, f))
<1>1. CASE format = "binary"
  <2>1. Begins(Cells, f, n * Cells)
    BY <1>1 DEF Width
  <2>2. n <= Len(Records(f)) /\ \A k \in 1 .. n : Records(f)[k] = Row(k)
    BY <2>1, RecordsRead
  <2> QED BY <1>1, <2>2, AllRowsFacts DEF Recovered, Starts
<1>2. CASE format # "binary"
  <2>1. Begins(Newline, f, n * Newline)
    BY <1>2 DEF Width
  <2> DEFINE c == n * Newline
  <2>2. c \in Nat /\ n * Newline + 0 = c
    BY Constants
  <2>3. c \in 0 .. Len(f)
    BY <2>1, <2>2 DEF Begins
  <2>4. Read(format, f)[c] = [rows |-> AllRows(n), line |-> Part(n + 1, 0)]
    <3>1. 0 \in 0 .. Cells /\ n * Newline + 0 <= c
      BY <2>2, Constants
    <3>2. Begins(Newline, f, c)
      BY <2>1
    <3> HIDE DEF c
    <3>3. ReadAsAppended(format, f, c)
      BY <2>2, <3>2, LinesBegun
    <3>4. Read(format, f)[n * Newline + 0] = [rows |-> AllRows(n), line |-> Part(n + 1, 0)]
      BY <3>1, <3>3, Zenon DEF ReadAsAppended
    <3> QED BY <2>2, <3>4
  <2> HIDE DEF c
  <2>5. Starts(AllRows(n), Lines(format, f))
    BY <2>3, <2>4, ReadGrows
  <2> QED BY <1>2, <2>5 DEF Recovered
<1> QED BY <1>1, <1>2

\* Of a file that is the first cells of the rows appended, the whole rows are
\* read, and of the text formats perhaps the row that was begun.
LEMMA RecoveredOfPrefix ==
  ASSUME NEW format, NEW f \in Seq(CellSet), NEW n \in Nat,
         Begins(Width(format), f, Len(f)), Len(f) <= n * Width(format)
  PROVE  \E r \in 0 .. n :
           /\ r * Width(format) <= Len(f) /\ Len(f) < r * Width(format) + Width(format)
           /\ \/ Recovered(format, f) = AllRows(r)
              \/ /\ format = "jsonl" /\ r + 1 <= n
                 /\ Recovered(format, f) = AllRows(r + 1)
              \/ /\ format \notin {"binary", "jsonl"} /\ r + 1 <= n
                 /\ \E p \in 1 .. Cells : Recovered(format, f) = Append(AllRows(r), Part(r + 1, p))
<1> DEFINE w == Width(format)
           r == Len(f) \div w
<1>1. w \in Nat /\ w >= 1
  BY WidthType
<1>2. Len(f) \in Nat
  OBVIOUS
<1> HIDE DEF w
<1>3. r \in Nat /\ r * w \in Nat /\ r * w <= Len(f) /\ Len(f) < r * w + w
  BY <1>1, <1>2, Quotient
<1> HIDE DEF r
<1>4. r <= n
  <2> SUFFICES ASSUME n + 1 <= r PROVE FALSE
    BY <1>3
  <2>1. (n + 1) * w <= r * w /\ n * w \in Nat /\ (n + 1) * w = n * w + w
    BY <1>1, <1>3, Times
  <2>2. Len(f) <= n * w
    BY DEF w
  <2> QED BY <1>1, <1>2, <1>3, <2>1, <2>2
<1>5. CASE format = "binary"
  <2>1. w = Cells
    BY <1>5 DEF w, Width
  <2>2. Begins(Cells, f, r * Cells)
    <3>1. Begins(w, f, Len(f))
      BY DEF w
    <3>2. Begins(w, f, r * w)
      BY <1>2, <1>3, <3>1 DEF Begins
    <3> QED BY <2>1, <3>2
  <2>3. Len(Records(f)) = r /\ Records(f) \in Seq(Seq(CellSet))
    BY <2>1, RecordType DEF r
  <2>4. \A k \in 1 .. r : Records(f)[k] = Row(k)
    BY <1>3, <2>2, RecordsRead
  <2>5. Records(f) = AllRows(r)
    BY <1>3, <2>3, <2>4, AllRowsFacts DEF AllRows
  <2>6. Recovered(format, f) = AllRows(r)
    BY <1>5, <2>5 DEF Recovered
  <2> QED BY <1>3, <1>4, <2>6 DEF w
<1>6. CASE format # "binary"
  <2> DEFINE p == Len(f) - r * w
  <2>1. w = Newline /\ Begins(Newline, f, Len(f))
    BY <1>6 DEF w, Width
  <2>2. p \in 0 .. Cells /\ r * w + p = Len(f) /\ p \in Nat /\ p <= Cells
    BY <1>2, <1>3, <2>1, Constants
  <2> HIDE DEF p
  <2>3. Recovered(format, f) = Taken(format, AllRows(r), Part(r + 1, p))
    <3>1. r * Newline + p = Len(f)
      BY <2>1, <2>2
    <3>2. Lines(format, f) = Taken(format, AllRows(r), Part(r + 1, p))
      BY <1>3, <2>1, <2>2, <3>1, LinesOfPrefix
    <3> QED BY <1>6, <3>2 DEF Recovered
  <2>4. /\ Part(r + 1, p) \in Seq(CellSet) /\ Len(Part(r + 1, p)) = p
        /\ Part(r + 1, p) = << >> <=> p = 0
        /\ Part(r + 1, Cells) = Row(r + 1)
    BY <1>3, <2>2, PartFacts
  <2>5. CASE ~Parsed(format, Part(r + 1, p))
    BY <1>3, <1>4, <2>3, <2>5 DEF w, Taken
  <2>6. CASE Parsed(format, Part(r + 1, p))
    <3>1. p >= 1
      BY <2>2, <2>4, <2>6 DEF Parsed
    <3>2. r + 1 <= n
      <4> SUFFICES ASSUME r = n PROVE FALSE
        BY <1>3, <1>4
      <4>1. Len(f) <= r * w
        BY DEF w
      <4> QED BY <1>2, <1>3, <2>2, <3>1, <4>1
    <3>3. Recovered(format, f) = Append(AllRows(r), Part(r + 1, p))
      BY <2>3, <2>6 DEF Taken
    <3>4. CASE format = "jsonl"
      <4>1. Part(r + 1, p) = Row(Part(r + 1, p)[1][1])
        BY <2>6, <3>4 DEF Parsed
      <4>2. Part(r + 1, p)[1] \in CellSet
        BY <2>2, <2>4, <3>1
      <4>3. Part(r + 1, p)[1][1] \in Nat
        BY <4>2 DEF CellSet
      <4>4. p = Cells
        BY <2>4, <4>1, <4>3, RowType
      <4>5. Recovered(format, f) = AllRows(r + 1)
        BY <1>3, <2>4, <3>3, <4>4, AllRowsFacts
      <4> QED BY <1>3, <1>4, <3>2, <3>4, <4>5 DEF w
    <3>5. CASE format # "jsonl"
      <4>1. p \in 1 .. Cells
        BY <2>2, <3>1
      <4> QED BY <1>3, <1>4, <1>6, <3>2, <3>3, <3>5, <4>1 DEF w
    <3> QED BY <3>4, <3>5
  <2> QED BY <2>5, <2>6
<1> QED BY <1>5, <1>6

-----------------------------------------------------------------------------
(* The invariant: what of a file is known to be the rows appended.         *)

FileOK(width, f, n, b, k, ph, refused) ==
  /\ f \in Seq(CellSet)
  /\ ph = "new" => n = 0
  /\ ph # "off" => Begins(width, f, k * width)
  /\ refused = 0 =>
       /\ Begins(width, f, Len(f)) /\ Len(f) <= n * width
       /\ b < FlushEvery
       /\ ph # "off" => (n - b) * width <= Len(f)
       /\ ph \in {"new", "open"} => Len(f) = (n - b) * width

LogState ==
  /\ FileOK(Width(fmt), file, count, buffered, intact, phase, faults)
  /\ IF phase = "closed"
     THEN samples = count /\ buffered = 0 /\ final = Recovered(fmt, file)
     ELSE samples = 0

IInv == TypeOK /\ LogState

LEMMA AppendFront ==
  ASSUME NEW S, NEW s \in Seq(S), NEW x \in S
  PROVE  /\ Len(Append(s, x)) = Len(s) + 1 /\ Append(s, x) # << >>
         /\ SubSeq(Append(s, x), 1, Len(s)) = s
<1> DEFINE t == Append(s, x)
<1>1. /\ t \in Seq(S) /\ Len(t) = Len(s) + 1 /\ t # << >> /\ Len(s) \in Nat
      /\ \A j \in 1 .. Len(s) : t[j] = s[j]
  OBVIOUS
<1> HIDE DEF t
<1>2. /\ SubSeq(t, 1, Len(s)) \in Seq(S) /\ Len(SubSeq(t, 1, Len(s))) = Len(s)
      /\ \A j \in 1 .. Len(s) : SubSeq(t, 1, Len(s))[j] = t[j]
  <2>1. \A j \in 1 .. Len(s) : t[j] \in S
    BY <1>1
  <2> QED BY <1>1, <2>1
<1>3. SubSeq(t, 1, Len(s)) = s
  BY <1>1, <1>2, SeqEqual
<1> QED BY <1>1, <1>3 DEF t

\* What follows of it, about the rows that are read.
LEMMA StateIsRead ==
  ASSUME NEW format \in {"binary", "csv", "jsonl"}, NEW f \in Seq(CellSet), NEW n \in Nat,
         Begins(Width(format), f, Len(f)), Len(f) <= n * Width(format)
  PROVE  LET rows == Recovered(format, f)
             whole == IF format = "csv" /\ rows # << >> THEN SubSeq(rows, 1, Len(rows) - 1) ELSE rows
         IN  /\ whole = AllRows(Len(whole)) /\ Len(rows) <= n
             /\ n * Width(format) <= Len(f) => rows = AllRows(n)
<1> DEFINE w == Width(format)
           rows == Recovered(format, f)
           whole == IF format = "csv" /\ rows # << >> THEN SubSeq(rows, 1, Len(rows) - 1) ELSE rows
<1>1. PICK r \in 0 .. n :
        /\ r * w <= Len(f) /\ Len(f) < r * w + w
        /\ \/ rows = AllRows(r)
           \/ format = "jsonl" /\ r + 1 <= n /\ rows = AllRows(r + 1)
           \/ /\ format \notin {"binary", "jsonl"} /\ r + 1 <= n
              /\ \E p \in 1 .. Cells : rows = Append(AllRows(r), Part(r + 1, p))
  BY RecoveredOfPrefix
<1>2. w \in Nat /\ w >= 1 /\ Len(f) \in Nat
  BY WidthType
<1> DEFINE Enough == n * w <= Len(f)
<1>3. ASSUME Enough PROVE n = r
  <2> HIDE DEF w
  <2>1. r \in Nat /\ r * w \in Nat /\ n * w \in Nat /\ (r + 1) * w = r * w + w
    BY <1>2, Times
  <2>2. n * w < r * w + w
    BY <1>1, <1>2, <1>3, <2>1
  <2>3. ASSUME r + 1 <= n PROVE FALSE
    <3>1. (r + 1) * w <= n * w
      BY <1>2, <2>1, <2>3, Times
    <3> DEFINE x == r * w
               y == n * w
               z == (r + 1) * w
    <3>2. x \in Nat /\ y \in Nat /\ y < x + w /\ z = x + w /\ z <= y
      BY <2>1, <2>2, <3>1
    <3> HIDE DEF x, y, z
    <3> QED BY <1>2, <3>2
  <2> QED BY <2>3
<1>4. r \in Nat /\ r <= n
  OBVIOUS
<1> DEFINE Goal == /\ whole = AllRows(Len(whole)) /\ Len(rows) <= n
                   /\ Enough => rows = AllRows(n)
<1> HIDE DEF w, rows, Enough
<1> SUFFICES Goal
  BY Zenon DEF w, rows, Enough
<1>5. CASE rows = AllRows(r)
  <2>1. Len(rows) = r
    BY <1>4, <1>5, AllRowsFacts
  <2>2. CASE format = "csv" /\ rows # << >>
    <3>0. r # 0
      BY <1>5, <2>2 DEF AllRows
    <3>1. r - 1 \in Nat /\ r - 1 <= r /\ whole = SubSeq(AllRows(r), 1, r - 1)
      <4>1. whole = SubSeq(rows, 1, Len(rows) - 1)
        BY <2>2, Zenon
      <4>2. r - 1 \in Nat /\ r - 1 <= r
        BY <1>4, <3>0
      <4> HIDE DEF whole
      <4> QED BY <1>5, <2>1, <4>1, <4>2
    <3> HIDE DEF whole
    <3>2. \A m \in Nat : m <= r => SubSeq(AllRows(r), 1, m) = AllRows(m)
      BY <1>4, AllRowsFacts
    <3>3. whole = AllRows(r - 1) /\ Len(AllRows(r - 1)) = r - 1
      BY <3>1, <3>2, AllRowsFacts
    <3> QED BY <1>3, <1>4, <1>5, <2>1, <3>3
  <2>3. CASE ~(format = "csv" /\ rows # << >>)
    <3>1. whole = rows
      BY <2>3
    <3> HIDE DEF whole
    <3> QED BY <1>3, <1>4, <1>5, <2>1, <3>1
  <2> QED BY <2>2, <2>3
<1>6. CASE format = "jsonl" /\ r + 1 <= n /\ rows = AllRows(r + 1)
  <2>1. r + 1 \in Nat /\ Len(rows) = r + 1
    BY <1>4, <1>6, AllRowsFacts
  <2>2. whole = rows
    BY <1>6
  <2> HIDE DEF whole
  <2> QED BY <1>3, <1>4, <1>6, <2>1, <2>2
<1>7. CASE /\ format \notin {"binary", "jsonl"} /\ r + 1 <= n
           /\ \E p \in 1 .. Cells : rows = Append(AllRows(r), Part(r + 1, p))
  <2>1. PICK p \in 1 .. Cells : rows = Append(AllRows(r), Part(r + 1, p))
    BY <1>7
  <2>2. /\ AllRows(r) \in Seq(Seq(CellSet)) /\ Len(AllRows(r)) = r
        /\ Part(r + 1, p) \in Seq(CellSet)
    <3>1. r + 1 \in Nat /\ p \in Nat /\ p <= Cells
      BY <1>4, Constants
    <3> QED BY <1>4, <3>1, AllRowsFacts, PartFacts
  <2>3. Len(rows) = r + 1 /\ rows # << >> /\ SubSeq(rows, 1, r) = AllRows(r)
    BY <2>1, <2>2, AppendFront
  <2>4. whole = SubSeq(rows, 1, Len(rows) - 1)
    <3>1. format = "csv"
      BY <1>7
    <3> QED BY <2>3, <3>1, Zenon
  <2>5. Len(rows) - 1 = r
    BY <1>4, <2>3
  <2> HIDE DEF whole
  <2>6. whole = AllRows(r) /\ Len(whole) = r
    BY <2>2, <2>3, <2>4, <2>5
  <2> QED BY <1>3, <1>4, <1>7, <2>3, <2>6
<1> HIDE DEF whole
<1> QED BY <1>1, <1>5, <1>6, <1>7

LEMMA Formatted == TypeOK => fmt \in {"binary", "csv", "jsonl"}
BY RunLogAssumption DEF TypeOK

\* What the invariant says of the file is what is read back of it.
LEMMA Reading ==
  ASSUME IInv
  PROVE  LogInv /\ RefusalSparesEarlierRows
<1> USE DEF IInv
<1>1. PICK format, f, n, b, k :
        format = fmt /\ f = file /\ n = count /\ b = buffered /\ k = intact
  OBVIOUS
<1>2. /\ format \in {"binary", "csv", "jsonl"} /\ f \in Seq(CellSet)
      /\ n \in Nat /\ b \in Nat /\ n - b \in Nat /\ k \in Nat /\ k <= n
  BY <1>1, Formatted, RunLogAssumption DEF TypeOK, LogState, FileOK
<1>3. Recovered(fmt, file) = Recovered(format, f)
  BY <1>1
<1>4. RecoveredIsPrefix
  <2> SUFFICES ASSUME faults = 0 PROVE RecoveredIsPrefix
    BY DEF RecoveredIsPrefix
  <2>1. Begins(Width(format), f, Len(f)) /\ Len(f) <= n * Width(format)
    BY <1>1 DEF LogState, FileOK
  <2> DEFINE rows == Recovered(format, f)
             whole == IF format = "csv" /\ rows # << >> THEN SubSeq(rows, 1, Len(rows) - 1) ELSE rows
  <2>2. whole = AllRows(Len(whole)) /\ Len(rows) <= n
    BY <1>2, <2>1, StateIsRead
  <2> QED BY <1>1, <1>3, <2>2 DEF RecoveredIsPrefix
<1>5. KillLosesLessThanABatch
  <2> SUFFICES ASSUME faults = 0, phase \in {"open", "killed", "closed"}
               PROVE  KillLosesLessThanABatch
    BY DEF KillLosesLessThanABatch
  <2>1. /\ Begins(Width(format), f, Len(f)) /\ (n - b) * Width(format) <= Len(f)
        /\ buffered < FlushEvery
    BY <1>1 DEF LogState, FileOK
  <2>2. Begins(Width(format), f, (n - b) * Width(format))
    <3> DEFINE c == (n - b) * Width(format)
    <3>1. c \in Nat
      BY <1>2, WidthType
    <3> HIDE DEF c
    <3>2. Begins(Width(format), f, c)
      BY <1>2, <2>1, <3>1 DEF Begins, c
    <3> QED BY <3>2 DEF c
  <2>3. Starts(AllRows(n - b), Recovered(format, f))
    BY <1>2, <2>2, RecoveredKeeps
  <2>4. n - b <= Len(Recovered(format, f))
    BY <1>2, <2>3, AllRowsFacts DEF Starts
  <2>5. Len(Recovered(format, f)) \in Nat
    BY <1>2, RecoveredType
  <2>6. samples <= n - b
    BY <1>1, <1>2 DEF LogState, FileOK
  <2>7. samples \in Nat /\ FlushEvery \in Nat
    BY RunLogAssumption DEF TypeOK
  <2> QED BY <1>1, <1>2, <1>3, <2>1, <2>4, <2>5, <2>6, <2>7 DEF KillLosesLessThanABatch
<1>6. FinalIsWhole
  <2> SUFFICES ASSUME faults = 0, phase = "closed" PROVE FinalIsWhole
    BY DEF FinalIsWhole
  <2>1. /\ Begins(Width(format), f, Len(f)) /\ Len(f) <= n * Width(format)
        /\ (n - b) * Width(format) <= Len(f)
        /\ b = 0 /\ samples = n /\ final = Recovered(format, f)
    BY <1>1 DEF LogState, FileOK
  <2>2. n - b = n
    BY <1>2, <2>1
  <2>3. Recovered(format, f) = AllRows(n)
    BY <1>2, <2>1, <2>2, StateIsRead
  <2> QED BY <1>1, <2>1, <2>3 DEF FinalIsWhole
<1>7. ColumnsAreAligned
  <2> SUFFICES ASSUME fmt # "csv" PROVE ColumnsAreAligned
    BY DEF ColumnsAreAligned
  <2> DEFINE rows == Recovered(format, f)
  <2>1. \A j \in DOMAIN rows : Len(rows[j]) = Cells
    BY <1>1, <1>2, RecoveredType
  <2> HIDE DEF rows
  <2>2. \A i \in 1 .. Cells : Columns(rows)[i] = DOMAIN rows
    BY <2>1, Constants DEF Columns
  <2> QED BY <1>3, <2>2 DEF ColumnsAreAligned, rows
<1>8. RefusalSparesEarlierRows
  <2> SUFFICES ASSUME phase # "off" PROVE RefusalSparesEarlierRows
    BY DEF RefusalSparesEarlierRows
  <2>1. Begins(Width(format), f, k * Width(format))
    BY <1>1 DEF LogState, FileOK
  <2> DEFINE rows == Recovered(format, f)
  <2>2. Starts(AllRows(k), rows)
    BY <1>2, <2>1, RecoveredKeeps
  <2>3. rows \in Seq(Seq(CellSet))
    BY <1>2, RecoveredType
  <2> HIDE DEF rows
  <2>4. Len(rows) >= k /\ \A j \in 1 .. k : rows[j] = Row(j)
    BY <1>2, <2>2, <2>3, AllRowsFacts DEF Starts
  <2>5. SubSeq(rows, 1, k) = AllRows(k)
    BY <1>2, <2>3, <2>4 DEF AllRows
  <2> QED BY <1>1, <1>3, <2>4, <2>5 DEF RefusalSparesEarlierRows, rows
<1> QED BY <1>4, <1>5, <1>6, <1>7, <1>8 DEF LogInv

-----------------------------------------------------------------------------
(* What a write makes of a file.                                           *)

\* n rows from the one after the first: BatchWith, without the log's state.
Rows(width, first, n) == [i \in 1 .. n * width |-> Cell(width, first * width + i)]

LEMMA RowsType ==
  ASSUME NEW width \in Nat, width >= 1, width <= Newline, NEW first \in Nat, NEW n \in Nat
  PROVE  /\ Rows(width, first, n) \in Seq(CellSet)
         /\ Len(Rows(width, first, n)) = n * width
         /\ SubSeq(Rows(width, first, n), 1, n * width) = Rows(width, first, n)
<1> DEFINE a == first * width
           c == n * width
<1>1. a \in Nat /\ c \in Nat
  OBVIOUS
<1>2. Rows(width, first, n) = [i \in 1 .. c |-> Cell(width, a + i)]
  BY DEF Rows
<1> HIDE DEF a, c
<1>3. \A i \in 1 .. c : Cell(width, a + i) \in CellSet
  <2>1. TAKE i \in 1 .. c
  <2>2. a + i \in Nat /\ a + i >= 1
    BY <1>1
  <2> QED BY <2>2, CellType
<1>4. Rows(width, first, n) \in Seq(CellSet) /\ Len(Rows(width, first, n)) = c
  BY <1>1, <1>2, <1>3
<1>5. SubSeq(Rows(width, first, n), 1, c) = Rows(width, first, n)
  BY <1>4, SubSeqFull
<1> QED BY <1>4, <1>5 DEF c

\* Whatever of a batch reaches the file, what the file begins with it keeps,
\* and if it is all the rows up to the batch it is so after it.
LEMMA WriteKeeps ==
  ASSUME NEW width \in Nat, width >= 1, width <= Newline, NEW f \in Seq(CellSet),
         NEW first \in Nat, NEW n \in Nat, NEW m \in Nat, m <= n * width
  PROVE  LET g == f \o SubSeq(Rows(width, first, n), 1, m)
         IN  /\ g \in Seq(CellSet) /\ Len(g) = Len(f) + m
             /\ \A k \in Nat : Begins(width, f, k) => Begins(width, g, k)
             /\ Begins(width, f, Len(f)) /\ Len(f) = first * width => Begins(width, g, Len(g))
<1> DEFINE b == Rows(width, first, n)
           c == n * width
           p == SubSeq(b, 1, m)
           g == f \o p
           a == first * width
<1>1. b \in Seq(CellSet) /\ Len(b) = c /\ c \in Nat /\ m <= c /\ a \in Nat
  <2>1. c \in Nat /\ m <= c /\ a \in Nat
    OBVIOUS
  <2>2. b \in Seq(CellSet) /\ Len(b) = c
    BY RowsType
  <2> QED BY <2>1, <2>2
<1>2. \A i \in 1 .. c : b[i] = Cell(width, a + i)
  BY DEF Rows
<1> HIDE DEF a, b, c
<1>3. \A i \in 1 .. m : b[i] \in CellSet
  BY <1>1
<1>4. p \in Seq(CellSet) /\ Len(p) = m /\ \A i \in 1 .. m : p[i] = b[i]
  BY <1>1, <1>3
<1> HIDE DEF p
<1>5. /\ g \in Seq(CellSet) /\ Len(g) = Len(f) + m
      /\ \A i \in 1 .. Len(f) : g[i] = f[i]
      /\ \A i \in 1 .. m : g[Len(f) + i] = p[i]
  BY <1>4
<1> HIDE DEF g
<1>6. \A k \in Nat : Begins(width, f, k) => Begins(width, g, k)
  BY <1>5 DEF Begins
<1>7. ASSUME Begins(width, f, Len(f)), Len(f) = a PROVE Begins(width, g, Len(g))
  <2>1. ASSUME NEW i \in 1 .. Len(g) PROVE g[i] = Cell(width, i)
    <3>1. CASE i \in 1 .. Len(f)
      BY <1>5, <1>7, <3>1 DEF Begins
    <3>2. CASE i \notin 1 .. Len(f)
      <4> DEFINE j == i - Len(f)
      <4>1. j \in 1 .. m /\ i = Len(f) + j
        BY <1>5, <3>2
      <4> HIDE DEF j
      <4>2. j \in 1 .. c
        BY <1>1, <4>1
      <4>3. g[i] = b[j]
        BY <1>4, <1>5, <4>1
      <4>4. b[j] = Cell(width, a + j)
        BY <1>2, <4>2
      <4> QED BY <1>7, <4>1, <4>3, <4>4
    <3> QED BY <3>1, <3>2
  <2>2. Len(g) \in Nat
    BY <1>5
  <2> QED BY <2>1, <2>2 DEF Begins
<1>8. /\ g \in Seq(CellSet) /\ Len(g) = Len(f) + m
      /\ \A k \in Nat : Begins(width, f, k) => Begins(width, g, k)
      /\ Begins(width, f, Len(f)) /\ Len(f) = a => Begins(width, g, Len(g))
  BY <1>5, <1>6, <1>7
<1> QED BY <1>8, Zenon DEF g, p, b, a

-----------------------------------------------------------------------------
(* What each end of a write leaves, in the terms of the invariant.         *)

LEMMA StartKeeps ==
  ASSUME NEW w \in Nat, NEW f, NEW n \in Nat, NEW b \in 0 .. n, NEW k \in 0 .. n, NEW refused,
         FileOK(w, f, n, b, k, "new", refused)
  PROVE  FileOK(w, << >>, n, b, k, "open", refused)
<1>1. n = 0 /\ b = 0 /\ k = 0 /\ 0 * w = 0 /\ (n - b) * w = 0
  BY DEF FileOK
<1>2. << >> \in Seq(CellSet) /\ Len(<< >>) = 0 /\ Begins(w, << >>, 0)
  BY DEF Begins
<1>3. 0 < FlushEvery
  BY RunLogAssumption
<1> QED BY <1>1, <1>2, <1>3 DEF FileOK

LEMMA BufferKeeps ==
  ASSUME NEW w \in Nat, NEW f, NEW n \in Nat, NEW b \in 0 .. n, NEW k \in 0 .. n, NEW refused,
         FileOK(w, f, n, b, k, "open", refused), b + 1 < FlushEvery
  PROVE  FileOK(w, f, n + 1, b + 1, k, "open", refused)
<1>1. (n + 1) - (b + 1) = n - b
  OBVIOUS
<1>2. n * w <= (n + 1) * w /\ n * w \in Nat /\ (n + 1) * w \in Nat
  BY Times
<1> DEFINE x == n * w
           y == (n + 1) * w
<1>3. f \in Seq(CellSet) /\ (Len(f) <= x => Len(f) <= y)
  <2>1. f \in Seq(CellSet) /\ x \in Nat /\ y \in Nat /\ x <= y
    BY <1>2 DEF FileOK
  <2> HIDE DEF x, y
  <2> QED BY <2>1
<1> HIDE DEF x, y
<1>4. refused = 0 => /\ Begins(w, f, Len(f)) /\ Len(f) <= x /\ (n - b) * w <= Len(f)
                     /\ Len(f) = (n - b) * w
  BY DEF FileOK, x
<1>5. refused = 0 => Len(f) <= y
  BY <1>3, <1>4
<1>6. Begins(w, f, k * w)
  BY DEF FileOK
<1> QED BY <1>1, <1>3, <1>4, <1>5, <1>6 DEF FileOK, y

\* What of m cells of a batch of the next rows reaches the file.
LEMMA WriteFacts ==
  ASSUME NEW w \in Nat, w >= 1, w <= Newline, NEW f, NEW n \in Nat, NEW b \in 0 .. n,
         NEW k \in 0 .. n, NEW refused, FileOK(w, f, n, b, k, "open", refused),
         NEW e \in Nat, NEW m \in Nat, m <= e * w
  PROVE  LET g == f \o SubSeq(Rows(w, n - b, e), 1, m)
         IN  /\ g \in Seq(CellSet) /\ Begins(w, g, k * w)
             /\ refused = 0 => /\ Begins(w, g, Len(g)) /\ Len(g) = (n - b) * w + m
                               /\ b < FlushEvery
<1> DEFINE g == f \o SubSeq(Rows(w, n - b, e), 1, m)
<1>1. n - b \in Nat /\ f \in Seq(CellSet)
  BY DEF FileOK
<1>2. /\ g \in Seq(CellSet) /\ Len(g) = Len(f) + m
      /\ \A j \in Nat : Begins(w, f, j) => Begins(w, g, j)
      /\ Begins(w, f, Len(f)) /\ Len(f) = (n - b) * w => Begins(w, g, Len(g))
  BY <1>1, WriteKeeps
<1>3. k * w \in Nat /\ Begins(w, f, k * w)
  BY DEF FileOK
<1>4. refused = 0 => Begins(w, f, Len(f)) /\ Len(f) = (n - b) * w /\ b < FlushEvery
  BY DEF FileOK
<1> HIDE DEF g
<1>5. /\ g \in Seq(CellSet) /\ Begins(w, g, k * w)
      /\ refused = 0 => /\ Begins(w, g, Len(g)) /\ Len(g) = (n - b) * w + m
                        /\ b < FlushEvery
  BY <1>2, <1>3, <1>4
<1> QED BY <1>5, Zenon DEF g

LEMMA RefusedKeeps ==
  ASSUME NEW w \in Nat, w >= 1, w <= Newline, NEW f, NEW n \in Nat, NEW b \in 0 .. n,
         NEW k \in 0 .. n, NEW refused \in Nat, FileOK(w, f, n, b, k, "open", refused),
         NEW m \in Nat, m <= (b + 1) * w
  PROVE  FileOK(w, f \o SubSeq(Rows(w, n - b, b + 1), 1, m), n + 1, b + 1, k, "open", refused + 1)
<1> DEFINE g == f \o SubSeq(Rows(w, n - b, b + 1), 1, m)
<1>1. b + 1 \in Nat /\ refused + 1 # 0
  OBVIOUS
<1>2. g \in Seq(CellSet) /\ Begins(w, g, k * w)
  BY <1>1, WriteFacts
<1> HIDE DEF g
<1>3. FileOK(w, g, n + 1, b + 1, k, "open", refused + 1)
  BY <1>1, <1>2 DEF FileOK
<1> QED BY <1>3 DEF g

\* A batch that is written whole.
LEMMA BatchKeeps ==
  ASSUME NEW w \in Nat, w >= 1, w <= Newline, NEW f, NEW n \in Nat, NEW b \in 0 .. n,
         NEW k \in 0 .. n, NEW refused, FileOK(w, f, n, b, k, "open", refused),
         NEW e \in Nat, NEW ph \in {"open", "closed"}
  PROVE  FileOK(w, f \o Rows(w, n - b, e), (n - b) + e, 0,
                IF refused = 0 THEN (n - b) + e ELSE k, ph, refused)
<1> DEFINE m == e * w
           g == f \o SubSeq(Rows(w, n - b, e), 1, m)
           x == (n - b) * w
           t == (n - b) + e
<1>1. n - b \in Nat /\ m \in Nat /\ x \in Nat /\ t \in Nat /\ t * w = x + m /\ t - 0 = t
  OBVIOUS
<1>2. /\ g \in Seq(CellSet) /\ Begins(w, g, k * w)
      /\ refused = 0 => Begins(w, g, Len(g)) /\ Len(g) = x + m
  <2>1. m <= e * w
    BY <1>1
  <2>2. m \in Nat
    BY <1>1
  <2> HIDE DEF m
  <2>3. /\ g \in Seq(CellSet) /\ Begins(w, g, k * w)
        /\ refused = 0 => /\ Begins(w, g, Len(g)) /\ Len(g) = x + m
                          /\ b < FlushEvery
    BY <2>1, <2>2, WriteFacts, Zenon
  <2> QED BY <2>3
<1>3. g = f \o Rows(w, n - b, e)
  BY <1>1, RowsType
<1>4. 0 < FlushEvery
  BY RunLogAssumption
<1>5. ph # "new" /\ ph # "off"
  OBVIOUS
<1> HIDE DEF g, m, x, t
<1>6. refused = 0 => Begins(w, g, t * w) /\ Len(g) = t * w /\ t * w <= Len(g)
  BY <1>1, <1>2
<1>7. FileOK(w, g, t, 0, IF refused = 0 THEN t ELSE k, ph, refused)
  <2>1. Begins(w, g, (IF refused = 0 THEN t ELSE k) * w)
    BY <1>2, <1>6
  <2>2. refused = 0 => (t - 0) * w <= Len(g) /\ Len(g) = (t - 0) * w
    BY <1>1, <1>6
  <2>3. refused = 0 => Len(g) <= t * w
    BY <1>6, <2>2, <1>2, <1>1
  <2> QED BY <1>2, <1>4, <1>5, <2>1, <2>2, <2>3 DEF FileOK
<1> QED BY <1>3, <1>7, Zenon DEF t

LEMMA KilledKeeps ==
  ASSUME NEW w \in Nat, w >= 1, w <= Newline, NEW f, NEW n \in Nat, NEW b \in 0 .. n,
         NEW k \in 0 .. n, NEW refused, FileOK(w, f, n, b, k, "open", refused),
         NEW m \in Nat, m <= b * w
  PROVE  FileOK(w, f \o SubSeq(Rows(w, n - b, b), 1, m), n, b, k, "killed", refused)
<1> DEFINE g == f \o SubSeq(Rows(w, n - b, b), 1, m)
           x == (n - b) * w
           y == n * w
           z == b * w
<1>1. b \in Nat /\ x \in Nat /\ z \in Nat /\ y = x + z /\ m <= z
  OBVIOUS
<1>2. /\ g \in Seq(CellSet) /\ Begins(w, g, k * w)
      /\ refused = 0 => Begins(w, g, Len(g)) /\ Len(g) = x + m /\ b < FlushEvery
  BY <1>1, WriteFacts
<1> HIDE DEF g, x, y, z
<1>3. refused = 0 => Len(g) <= y /\ x <= Len(g)
  BY <1>1, <1>2
<1>4. FileOK(w, g, n, b, k, "killed", refused)
  BY <1>2, <1>3 DEF FileOK, x, y
<1> QED BY <1>4 DEF g

LEMMA CutKeeps ==
  ASSUME NEW w \in Nat, NEW f, NEW n \in Nat, NEW b \in 0 .. n, NEW k \in 0 .. n, NEW refused,
         FileOK(w, f, n, b, k, "open", refused), NEW m \in 0 .. Len(f)
  PROVE  FileOK(w, SubSeq(f, 1, m), n, b, k, "off", refused)
<1> DEFINE g == SubSeq(f, 1, m)
           y == n * w
<1>1. f \in Seq(CellSet) /\ y \in Nat
  BY DEF FileOK
<1>2. \A i \in 1 .. m : f[i] \in CellSet
  BY <1>1
<1>3. g \in Seq(CellSet) /\ Len(g) = m /\ \A i \in 1 .. m : g[i] = f[i]
  BY <1>1, <1>2
<1> HIDE DEF g, y
<1>4. refused = 0 => Begins(w, f, Len(f)) /\ Len(f) <= y /\ b < FlushEvery
  BY DEF FileOK, y
<1>5. refused = 0 => Begins(w, g, Len(g)) /\ Len(g) <= y
  BY <1>1, <1>3, <1>4 DEF Begins
<1>6. FileOK(w, g, n, b, k, "off", refused)
  BY <1>3, <1>4, <1>5 DEF FileOK, y
<1> QED BY <1>6 DEF g

-----------------------------------------------------------------------------
(* The invariant is inductive.                                             *)

LEMMA InitHolds == LogInit => IInv
<1> SUFFICES ASSUME LogInit PROVE IInv
  OBVIOUS
<1>1. PICK w : w = Width(fmt)
  OBVIOUS
<1>2. w \in Nat /\ 0 * w = 0 /\ (0 - 0) * w = 0
  BY <1>1, WidthType
<1>3. << >> \in Seq(CellSet) /\ Len(<< >>) = 0 /\ Begins(w, << >>, 0)
  BY DEF Begins
<1>4. TypeOK /\ 0 < FlushEvery
  BY RunLogAssumption DEF LogInit, TypeOK
<1>5. FileOK(w, << >>, 0, 0, 0, "new", 0)
  BY <1>2, <1>3, <1>4 DEF FileOK
<1>6. FileOK(Width(fmt), file, count, buffered, intact, phase, faults)
  BY <1>1, <1>5 DEF LogInit
<1>7. phase = "new" /\ samples = 0
  BY DEF LogInit
<1> QED BY <1>4, <1>6, <1>7 DEF IInv, LogState

LEMMA StepHolds == IInv /\ [LogNext]_logVars => IInv'
<1> SUFFICES ASSUME IInv, [LogNext]_logVars PROVE IInv'
  OBVIOUS
<1>1. PICK w, f, n, b, k, flt :
        /\ w = Width(fmt) /\ f = file /\ n = count /\ b = buffered /\ k = intact /\ flt = faults
  OBVIOUS
<1>2. TypeOK /\ LogState /\ FileOK(w, f, n, b, k, phase, flt)
  BY <1>1 DEF IInv, LogState
<1>3. w \in Nat /\ w >= 1 /\ w <= Newline
  BY <1>1, WidthType
<1>4. /\ n \in Nat /\ b \in 0 .. n /\ k \in 0 .. n /\ flt \in Nat /\ n <= MaxRows
      /\ flt <= MaxFaults /\ MaxRows \in Nat /\ MaxFaults \in Nat /\ FlushEvery \in Nat
      /\ FlushEvery >= 1 /\ since = b /\ n - b \in Nat /\ fmt \in Formats /\ b \in Nat
  BY <1>1, <1>2, RunLogAssumption DEF TypeOK
<1>5. \A e : BatchWith(e) = Rows(w, n - b, e)
  BY <1>1 DEF BatchWith, Rows
<1>6. \A e \in Nat : /\ Len(BatchWith(e)) = e * w /\ e * w \in Nat
                     /\ BatchWith(e) \in Seq(CellSet)
  <2> SUFFICES ASSUME NEW e \in Nat
               PROVE  /\ Len(BatchWith(e)) = e * w /\ e * w \in Nat
                      /\ BatchWith(e) \in Seq(CellSet)
    OBVIOUS
  <2>1. e * w \in Nat
    BY <1>3
  <2>2. /\ Rows(w, n - b, e) \in Seq(CellSet)
        /\ Len(Rows(w, n - b, e)) = e * w
    BY <1>3, <1>4, RowsType, Zenon
  <2> QED BY <1>5, <2>1, <2>2, Zenon
<1>7. phase \notin {"closed"} => samples = 0
  BY <1>2 DEF LogState
<1>8. CASE Start
  <2>1. fmt' = fmt /\ phase = "new" /\ phase' = "open" /\ file' = << >> /\ samples' = 0
        /\ count' = n /\ buffered' = b /\ since' = since /\ faults' = flt /\ intact' = k
    BY <1>1, <1>8 DEF Start
  <2>2. FileOK(w, << >>, n, b, k, "open", flt)
    BY <1>2, <1>3, <1>4, <2>1, StartKeeps
  <2>3. Width(fmt') = w
    BY <1>1, <2>1
  <2>4. TypeOK'
    BY <1>2, <1>1, <1>4, <2>1 DEF TypeOK
  <2> QED BY <2>1, <2>2, <2>3, <2>4 DEF IInv, LogState
<1>9. CASE AppendRow
  <2>1. fmt' = fmt /\ phase = "open" /\ phase' = "open" /\ samples' = samples
        /\ count' = n + 1 /\ n < MaxRows /\ faults' = flt /\ Width(fmt') = w
    BY <1>1, <1>9 DEF AppendRow, Appended
  <2>2. CASE Full(since + 1)
    <3>1. /\ file' = f \o BatchWith(b + 1) /\ buffered' = 0 /\ since' = 0
          /\ intact' = IF flt = 0 THEN n + 1 ELSE k
      BY <1>1, <1>9, <2>1, <2>2 DEF AppendRow
    <3>2. b + 1 \in Nat /\ (n - b) + (b + 1) = n + 1
      BY <1>4
    <3>3. FileOK(w, f \o Rows(w, n - b, b + 1), (n - b) + (b + 1), 0,
                 IF flt = 0 THEN (n - b) + (b + 1) ELSE k, "open", flt)
      BY <1>2, <1>3, <1>4, <2>1, <3>2, BatchKeeps
    <3>4. FileOK(w, file', n + 1, 0, intact', "open", flt)
      BY <1>5, <3>1, <3>2, <3>3
    <3>5. TypeOK'
      BY <1>1, <1>2, <1>4, <1>7, <2>1, <3>1 DEF TypeOK
    <3> QED BY <1>7, <2>1, <3>1, <3>4, <3>5 DEF IInv, LogState
  <2>3. CASE ~ Full(since + 1)
    <3>1. file' = f /\ buffered' = b + 1 /\ since' = since + 1 /\ intact' = k
      BY <1>1, <1>9, <2>3 DEF AppendRow
    <3>2. b + 1 < FlushEvery
      BY <1>4, <2>3 DEF Full
    <3>3. FileOK(w, f, n + 1, b + 1, k, "open", flt)
      BY <1>2, <1>3, <1>4, <2>1, <3>2, BufferKeeps
    <3>4. TypeOK'
      BY <1>1, <1>2, <1>4, <1>7, <2>1, <3>1 DEF TypeOK
    <3> QED BY <1>7, <2>1, <3>1, <3>3, <3>4 DEF IInv, LogState
  <2> QED BY <2>2, <2>3
<1>10. CASE AppendRefused
  <2>1. /\ fmt' = fmt /\ phase = "open" /\ phase' = "open" /\ samples' = samples
        /\ count' = n + 1 /\ n < MaxRows /\ faults' = flt + 1 /\ flt < MaxFaults
        /\ buffered' = b + 1 /\ since' = since + 1 /\ intact' = k /\ Width(fmt') = w
    BY <1>1, <1>10 DEF AppendRefused, Appended
  <2>2. PICK m \in 0 .. Len(BatchWith(b + 1)) - 1 : file' = f \o SubSeq(BatchWith(b + 1), 1, m)
    BY <1>1, <1>10 DEF AppendRefused
  <2>3. b + 1 \in Nat
    BY <1>4
  <2>4. m \in Nat /\ m <= (b + 1) * w
    <3> DEFINE c == (b + 1) * w
    <3>1. Len(BatchWith(b + 1)) = c /\ c \in Nat
      BY <1>6, <2>3, Zenon
    <3> HIDE DEF c
    <3>2. m \in Nat /\ m <= c
      BY <2>2, <3>1
    <3> QED BY <3>2 DEF c
  <2>5. FileOK(w, f \o SubSeq(Rows(w, n - b, b + 1), 1, m), n + 1, b + 1, k, "open", flt + 1)
    BY <1>2, <1>3, <1>4, <2>1, <2>4, RefusedKeeps
  <2>6. FileOK(w, file', n + 1, b + 1, k, "open", flt + 1)
    BY <1>5, <2>2, <2>5
  <2>7. TypeOK'
    BY <1>1, <1>2, <1>4, <1>7, <2>1 DEF TypeOK
  <2> QED BY <1>7, <2>1, <2>6, <2>7 DEF IInv, LogState
<1>11. CASE Finalize
  <2>1. /\ fmt' = fmt /\ phase = "open" /\ phase' = "closed" /\ samples' = n
        /\ count' = n /\ faults' = flt /\ buffered' = 0 /\ since' = 0
        /\ file' = f \o BatchWith(b) /\ final' = Recovered(fmt, file')
        /\ intact' = IF flt = 0 THEN n ELSE k
    BY <1>1, <1>11 DEF Finalize
  <2>2. Width(fmt') = w /\ (n - b) + b = n
    BY <1>1, <1>4, <2>1
  <2>3. FileOK(w, f \o Rows(w, n - b, b), (n - b) + b, 0,
               IF flt = 0 THEN (n - b) + b ELSE k, "closed", flt)
    BY <1>2, <1>3, <1>4, <2>1, BatchKeeps
  <2>4. FileOK(w, file', n, 0, intact', "closed", flt)
    BY <1>5, <2>1, <2>2, <2>3
  <2>5. TypeOK'
    BY <1>1, <1>2, <1>4, <2>1 DEF TypeOK
  <2>6. final' = Recovered(fmt', file')
    BY <2>1
  <2> QED BY <2>1, <2>2, <2>4, <2>5, <2>6 DEF IInv, LogState
<1>12. CASE Killed
  <2>1. /\ fmt' = fmt /\ phase = "open" /\ phase' = "killed" /\ samples' = samples
        /\ count' = n /\ faults' = flt /\ buffered' = b /\ since' = since /\ intact' = k
        /\ Width(fmt') = w
    BY <1>1, <1>12 DEF Killed
  <2>2. PICK m \in 0 .. Len(BatchWith(b)) : file' = f \o SubSeq(BatchWith(b), 1, m)
    BY <1>1, <1>12 DEF Killed
  <2>3. m \in Nat /\ m <= b * w
    BY <1>4, <1>6, <2>2
  <2>4. FileOK(w, f \o SubSeq(Rows(w, n - b, b), 1, m), n, b, k, "killed", flt)
    BY <1>2, <1>3, <1>4, <2>1, <2>3, KilledKeeps
  <2>5. FileOK(w, file', n, b, k, "killed", flt)
    BY <1>5, <2>2, <2>4
  <2>6. TypeOK'
    BY <1>1, <1>2, <1>4, <1>7, <2>1 DEF TypeOK
  <2> QED BY <1>7, <2>1, <2>5, <2>6 DEF IInv, LogState
<1>13. CASE PowerLost
  <2>1. /\ fmt' = fmt /\ phase = "open" /\ phase' = "off" /\ samples' = samples
        /\ count' = n /\ faults' = flt /\ buffered' = b /\ since' = since /\ intact' = k
        /\ Width(fmt') = w
    BY <1>1, <1>13 DEF PowerLost
  <2>2. PICK m \in 0 .. Len(f) : file' = SubSeq(f, 1, m)
    BY <1>1, <1>13 DEF PowerLost
  <2>3. FileOK(w, SubSeq(f, 1, m), n, b, k, "off", flt)
    BY <1>2, <1>3, <1>4, <2>1, <2>2, CutKeeps
  <2>4. TypeOK'
    BY <1>1, <1>2, <1>4, <1>7, <2>1 DEF TypeOK
  <2> QED BY <1>7, <2>1, <2>2, <2>3, <2>4 DEF IInv, LogState
<1>14. CASE UNCHANGED logVars
  <2>1. Recovered(fmt', file') = Recovered(fmt, file) /\ Width(fmt') = Width(fmt)
    BY <1>14 DEF logVars
  <2> QED BY <1>2, <1>14, <2>1 DEF IInv, LogState, TypeOK, logVars
<1> QED BY <1>8, <1>9, <1>10, <1>11, <1>12, <1>13, <1>14 DEF LogNext

(* Whatever ends a run without a refused write, the rows read back are a   *)
(* prefix of the rows appended, aligned in columns, less than a batch      *)
(* short, and all of them once finalised (RunLog.append, flush, finalize;  *)
(* recover_rows; load_node).                                               *)
THEOREM LogKept == LogSpec => []LogInv
<1>1. IInv => LogInv
  BY Reading
<1> QED BY <1>1, InitHolds, StepHolds, PTL DEF LogSpec

(* A refused write, or any number of them, spares the rows written before  *)
(* it (RunLog.flush, recover_rows).                                        *)
THEOREM EarlierRowsSpared == LogSpec => []RefusalSparesEarlierRows
<1>1. IInv => RefusalSparesEarlierRows
  BY Reading
<1> QED BY <1>1, InitHolds, StepHolds, PTL DEF LogSpec

-----------------------------------------------------------------------------
(* Digits.                                                                 *)

LEMMA Places ==
  /\ Base \in Nat /\ Base > 7
  /\ Base2 \in Nat /\ Base2 > 7 /\ Base4 \in Nat /\ Base4 > 7 /\ Base6 \in Nat /\ Base6 > 7
<1>1. Base \in Nat /\ Base > 7
  BY AirWireAssumption
<1>2. ASSUME NEW a \in Nat, NEW b \in Nat, a > 7, b > 7 PROVE a * b \in Nat /\ a * b > 7
  BY <1>2, Times
<1>3. Base2 \in Nat /\ Base2 > 7
  BY <1>1, <1>2 DEF Base2
<1>4. Base4 \in Nat /\ Base4 > 7
  BY <1>2, <1>3 DEF Base4
<1>5. Base6 \in Nat /\ Base6 > 7
  BY <1>2, <1>3, <1>4 DEF Base6
<1> QED BY <1>1, <1>3, <1>4, <1>5

LEMMA DivMod ==
  ASSUME NEW n \in Int, NEW a \in Nat, a > 0
  PROVE  /\ n \div a \in Int /\ n % a \in 0 .. a - 1 /\ a * (n \div a) \in Int
         /\ n = a * (n \div a) + (n % a)
OBVIOUS

\* A remainder is the only one below its divisor.
LEMMA OneRemainder ==
  ASSUME NEW a \in Nat, a > 0, NEW q \in Int, NEW r \in 0 .. a - 1, NEW n \in Int,
         n = a * q + r
  PROVE  n % a = r /\ n \div a = q
OBVIOUS

\* The low digits of a number are its lowest and those above them.
LEMMA Digits ==
  ASSUME NEW n \in Int, NEW a \in Nat, a > 0, NEW b \in Nat, b > 0
  PROVE  (n % a) + a * ((n \div a) % b) = n % (a * b)
<1> DEFINE q == n \div a
           r == n % a
           s == q \div b
           t == q % b
<1>1. q \in Int /\ r \in 0 .. a - 1 /\ a * q \in Int /\ n = a * q + r
  BY DivMod
<1>2. s \in Int /\ t \in 0 .. b - 1 /\ b * s \in Int /\ q = b * s + t
  <2> HIDE DEF q
  <2> QED BY <1>1, DivMod
<1> HIDE DEF q, r, s, t
<1>3. a * q = (a * b) * s + a * t
  <2>1. a * (b * s + t) = a * (b * s) + a * t
    BY <1>2
  <2>2. a * (b * s) = (a * b) * s
    BY <1>2
  <2> QED BY <1>2, <2>1, <2>2
<1>4. a * t \in Nat /\ a * t <= a * (b - 1) /\ a * (b - 1) = a * b - a
  <2>1. t \in Nat /\ b - 1 \in Nat /\ t <= b - 1
    BY <1>2
  <2>2. t * a \in Nat /\ t * a <= (b - 1) * a
    BY <2>1, Times
  <2>3. a * t = t * a /\ a * (b - 1) = (b - 1) * a /\ a * (b - 1) = a * b - a
    BY <2>1
  <2> QED BY <2>2, <2>3
<1> DEFINE c == a * b
           d == a * t
           e == c * s
<1>5. c \in Nat /\ c > 0 /\ e \in Int /\ d \in Nat /\ d <= c - a
  <2>1. c \in Nat /\ c > 0
    BY Times
  <2>2. e \in Int
    <3> HIDE DEF c
    <3> QED BY <1>2, <2>1
  <2> QED BY <1>4, <2>1, <2>2
<1>6. n = e + d + r
  <2>1. a * q = e + d
    BY <1>3
  <2> HIDE DEF c, d, e
  <2> QED BY <1>1, <1>5, <2>1
<1>7. n % c = d + r
  <2> HIDE DEF d
  <2>1. d + r \in 0 .. c - 1
    <3> HIDE DEF c, e
    <3> QED BY <1>1, <1>5
  <2>2. n = c * s + (d + r)
    <3>1. e = c * s
      OBVIOUS
    <3> HIDE DEF c, e
    <3> QED BY <1>1, <1>5, <1>6, <3>1
  <2> HIDE DEF c
  <2> QED BY <1>2, <1>5, <2>1, <2>2, OneRemainder
<1>8. r + d = n % c
  <2> HIDE DEF c, d, e
  <2> QED BY <1>1, <1>5, <1>7
<1> QED BY <1>8, Zenon DEF c, d, q, r, t

-----------------------------------------------------------------------------
(* Bytes in a packet.                                                      *)

\* What holds bytes from an offset on.
Carries(v, offset, bytes) ==
  /\ offset + Len(bytes) <= Len(v)
  /\ \A k \in 1 .. Len(bytes) : v[offset + k] = bytes[k]

LEMMA CatType ==
  ASSUME NEW a \in Seq(Int), NEW b \in Seq(Int)
  PROVE  a \o b \in Seq(Int) /\ Len(a \o b) = Len(a) + Len(b)
OBVIOUS

LEMMA PutType ==
  ASSUME NEW n \in Int
  PROVE  /\ Put16(n) \in Seq(Int) /\ Len(Put16(n)) = 2
         /\ Put32(n) \in Seq(Int) /\ Len(Put32(n)) = 4
         /\ Put48(n) \in Seq(Int) /\ Len(Put48(n)) = 6
<1>1. ASSUME NEW m \in Int PROVE Put16(m) \in Seq(Int) /\ Len(Put16(m)) = 2
  <2>1. m \div Base \in Int /\ m % Base \in Int /\ (m \div Base) % Base \in Int
    BY Places, DivMod
  <2> QED BY <2>1 DEF Put16
<1>2. n \div Base2 \in Int /\ n \div Base4 \in Int
  BY Places, DivMod
<1>3. Put32(n) \in Seq(Int) /\ Len(Put32(n)) = 4
  <2>1. Put16(n) \in Seq(Int) /\ Len(Put16(n)) = 2
        /\ Put16(n \div Base2) \in Seq(Int) /\ Len(Put16(n \div Base2)) = 2
    BY <1>1, <1>2
  <2>2. /\ Put16(n) \o Put16(n \div Base2) \in Seq(Int)
        /\ Len(Put16(n) \o Put16(n \div Base2)) = Len(Put16(n)) + Len(Put16(n \div Base2))
    BY <2>1, CatType, Zenon
  <2>3. Len(Put16(n) \o Put16(n \div Base2)) = 4
    BY <2>1, <2>2
  <2> QED BY <2>2, <2>3, Zenon DEF Put32
<1>4. Put48(n) \in Seq(Int) /\ Len(Put48(n)) = 6
  <2>1. Put16(n \div Base4) \in Seq(Int) /\ Len(Put16(n \div Base4)) = 2
    BY <1>1, <1>2
  <2>2. /\ Put32(n) \o Put16(n \div Base4) \in Seq(Int)
        /\ Len(Put32(n) \o Put16(n \div Base4)) = Len(Put32(n)) + Len(Put16(n \div Base4))
    BY <1>3, <2>1, CatType, Zenon
  <2>3. Len(Put32(n) \o Put16(n \div Base4)) = 6
    <3>1. Len(Put32(n) \o Put16(n \div Base4)) = 4 + 2
      BY <1>3, <2>1, <2>2, Zenon
    <3> QED BY <3>1
  <2> QED BY <2>2, <2>3, Zenon DEF Put48
<1> QED BY <1>1, <1>3, <1>4

\* Bytes carried where they were, before what is put behind them and behind
\* what is put before them.
LEMMA CarriesOn ==
  ASSUME NEW a \in Seq(Int), NEW b \in Seq(Int)
  PROVE  /\ a \o b \in Seq(Int) /\ Len(a \o b) = Len(a) + Len(b)
         /\ Carries(a \o b, 0, a) /\ Carries(a \o b, Len(a), b)
         /\ \A o \in Nat, c \in Seq(Int) :
              /\ Carries(a, o, c) => Carries(a \o b, o, c)
              /\ Carries(b, o, c) => Carries(a \o b, Len(a) + o, c)
<1>1. /\ a \o b \in Seq(Int) /\ Len(a \o b) = Len(a) + Len(b)
      /\ \A i \in 1 .. Len(a) : (a \o b)[i] = a[i]
      /\ \A i \in 1 .. Len(b) : (a \o b)[Len(a) + i] = b[i]
  OBVIOUS
<1>2. Carries(a \o b, 0, a) /\ Carries(a \o b, Len(a), b)
  BY <1>1 DEF Carries
<1> SUFFICES ASSUME NEW o \in Nat, NEW c \in Seq(Int)
             PROVE /\ Carries(a, o, c) => Carries(a \o b, o, c)
                   /\ Carries(b, o, c) => Carries(a \o b, Len(a) + o, c)
  BY <1>1, <1>2
<1>3. ASSUME Carries(a, o, c) PROVE Carries(a \o b, o, c)
  <2> DEFINE w == a \o b
  <2>1. Len(w) = Len(a) + Len(b) /\ \A i \in 1 .. Len(a) : w[i] = a[i]
    BY <1>1
  <2> HIDE DEF w
  <2>2. \A k \in 1 .. Len(c) : o + k \in 1 .. Len(a) /\ a[o + k] = c[k]
    BY <1>3 DEF Carries
  <2>3. o + Len(c) <= Len(w)
    BY <1>3, <2>1 DEF Carries
  <2>4. \A k \in 1 .. Len(c) : w[o + k] = c[k]
    BY <2>1, <2>2
  <2> QED BY <2>3, <2>4 DEF Carries, w
<1>4. ASSUME Carries(b, o, c) PROVE Carries(a \o b, Len(a) + o, c)
  <2> DEFINE w == a \o b
  <2>1. Len(w) = Len(a) + Len(b) /\ \A i \in 1 .. Len(b) : w[Len(a) + i] = b[i]
    BY <1>1
  <2> HIDE DEF w
  <2>2. \A k \in 1 .. Len(c) : /\ o + k \in 1 .. Len(b) /\ b[o + k] = c[k]
                               /\ Len(a) + o + k = Len(a) + (o + k)
    BY <1>4 DEF Carries
  <2>3. Len(a) + o + Len(c) <= Len(w)
    BY <1>4, <2>1 DEF Carries
  <2>4. \A k \in 1 .. Len(c) : w[Len(a) + o + k] = c[k]
    BY <2>1, <2>2
  <2> QED BY <2>3, <2>4 DEF Carries, w
<1> QED BY <1>3, <1>4

\* What is carried of what is carried.
LEMMA CarriesPart ==
  ASSUME NEW v \in Seq(Int), NEW a \in Seq(Int), NEW b \in Seq(Int), NEW o \in Nat,
         Carries(v, o, a \o b)
  PROVE  Carries(v, o, a) /\ Carries(v, o + Len(a), b)
<1> DEFINE w == a \o b
<1>1. /\ Len(w) = Len(a) + Len(b)
      /\ \A i \in 1 .. Len(a) : w[i] = a[i]
      /\ \A i \in 1 .. Len(b) : w[Len(a) + i] = b[i]
  OBVIOUS
<1>2. Carries(v, o, w)
  OBVIOUS
<1> HIDE DEF w
<1>3. Carries(v, o, a)
  <2>1. \A k \in 1 .. Len(a) : k \in 1 .. Len(w)
    BY <1>1
  <2>2. o + Len(a) <= Len(v)
    BY <1>1, <1>2 DEF Carries
  <2>3. \A k \in 1 .. Len(a) : v[o + k] = a[k]
    BY <1>1, <1>2, <2>1 DEF Carries
  <2> QED BY <2>2, <2>3 DEF Carries
<1>4. Carries(v, o + Len(a), b)
  <2>1. \A k \in 1 .. Len(b) : Len(a) + k \in 1 .. Len(w) /\ o + Len(a) + k = o + (Len(a) + k)
    BY <1>1
  <2>2. o + Len(a) + Len(b) <= Len(v)
    BY <1>1, <1>2 DEF Carries
  <2>3. \A k \in 1 .. Len(b) : v[o + Len(a) + k] = b[k]
    BY <1>1, <1>2, <2>1 DEF Carries
  <2> QED BY <2>2, <2>3 DEF Carries
<1> QED BY <1>3, <1>4

\* What was put is got back, but for what is above its width.
LEMMA GetPut ==
  ASSUME NEW v \in Seq(Int), NEW o \in Nat, NEW n \in Int
  PROVE  /\ Carries(v, o, Put16(n)) => Get16(v, o) = n % Base2
         /\ Carries(v, o, Put32(n)) => Get32(v, o) = n % Base4
         /\ Carries(v, o, Put48(n)) => Get48(v, o) = n % Base6
<1>1. ASSUME NEW m \in Int, NEW p \in Nat, Carries(v, p, Put16(m)) PROVE Get16(v, p) = m % Base2
  <2>1. v[p + 1] = m % Base /\ v[p + 1 + 1] = (m \div Base) % Base
    <3>1. Len(Put16(m)) = 2 /\ Put16(m)[1] = m % Base /\ Put16(m)[2] = (m \div Base) % Base
      BY DEF Put16
    <3>2. p + 1 + 1 = p + 2
      OBVIOUS
    <3> QED BY <1>1, <3>1, <3>2 DEF Carries
  <2>2. (m % Base) + Base * ((m \div Base) % Base) = m % (Base * Base)
    BY Places, Digits
  <2> QED BY <2>1, <2>2, Zenon DEF Get16, Byte, Base2
<1>2. n \div Base2 \in Int /\ n \div Base4 \in Int
  BY Places, DivMod
<1>3. ASSUME Carries(v, o, Put32(n)) PROVE Get32(v, o) = n % Base4
  <2>1. Carries(v, o, Put16(n)) /\ Carries(v, o + 2, Put16(n \div Base2))
    <3>1. /\ Put16(n) \in Seq(Int) /\ Len(Put16(n)) = 2
          /\ Put16(n \div Base2) \in Seq(Int)
      BY <1>2, PutType
    <3>2. Carries(v, o, Put16(n) \o Put16(n \div Base2))
      BY <1>3 DEF Put32
    <3>3. Carries(v, o, Put16(n)) /\ Carries(v, o + Len(Put16(n)), Put16(n \div Base2))
      BY <3>1, <3>2, CarriesPart
    <3> QED BY <3>1, <3>3
  <2>2. Get16(v, o) = n % Base2 /\ Get16(v, o + 2) = (n \div Base2) % Base2
    BY <1>1, <1>2, <2>1
  <2>3. (n % Base2) + Base2 * ((n \div Base2) % Base2) = n % (Base2 * Base2)
    BY Places, Digits
  <2> QED BY <2>2, <2>3, Zenon DEF Get32, Base4
<1>4. ASSUME Carries(v, o, Put48(n)) PROVE Get48(v, o) = n % Base6
  <2>1. Carries(v, o, Put32(n)) /\ Carries(v, o + 4, Put16(n \div Base4))
    <3>1. /\ Put32(n) \in Seq(Int) /\ Len(Put32(n)) = 4
          /\ Put16(n \div Base4) \in Seq(Int)
      BY <1>2, PutType
    <3>2. Carries(v, o, Put32(n) \o Put16(n \div Base4))
      BY <1>4 DEF Put48
    <3>3. Carries(v, o, Put32(n)) /\ Carries(v, o + Len(Put32(n)), Put16(n \div Base4))
      BY <3>1, <3>2, CarriesPart
    <3> QED BY <3>1, <3>3
  <2>2. Get32(v, o) = n % Base4 /\ Get16(v, o + 4) = (n \div Base4) % Base2
    BY <1>1, <1>2, <1>3, <2>1
  <2>3. (n % Base4) + Base4 * ((n \div Base4) % Base2) = n % (Base4 * Base2)
    <3>1. Base2 \in Nat /\ Base2 > 0 /\ Base4 \in Nat /\ Base4 > 0
      BY Places
    <3> QED BY <3>1, Digits, Zenon
  <2> QED BY <2>2, <2>3, Zenon DEF Get48, Base6
<1> QED BY <1>1, <1>3, <1>4

\* A signed field restores what its width holds.
LEMMA SignedBack ==
  ASSUME NEW x \in Int32
  PROVE  x \in Int /\ Signed(x % Base4) = x
<1> USE DEF Int32
<1>1. Base4 \in Nat /\ Base4 > 7
  BY Places
<1>2. Base4 \div 2 \in Nat /\ 2 * (Base4 \div 2) <= Base4
  BY <1>1
<1>3. CASE x >= 0
  <2>1. x % Base4 = x
    BY <1>1, <1>2, <1>3
  <2> QED BY <1>1, <1>2, <1>3, <2>1 DEF Signed
<1>4. CASE x < 0
  <2>1. x % Base4 = x + Base4
    <3>1. x = Base4 * (-1) + (x + Base4) /\ x + Base4 \in 0 .. Base4 - 1 /\ -1 \in Int /\ x \in Int
      BY <1>1, <1>2, <1>4
    <3> QED BY <1>1, <3>1, OneRemainder
  <2> QED BY <1>1, <1>2, <1>4, <2>1 DEF Signed
<1> QED BY <1>2, <1>3, <1>4

-----------------------------------------------------------------------------
(* What the frames are made of.                                            *)

Frame1(v, p) ==
  /\ v \in Seq(Int) /\ Len(v) = 16
  /\ Carries(v, 0, <<Version1, FlagBits(p), p.node, 0>>) /\ Carries(v, 4, Put16(p.seq))
  /\ Carries(v, 6, Put32(p.vstate[1])) /\ Carries(v, 10, Put48(p.time))

Frame2(v, p) ==
  /\ v \in Seq(Int) /\ Len(v) = 19
  /\ Carries(v, 0, <<Version2, FlagBits(p), p.node>>) /\ Carries(v, 3, Put16(p.seq))
  /\ Carries(v, 5, Put32(p.vstate[1])) /\ Carries(v, 9, Put32(p.vstate[2]))
  /\ Carries(v, 13, Put48(p.time))

Framed(v, p) == IF Len(p.vstate) = 2 THEN Frame2(v, p) ELSE Frame1(v, p)

\* Four pieces, one after another.
InARow(v, a, b, c, d) ==
  /\ v \in Seq(Int) /\ Len(v) = Len(a) + Len(b) + Len(c) + Len(d)
  /\ Carries(v, 0, a) /\ Carries(v, Len(a), b)
  /\ Carries(v, Len(a) + Len(b), c)
  /\ Carries(v, Len(a) + Len(b) + Len(c), d)

LEMMA Append4 ==
  ASSUME NEW a \in Seq(Int), NEW b \in Seq(Int), NEW c \in Seq(Int), NEW d \in Seq(Int)
  PROVE  InARow(a \o b \o c \o d, a, b, c, d)
<1>c. PICK v : v = a \o b \o c \o d
  OBVIOUS
<1> DEFINE x == a \o b
           y == x \o c
<1>v. v = y \o d
  BY <1>c
<1>a. Len(a) \in Nat /\ Len(b) \in Nat /\ Len(c) \in Nat /\ Len(d) \in Nat
  OBVIOUS
<1>1. x \in Seq(Int) /\ Len(x) = Len(a) + Len(b) /\ Carries(x, 0, a) /\ Carries(x, Len(a), b)
  BY CarriesOn
<1> HIDE DEF x
<1>2. /\ y \in Seq(Int) /\ Len(y) = Len(x) + Len(c)
      /\ Carries(y, 0, a) /\ Carries(y, Len(a), b) /\ Carries(y, Len(x), c)
  BY <1>a, <1>1, CarriesOn
<1> HIDE DEF y
<1>b. Len(x) \in Nat
  BY <1>1
<1>3. /\ v \in Seq(Int) /\ Len(v) = Len(y) + Len(d)
      /\ Carries(v, 0, a) /\ Carries(v, Len(a), b) /\ Carries(v, Len(x), c)
      /\ Carries(v, Len(y), d)
  <2>1. y \o d \in Seq(Int) /\ Len(y \o d) = Len(y) + Len(d) /\ Carries(y \o d, Len(y), d)
    BY <1>2, CarriesOn, Zenon
  <2>2. /\ Carries(y \o d, 0, a) /\ Carries(y \o d, Len(a), b) /\ Carries(y \o d, Len(x), c)
    <3>1. 0 \in Nat
      OBVIOUS
    <3> QED BY <3>1, <1>a, <1>b, <1>2, CarriesOn, Zenon
  <2> QED BY <1>v, <2>1, <2>2, Zenon
<1>4. /\ v \in Seq(Int) /\ Len(v) = Len(a) + Len(b) + Len(c) + Len(d)
      /\ Carries(v, 0, a) /\ Carries(v, Len(a), b)
      /\ Carries(v, Len(a) + Len(b), c)
      /\ Carries(v, Len(a) + Len(b) + Len(c), d)
  BY <1>a, <1>1, <1>2, <1>3
<1> QED BY <1>c, <1>4, Zenon DEF InARow

LEMMA CarriesFirst ==
  ASSUME NEW v \in Seq(Int), NEW d \in Seq(Int), NEW o \in Nat, NEW c \in Seq(Int), Carries(v, o, c)
  PROVE  Carries(v \o d, o, c)
BY CarriesOn

LEMMA PacketFields ==
  ASSUME NEW p \in Packets
  PROVE  /\ p.node \in Int /\ p.node # 0 /\ FlagBits(p) \in Int /\ p.seq \in Int /\ p.time \in Int
         /\ p.vstate[1] \in Int32 /\ p.vstate[1] \in Int
         /\ Len(p.vstate) = 1 \/ Len(p.vstate) = 2
         /\ Len(p.vstate) = 2 => p.vstate[2] \in Int32 /\ p.vstate[2] \in Int
<1>1. /\ p.node \in 1 .. Base - 1 /\ p.vstate \in Seq(Int32) /\ p.seq \in 0 .. Base2 - 1
      /\ p.time \in Nat /\ Len(p.vstate) \in {1, 2}
  BY DEF Packets
<1>2. Int32 \subseteq Int
  BY Places DEF Int32
<1>3. FlagBits(p) \in Int
  BY DEF FlagBits
<1>4. p.vstate[1] \in Int32 /\ (Len(p.vstate) = 2 => p.vstate[2] \in Int32)
  BY <1>1
<1>5. p.node \in Int /\ p.node # 0 /\ p.seq \in Int /\ p.time \in Int
  BY <1>1, Places
<1>6. /\ p.vstate[1] \in Int
      /\ Len(p.vstate) = 2 => p.vstate[2] \in Int
  BY <1>2, <1>4, Zenon
<1>7. Len(p.vstate) = 1 \/ Len(p.vstate) = 2
  BY <1>1, Zenon
<1> QED BY <1>3, <1>4, <1>5, <1>6, <1>7, Zenon

\* The frame of StatePacket.encode.
LEMMA PyFrames ==
  ASSUME NEW p \in Packets
  PROVE  Framed(PyEncode(p), p)
<1> DEFINE x == Put32(p.vstate[1])
           q == Put32(p.vstate[2])
           n == Put16(p.seq)
           t == Put48(p.time)
           h1 == <<Version1, FlagBits(p), p.node, 0>>
           h2 == <<Version2, FlagBits(p), p.node>>
<1>1. /\ x \in Seq(Int) /\ Len(x) = 4 /\ n \in Seq(Int) /\ Len(n) = 2 /\ t \in Seq(Int) /\ Len(t) = 6
      /\ Len(p.vstate) = 2 => q \in Seq(Int) /\ Len(q) = 4
  BY PacketFields, PutType
<1>2. h1 \in Seq(Int) /\ Len(h1) = 4 /\ h2 \in Seq(Int) /\ Len(h2) = 3
  BY PacketFields DEF Version1, Version2
<1>3. CASE Len(p.vstate) = 2
  <2>1. PyEncode(p) = h2 \o n \o x \o q \o t
    BY <1>3 DEF PyEncode
  <2> HIDE DEF x, q, n, t, h1, h2
  <2>a. PICK v : v = h2 \o n \o x \o q
    OBVIOUS
  <2>2. /\ v \in Seq(Int) /\ Len(v) = Len(h2) + Len(n) + Len(x) + Len(q)
        /\ Carries(v, 0, h2) /\ Carries(v, Len(h2), n) /\ Carries(v, Len(h2) + Len(n), x)
        /\ Carries(v, Len(h2) + Len(n) + Len(x), q)
    <3>1. InARow(h2 \o n \o x \o q, h2, n, x, q)
      BY <1>1, <1>2, <1>3, Append4, Zenon
    <3> QED BY <2>a, <3>1, Zenon DEF InARow
  <2>3. /\ Len(v) = 13 /\ Carries(v, 0, h2) /\ Carries(v, 3, n) /\ Carries(v, 5, x)
        /\ Carries(v, 9, q)
    <3>1. Len(q) = 4
      BY <1>1, <1>3
    <3> QED BY <1>1, <1>2, <2>2, <3>1
  <2>4. v \o t \in Seq(Int) /\ Len(v \o t) = Len(v) + Len(t) /\ Carries(v \o t, Len(v), t)
    BY <1>1, <2>2, CarriesOn
  <2>5. /\ Carries(v \o t, 0, h2) /\ Carries(v \o t, 3, n) /\ Carries(v \o t, 5, x)
        /\ Carries(v \o t, 9, q)
    BY <1>1, <1>2, <1>3, <2>2, <2>3, CarriesFirst
  <2>6. PyEncode(p) = v \o t
    BY <2>1, <2>a, Zenon
  <2>7. Len(v \o t) = 19 /\ Carries(v \o t, 13, t)
    <3> DEFINE w == v \o t
    <3>1. Len(w) = Len(v) + Len(t) /\ Carries(w, Len(v), t)
      BY <2>4
    <3> HIDE DEF w
    <3>2. Len(w) = 19 /\ Carries(w, 13, t)
      BY <1>1, <2>3, <3>1
    <3> QED BY <3>2 DEF w
  <2>8. Frame2(v \o t, p)
    BY <2>4, <2>5, <2>7, Zenon DEF Frame2, x, q, n, t, h2
  <2> QED BY <1>3, <2>6, <2>8, Zenon DEF Framed
<1>4. CASE Len(p.vstate) = 1
  <2>1. PyEncode(p) = h1 \o n \o x \o t
    BY <1>4 DEF PyEncode
  <2> HIDE DEF x, q, n, t, h1, h2
  <2>a. PICK v : v = h1 \o n \o x \o t
    OBVIOUS
  <2>2. /\ v \in Seq(Int) /\ Len(v) = Len(h1) + Len(n) + Len(x) + Len(t)
        /\ Carries(v, 0, h1) /\ Carries(v, Len(h1), n) /\ Carries(v, Len(h1) + Len(n), x)
        /\ Carries(v, Len(h1) + Len(n) + Len(x), t)
    <3>1. InARow(h1 \o n \o x \o t, h1, n, x, t)
      BY <1>1, <1>2, Append4, Zenon
    <3> QED BY <2>a, <3>1, Zenon DEF InARow
  <2>3. /\ Len(v) = 16 /\ Carries(v, 0, h1) /\ Carries(v, 4, n) /\ Carries(v, 6, x)
        /\ Carries(v, 10, t)
    BY <1>1, <1>2, <2>2
  <2>4. Frame1(v, p)
    BY <2>2, <2>3, Zenon DEF Frame1, x, n, t, h1
  <2>5. Len(p.vstate) # 2
    BY <1>4
  <2>6. PyEncode(p) = v
    BY <2>1, <2>a, Zenon
  <2> QED BY <2>4, <2>5, <2>6, Zenon DEF Framed
<1> QED BY <1>3, <1>4, PacketFields

LEMMA Reserved ==
  ASSUME NEW a \in Int, NEW b \in Int, NEW c \in Int
  PROVE  <<a, b, c>> \o <<0>> = <<a, b, c, 0>>
<1> DEFINE u == <<a, b, c>>
           z == <<0>>
           t == <<a, b, c, 0>>
<1>1. u \in Seq(Int) /\ Len(u) = 3 /\ z \in Seq(Int) /\ Len(z) = 1 /\ t \in Seq(Int) /\ Len(t) = 4
  OBVIOUS
<1>2. u[1] = t[1] /\ u[2] = t[2] /\ u[3] = t[3] /\ z[1] = t[4]
  OBVIOUS
<1> HIDE DEF u, z, t
<1> DEFINE w == u \o z
<1>3. /\ w \in Seq(Int) /\ Len(w) = Len(u) + Len(z)
      /\ Carries(w, 0, u) /\ Carries(w, Len(u), z)
  BY <1>1, CarriesOn, Zenon
<1> HIDE DEF w
<1>4. Len(w) = 4 /\ \A i \in 1 .. 4 : w[i] = t[i]
  <2>1. w[0 + 1] = u[1] /\ w[0 + 2] = u[2] /\ w[0 + 3] = u[3] /\ w[3 + 1] = z[1]
    BY <1>1, <1>3 DEF Carries
  <2> QED BY <1>1, <1>2, <1>3, <2>1
<1>5. w = t
  BY <1>1, <1>3, <1>4, SeqEqual
<1> QED BY <1>5, Zenon DEF w, u, z, t

LEMMA Associates ==
  ASSUME NEW a \in Seq(Int), NEW b \in Seq(Int), NEW c \in Seq(Int)
  PROVE  (a \o b) \o c = a \o (b \o c)
OBVIOUS

\* The board packs the same frame, behind the company.
LEMMA CEncodes ==
  ASSUME NEW p \in Packets
  PROVE  CEncode(p) = Put16(Company) \o PyEncode(p)
<1> DEFINE x == Put32(p.vstate[1])
           q == Put32(p.vstate[2])
           n == Put16(p.seq)
           t == Put48(p.time)
           k == Put16(Company)
           h1 == <<Version1, FlagBits(p), p.node, 0>>
           h2 == <<Version2, FlagBits(p), p.node>>
           h3 == <<Version1, FlagBits(p), p.node>>
<1>1. /\ x \in Seq(Int) /\ n \in Seq(Int) /\ t \in Seq(Int) /\ k \in Seq(Int)
      /\ Len(p.vstate) = 2 => q \in Seq(Int)
  <2>1. Company \in Int
    BY DEF Company
  <2> HIDE DEF x, q, n, t
  <2> QED BY <2>1, PacketFields, PutType, Zenon DEF x, q, n, t
<1>2. h1 \in Seq(Int) /\ h2 \in Seq(Int) /\ h3 \in Seq(Int)
  BY PacketFields DEF Version1, Version2
<1>3. CASE Len(p.vstate) = 2
  <2>1. PyEncode(p) = h2 \o n \o x \o q \o t
    BY <1>3 DEF PyEncode
  <2>2. CEncode(p) = k \o (h2 \o n \o x \o q) \o t
    BY <1>3 DEF CEncode
  <2> HIDE DEF x, q, n, t, h1, h2, h3, k
  <2>3. h2 \o n \in Seq(Int)
    BY <1>1, <1>2, CatType
  <2>4. h2 \o n \o x \in Seq(Int)
    BY <1>1, <2>3, CatType, Zenon
  <2>5. h2 \o n \o x \o q \in Seq(Int)
    BY <1>1, <1>3, <2>4, CatType, Zenon
  <2>6. k \o (h2 \o n \o x \o q) \o t = k \o ((h2 \o n \o x \o q) \o t)
    BY <1>1, <2>5, Associates, Zenon
  <2> QED BY <2>1, <2>2, <2>6, Zenon DEF k
<1>4. CASE Len(p.vstate) = 1
  <2>1. PyEncode(p) = h1 \o n \o x \o t
    BY <1>4 DEF PyEncode
  <2>2. CEncode(p) = k \o (h3 \o <<0>> \o n \o x) \o t
    BY <1>4 DEF CEncode
  <2>3. h3 \o <<0>> = h1
    <3>1. Version1 \in Int /\ FlagBits(p) \in Int /\ p.node \in Int
      BY PacketFields DEF Version1
    <3> QED BY <3>1, Reserved
  <2> HIDE DEF x, q, n, t, h1, h2, h3, k
  <2>4. h1 \o n \in Seq(Int)
    BY <1>1, <1>2, CatType
  <2>5. h1 \o n \o x \in Seq(Int)
    BY <1>1, <2>4, CatType, Zenon
  <2>6. k \o (h1 \o n \o x) \o t = k \o ((h1 \o n \o x) \o t)
    BY <1>1, <2>5, Associates, Zenon
  <2> QED BY <2>1, <2>2, <2>3, <2>6, Zenon DEF k
<1> QED BY <1>3, <1>4, PacketFields

-----------------------------------------------------------------------------
(* What is read of a frame.                                                *)

\* A packet once its time is cut to six bytes.
Cut(p) == [p EXCEPT !.time = @ % Base6]

LEMMA CutFields ==
  ASSUME NEW p \in Packets
  PROVE  /\ Cut(p) = [node |-> p.node, vstate |-> p.vstate, seq |-> p.seq,
                      time |-> p.time % Base6, enabled |-> p.enabled,
                      disturbance |-> p.disturbance]
         /\ p.time < Base6 => Cut(p) = p
<1>1. Cut(p) = [node |-> p.node, vstate |-> p.vstate, seq |-> p.seq,
                time |-> p.time % Base6, enabled |-> p.enabled, disturbance |-> p.disturbance]
  BY DEF Cut, Packets
<1>2. ASSUME p.time < Base6 PROVE Cut(p) = p
  <2>1. p.time \in Nat
    BY DEF Packets
  <2>2. p.time % Base6 = p.time
    BY <1>2, <2>1, Places
  <2> QED BY <2>2 DEF Cut, Packets
<1> QED BY <1>1, <1>2

LEMMA FlagsRead ==
  ASSUME NEW p \in Packets
  PROVE  EnabledBit(FlagBits(p)) = p.enabled /\ DisturbanceBit(FlagBits(p)) = p.disturbance
<1>1. p.enabled \in BOOLEAN /\ p.disturbance \in BOOLEAN
  BY DEF Packets
<1>b. EnabledBit(FlagBits(p)) \in BOOLEAN /\ DisturbanceBit(FlagBits(p)) \in BOOLEAN
  BY Zenon DEF EnabledBit, DisturbanceBit
<1>2. CASE p.enabled = TRUE /\ p.disturbance = TRUE
  <2>1. FlagBits(p) = 3
    BY <1>2 DEF FlagBits
  <2>2. EnabledBit(3) /\ DisturbanceBit(3)
    BY DEF EnabledBit, DisturbanceBit
  <2> QED BY <1>2, <2>1, <2>2, Zenon
<1>3. CASE p.enabled = TRUE /\ p.disturbance = FALSE
  <2>1. FlagBits(p) = 1
    BY <1>3 DEF FlagBits
  <2>2. EnabledBit(1) /\ ~ DisturbanceBit(1)
    BY DEF EnabledBit, DisturbanceBit
  <2> QED BY <1>b, <1>3, <2>1, <2>2, Zenon
<1>4. CASE p.enabled = FALSE /\ p.disturbance = TRUE
  <2>1. FlagBits(p) = 2
    BY <1>4 DEF FlagBits
  <2>2. ~ EnabledBit(2) /\ DisturbanceBit(2)
    BY DEF EnabledBit, DisturbanceBit
  <2> QED BY <1>b, <1>4, <2>1, <2>2, Zenon
<1>5. CASE p.enabled = FALSE /\ p.disturbance = FALSE
  <2>1. FlagBits(p) = 0
    BY <1>5 DEF FlagBits
  <2>2. ~ EnabledBit(0) /\ ~ DisturbanceBit(0)
    BY DEF EnabledBit, DisturbanceBit
  <2> QED BY <1>b, <1>5, <2>1, <2>2, Zenon
<1> QED BY <1>1, <1>2, <1>3, <1>4, <1>5

LEMMA SeqRead ==
  ASSUME NEW p \in Packets
  PROVE  p.seq % Base2 = p.seq
<1>1. p.seq \in 0 .. Base2 - 1
  BY DEF Packets
<1> QED BY <1>1, Places

LEMMA SignedRead ==
  ASSUME NEW v \in Seq(Int), NEW o \in Nat, NEW x \in Int32, Carries(v, o, Put32(x))
  PROVE  Signed(Get32(v, o)) = x
<1>1. x \in Int /\ Signed(x % Base4) = x
  BY SignedBack
<1>2. Get32(v, o) = x % Base4
  BY <1>1, GetPut
<1> QED BY <1>1, <1>2, Zenon

\* All of a packet is in what its two decoders make of its bytes.
LEMMA Restored ==
  ASSUME NEW p \in Packets
  PROVE  Decoded(p.node, p.vstate, p.seq % Base2, p.time % Base6,
                 EnabledBit(FlagBits(p)), DisturbanceBit(FlagBits(p))) = Reads(Cut(p))
<1>1. /\ p.seq % Base2 = p.seq /\ EnabledBit(FlagBits(p)) = p.enabled
      /\ DisturbanceBit(FlagBits(p)) = p.disturbance
  BY SeqRead, FlagsRead
<1>2. Cut(p) = [node |-> p.node, vstate |-> p.vstate, seq |-> p.seq,
                time |-> p.time % Base6, enabled |-> p.enabled, disturbance |-> p.disturbance]
  BY CutFields
<1> QED BY <1>1, <1>2, Zenon DEF Decoded, Reads

LEMMA OneLong ==
  ASSUME NEW s \in Seq(Int32)
  PROVE  /\ Len(s) = 1 => s = <<s[1]>>
         /\ Len(s) = 2 => s = <<s[1], s[2]>>
OBVIOUS

LEMMA Read1 ==
  ASSUME NEW p \in Packets, NEW v, Frame1(v, p), Len(p.vstate) = 1
  PROVE  /\ Len(v) = 16 /\ Byte(v, 0) = Version1
         /\ CDecodeV1(v) = Reads(Cut(p)) /\ PyDecode(v) = Reads(Cut(p))
<1>1. /\ v \in Seq(Int) /\ Len(v) = 16
      /\ Carries(v, 0, <<Version1, FlagBits(p), p.node, 0>>) /\ Carries(v, 4, Put16(p.seq))
      /\ Carries(v, 6, Put32(p.vstate[1])) /\ Carries(v, 10, Put48(p.time))
  BY DEF Frame1
<1>2. /\ Byte(v, 0) = Version1 /\ Byte(v, 1) = FlagBits(p) /\ Byte(v, 2) = p.node
      /\ Byte(v, 3) = 0
  <2> DEFINE h == <<Version1, FlagBits(p), p.node, 0>>
  <2>1. Len(h) = 4 /\ h[1] = Version1 /\ h[2] = FlagBits(p) /\ h[3] = p.node /\ h[4] = 0
    OBVIOUS
  <2>2. Carries(v, 0, h)
    BY <1>1
  <2> HIDE DEF h
  <2>3. v[0 + 1] = h[1] /\ v[0 + 2] = h[2] /\ v[0 + 3] = h[3] /\ v[0 + 4] = h[4]
    BY <2>1, <2>2 DEF Carries
  <2> QED BY <2>1, <2>3 DEF Byte
<1>3. p.node # 0 /\ p.seq \in Int /\ p.time \in Int /\ p.vstate[1] \in Int32
  BY PacketFields
<1>4. Get16(v, 4) = p.seq % Base2 /\ Get48(v, 10) = p.time % Base6
  BY <1>1, <1>3, GetPut
<1>5. <<Signed(Get32(v, 6))>> = p.vstate
  <2>1. Signed(Get32(v, 6)) = p.vstate[1]
    BY <1>1, <1>3, SignedRead
  <2>2. p.vstate \in Seq(Int32)
    BY DEF Packets
  <2>3. p.vstate = <<p.vstate[1]>>
    BY <2>2, OneLong
  <2> QED BY <2>1, <2>3, Zenon
<1>6. Decoded(Byte(v, 2), <<Signed(Get32(v, 6))>>, Get16(v, 4), Get48(v, 10),
              EnabledBit(Byte(v, 1)), DisturbanceBit(Byte(v, 1))) = Reads(Cut(p))
  BY <1>2, <1>4, <1>5, Restored
<1>7. ~ (Byte(v, 0) # Version1 \/ Byte(v, 3) # 0 \/ Byte(v, 2) = 0)
  BY <1>2, <1>3
<1>8. CDecodeV1(v) = Reads(Cut(p))
  BY <1>6, <1>7, Zenon DEF CDecodeV1
<1>9. PyDecode(v) = Reads(Cut(p))
  <2>1. ~ (Len(v) = 19 /\ Byte(v, 0) = Version2) /\ ~ (Len(v) # 16)
    BY <1>1
  <2> QED BY <1>6, <1>7, <2>1, Zenon DEF PyDecode
<1> QED BY <1>1, <1>2, <1>8, <1>9, Zenon

LEMMA Read2 ==
  ASSUME NEW p \in Packets, NEW v, Frame2(v, p), Len(p.vstate) = 2
  PROVE  /\ Len(v) = 19 /\ Byte(v, 0) = Version2
         /\ CDecodeV2(v) = Reads(Cut(p)) /\ PyDecode(v) = Reads(Cut(p))
<1>1. /\ v \in Seq(Int) /\ Len(v) = 19
      /\ Carries(v, 0, <<Version2, FlagBits(p), p.node>>) /\ Carries(v, 3, Put16(p.seq))
      /\ Carries(v, 5, Put32(p.vstate[1])) /\ Carries(v, 9, Put32(p.vstate[2]))
      /\ Carries(v, 13, Put48(p.time))
  BY DEF Frame2
<1>2. Byte(v, 0) = Version2 /\ Byte(v, 1) = FlagBits(p) /\ Byte(v, 2) = p.node
  <2> DEFINE h == <<Version2, FlagBits(p), p.node>>
  <2>1. Len(h) = 3 /\ h[1] = Version2 /\ h[2] = FlagBits(p) /\ h[3] = p.node
    OBVIOUS
  <2>2. Carries(v, 0, h)
    BY <1>1
  <2> HIDE DEF h
  <2>3. v[0 + 1] = h[1] /\ v[0 + 2] = h[2] /\ v[0 + 3] = h[3]
    BY <2>1, <2>2 DEF Carries
  <2> QED BY <2>1, <2>3 DEF Byte
<1>3. /\ p.node # 0 /\ p.seq \in Int /\ p.time \in Int
      /\ p.vstate[1] \in Int32 /\ p.vstate[2] \in Int32
  BY PacketFields
<1>4. Get16(v, 3) = p.seq % Base2 /\ Get48(v, 13) = p.time % Base6
  BY <1>1, <1>3, GetPut
<1>5. <<Signed(Get32(v, 5)), Signed(Get32(v, 9))>> = p.vstate
  <2>1. Signed(Get32(v, 5)) = p.vstate[1] /\ Signed(Get32(v, 9)) = p.vstate[2]
    BY <1>1, <1>3, SignedRead
  <2>2. p.vstate \in Seq(Int32)
    BY DEF Packets
  <2>3. p.vstate = <<p.vstate[1], p.vstate[2]>>
    BY <2>2, OneLong
  <2> QED BY <2>1, <2>3, Zenon
<1>6. Decoded(Byte(v, 2), <<Signed(Get32(v, 5)), Signed(Get32(v, 9))>>, Get16(v, 3), Get48(v, 13),
              EnabledBit(Byte(v, 1)), DisturbanceBit(Byte(v, 1))) = Reads(Cut(p))
  BY <1>2, <1>4, <1>5, Restored
<1>7. Byte(v, 0) = Version2 /\ Byte(v, 2) # 0
  BY <1>2, <1>3
<1>8. CDecodeV2(v) = Reads(Cut(p))
  BY <1>6, <1>7, Zenon DEF CDecodeV2
<1>9. PyDecode(v) = Reads(Cut(p))
  BY <1>1, <1>6, <1>7, Zenon DEF PyDecode, PyDecodeV2
<1> QED BY <1>1, <1>2, <1>8, <1>9, Zenon

\* The version follows from the length of the state.
LEMMA FrameRead ==
  ASSUME NEW p \in Packets, NEW v, Framed(v, p)
  PROVE  /\ v \in Seq(Int)
         /\ \/ Len(v) = 16 /\ Byte(v, 0) = Version1 /\ CDecodeV1(v) = Reads(Cut(p))
            \/ Len(v) = 19 /\ Byte(v, 0) = Version2 /\ CDecodeV2(v) = Reads(Cut(p))
         /\ PyDecode(v) = Reads(Cut(p)) /\ PyDecodeAny(v) = Reads(Cut(p))
<1>1. CASE Len(p.vstate) = 1
  <2>1. Frame1(v, p)
    <3>1. Len(p.vstate) # 2
      BY <1>1
    <3> QED BY <3>1, Zenon DEF Framed
  <2>2. /\ Len(v) = 16 /\ Byte(v, 0) = Version1
        /\ CDecodeV1(v) = Reads(Cut(p)) /\ PyDecode(v) = Reads(Cut(p))
    BY <1>1, <2>1, Read1
  <2>3. PyDecodeAny(v) = PyDecode(v)
    <3>1. Version1 # Version2 /\ Version1 \notin {V0Enabled, V0Disabled}
      BY DEF Version1, Version2, V0Enabled, V0Disabled
    <3> QED BY <2>2, <3>1 DEF PyDecodeAny
  <2> QED BY <2>1, <2>2, <2>3 DEF Frame1
<1>2. CASE Len(p.vstate) = 2
  <2>1. Frame2(v, p)
    BY <1>2, Zenon DEF Framed
  <2>2. /\ Len(v) = 19 /\ Byte(v, 0) = Version2
        /\ CDecodeV2(v) = Reads(Cut(p)) /\ PyDecode(v) = Reads(Cut(p))
    BY <1>2, <2>1, Read2
  <2>3. PyDecodeAny(v) = PyDecode(v)
    <3>1. Version1 # Version2 /\ Version2 \notin {V0Enabled, V0Disabled}
      BY DEF Version1, Version2, V0Enabled, V0Disabled
    <3> QED BY <2>2, <3>1 DEF PyDecodeAny
  <2> QED BY <2>1, <2>2, <2>3 DEF Frame2
<1> QED BY <1>1, <1>2, PacketFields

\* What is behind the first piece.
LEMMA TailOf ==
  ASSUME NEW a \in Seq(Int), NEW b \in Seq(Int)
  PROVE  SubSeq(a \o b, Len(a) + 1, Len(a) + Len(b)) = b
<1> DEFINE w == a \o b
           m == Len(a)
           n == Len(b)
<1>1. w \in Seq(Int) /\ Len(w) = m + n /\ m \in Nat /\ n \in Nat
      /\ \A i \in 1 .. n : w[m + i] = b[i]
  OBVIOUS
<1>2. b \in Seq(Int) /\ Len(b) = n
  OBVIOUS
<1> HIDE DEF w, m, n
<1>3. SubSeq(w, m + 1, m + n) \in Seq(Int) /\ Len(SubSeq(w, m + 1, m + n)) = n
      /\ \A i \in 1 .. n : SubSeq(w, m + 1, m + n)[i] = w[m + i]
  <2>1. w \in Seq(Int) /\ Len(w) = m + n /\ m \in Nat /\ n \in Nat
    BY <1>1, Zenon
  <2>2. SubSeq(w, m + 1, m + n) \in Seq(Int)
    BY <2>1
  <2>3. Len(SubSeq(w, m + 1, m + n)) = n
    BY <2>1
  <2>4. \A i \in 1 .. n : SubSeq(w, m + 1, m + n)[i] = w[m + i]
    <3>1. SUFFICES ASSUME NEW i \in 1 .. n
                   PROVE  SubSeq(w, m + 1, m + n)[i] = w[m + i]
      OBVIOUS
    <3>2. i \in 1 .. (m + n) + 1 - (m + 1) /\ m + 1 + i - 1 = m + i
      BY <2>1
    <3> QED BY <2>1, <3>2, SMTT(30)
  <2> QED BY <2>2, <2>3, <2>4, Zenon
<1> DEFINE s == SubSeq(w, m + 1, m + n)
<1>4. s \in Seq(Int) /\ Len(s) = n /\ \A i \in 1 .. n : s[i] = w[m + i]
  BY <1>3
<1> HIDE DEF s
<1>5. s = b
  BY <1>1, <1>2, <1>4, SeqEqual
<1> QED BY <1>5, Zenon DEF s, w, m, n

-----------------------------------------------------------------------------
(* What is read of a value behind its company.                             *)

LEMMA CompanyPut ==
  /\ Company \in Int /\ Company % Base2 = Company
  /\ Put16(Company) \in Seq(Int) /\ Len(Put16(Company)) = 2
<1>1. Company \in Int /\ Company % Base2 = Company
  BY Places DEF Company
<1> QED BY <1>1, PutType

LEMMA TwoMore ==
  ASSUME NEW x, NEW y \in Nat, NEW z, x = 2, z = x + y
  PROVE  z = 2 + y /\ x + 1 = 3 /\ x + y = z /\ z \in Nat /\ z >= 2
OBVIOUS

LEMMA CompanyRead ==
  ASSUME NEW f \in Seq(Int), NEW value, value = Put16(Company) \o f
  PROVE  /\ value \in Seq(Int) /\ Len(value) = 2 + Len(f) /\ Len(value) \in Nat /\ Len(value) >= 2
         /\ Get16(value, 0) = Company /\ SubSeq(value, 3, Len(value)) = f
<1> DEFINE k == Put16(Company)
<1>1. k \in Seq(Int) /\ Len(k) = 2 /\ Company \in Int /\ Company % Base2 = Company
  BY CompanyPut, Zenon
<1>2. /\ k \o f \in Seq(Int) /\ Len(k \o f) = Len(k) + Len(f) /\ Carries(k \o f, 0, k)
      /\ SubSeq(k \o f, Len(k) + 1, Len(k) + Len(f)) = f
  BY <1>1, CarriesOn, TailOf, Zenon
<1>3. /\ value \in Seq(Int) /\ Len(value) = Len(k) + Len(f) /\ Carries(value, 0, k)
      /\ SubSeq(value, Len(k) + 1, Len(k) + Len(f)) = f
  BY <1>2, Zenon
<1>4. Get16(value, 0) = Company
  <2>1. 0 \in Nat
    OBVIOUS
  <2>2. Get16(value, 0) = Company % Base2
    BY <1>1, <1>3, <2>1, GetPut, Zenon
  <2> QED BY <1>1, <2>2
<1> HIDE DEF k
<1>5. Len(f) \in Nat
  OBVIOUS
<1>6. /\ Len(value) = 2 + Len(f) /\ Len(k) + 1 = 3 /\ Len(k) + Len(f) = Len(value)
      /\ Len(value) \in Nat /\ Len(value) >= 2
  <2>1. Len(k) = 2 /\ Len(value) = Len(k) + Len(f)
    BY <1>1, <1>3, Zenon
  <2> QED BY <1>5, <2>1, TwoMore, Zenon
<1>7. SubSeq(value, 3, Len(value)) = f
  BY <1>3, <1>6, Zenon
<1> QED BY <1>3, <1>4, <1>6, <1>7, Zenon

\* The six bytes of encode_v0.
Payload0(p) == <<IF p.enabled THEN V0Enabled ELSE V0Disabled, p.node>> \o Put32(p.vstate[1])

\* How each receiver reads the value of a manufacturer element.
ValueReads(value, p) ==
  /\ value \in Seq(Int) /\ Len(value) >= 2 /\ Get16(value, 0) = Company
  /\ CDecodeAny(value) = Reads(p)
  /\ PyDecodeAny(SubSeq(value, 3, Len(value))) = Reads(p)

LEMMA PacketValue ==
  ASSUME NEW p \in Packets
  PROVE  ValueReads(PyManufacturer(p), Cut(p)) /\ UdpDecode(PyManufacturer(p)) = Reads(Cut(p))
<1>1. Framed(PyEncode(p), p)
  BY PyFrames
<1>2. PICK v : v = PyEncode(p)
  OBVIOUS
<1>3. /\ v \in Seq(Int)
      /\ \/ Len(v) = 16 /\ Byte(v, 0) = Version1 /\ CDecodeV1(v) = Reads(Cut(p))
         \/ Len(v) = 19 /\ Byte(v, 0) = Version2 /\ CDecodeV2(v) = Reads(Cut(p))
      /\ PyDecode(v) = Reads(Cut(p)) /\ PyDecodeAny(v) = Reads(Cut(p))
  BY <1>1, <1>2, FrameRead
<1>4. PICK value : value = PyManufacturer(p)
  OBVIOUS
<1>5. value = Put16(Company) \o v
  BY <1>2, <1>4 DEF PyManufacturer
<1>6. /\ value \in Seq(Int) /\ Len(value) = 2 + Len(v) /\ Len(value) \in Nat /\ Len(value) >= 2
      /\ Get16(value, 0) = Company /\ SubSeq(value, 3, Len(value)) = v
  BY <1>3, <1>5, CompanyRead
<1>7. CDecodeAny(value) = Reads(Cut(p))
  <2>1. ~ (Len(value) < 2) /\ ~ (Get16(value, 0) # Company)
    BY <1>6
  <2>2. CASE Len(v) = 16 /\ CDecodeV1(v) = Reads(Cut(p))
    <3>1. Len(v) # 19 /\ Len(v) # 6
      BY <2>2
    <3> QED BY <1>6, <2>1, <2>2, <3>1, Zenon DEF CDecodeAny
  <2>3. CASE Len(v) = 19 /\ CDecodeV2(v) = Reads(Cut(p))
    <3>1. Len(v) # 16 /\ Len(v) # 6
      BY <2>3
    <3> QED BY <1>6, <2>1, <2>3, <3>1, Zenon DEF CDecodeAny
  <2> QED BY <1>3, <2>2, <2>3, Zenon
<1>8. UdpDecode(value) = Reads(Cut(p))
  <2>1. ~ (Len(value) < 2 \/ Get16(value, 0) # Company)
    BY <1>6
  <2>2. PyDecodeManufacturer(value) = Reads(Cut(p))
    BY <1>3, <1>6, <2>1, Zenon DEF PyDecodeManufacturer
  <2> QED BY <1>6, <2>2, Zenon DEF UdpDecode
<1>9. ValueReads(value, Cut(p))
  BY <1>3, <1>6, <1>7, Zenon DEF ValueReads
<1> QED BY <1>4, <1>8, <1>9, Zenon

LEMMA LegacyValue ==
  ASSUME NEW p \in Legacies
  PROVE  ValueReads(Put16(Company) \o Payload0(p), p) /\ Len(Put16(Company) \o Payload0(p)) = 8
<1> DEFINE flag == IF p.enabled THEN V0Enabled ELSE V0Disabled
           h == <<flag, p.node>>
           x == Put32(p.vstate[1])
<1>1. /\ p \in Packets /\ Len(p.vstate) = 1 /\ p.seq = 0 /\ p.time = 0 /\ p.disturbance = FALSE
      /\ p.enabled \in BOOLEAN
  BY DEF Legacies, Packets
<1>2. p.node \in Int /\ p.node # 0 /\ p.vstate[1] \in Int32 /\ p.vstate[1] \in Int
  BY <1>1, PacketFields
<1>3. flag \in Int /\ flag \in {V0Enabled, V0Disabled} /\ ((flag = V0Enabled) = p.enabled)
  <2>1. V0Enabled \in Int /\ V0Disabled \in Int /\ V0Enabled # V0Disabled
    BY DEF V0Enabled, V0Disabled
  <2>2. CASE p.enabled = TRUE
    BY <2>1, <2>2, Zenon
  <2>3. CASE p.enabled = FALSE
    BY <2>1, <2>3, Zenon
  <2> QED BY <1>1, <2>2, <2>3, Zenon
<1> HIDE DEF flag
<1>4. h \in Seq(Int) /\ Len(h) = 2 /\ h[1] = flag /\ h[2] = p.node
  BY <1>2, <1>3
<1>5. x \in Seq(Int) /\ Len(x) = 4
  BY <1>2, PutType
<1> HIDE DEF h, x
<1>6. PICK v : v = h \o x
  OBVIOUS
<1>7. v \in Seq(Int) /\ Len(v) = 2 + 4 /\ Carries(v, 0, h) /\ Carries(v, 2, x)
  BY <1>4, <1>5, <1>6, CarriesOn
<1>8. Byte(v, 0) = flag /\ Byte(v, 1) = p.node
  <2>1. v[0 + 1] = h[1] /\ v[0 + 2] = h[2]
    BY <1>4, <1>7 DEF Carries
  <2> QED BY <1>4, <2>1 DEF Byte
<1>9. <<Signed(Get32(v, 2))>> = p.vstate
  <2>1. Signed(Get32(v, 2)) = p.vstate[1]
    <3>1. 2 \in Nat
      OBVIOUS
    <3> QED BY <1>2, <1>7, <3>1, SignedRead, Zenon DEF x
  <2>2. p.vstate \in Seq(Int32)
    BY <1>1 DEF Packets
  <2>3. p.vstate = <<p.vstate[1]>>
    BY <1>1, <2>2, OneLong
  <2> QED BY <2>1, <2>3, Zenon
<1>10. Decoded(Byte(v, 1), <<Signed(Get32(v, 2))>>, 0, 0, Byte(v, 0) = V0Enabled, FALSE) = Reads(p)
  <2>1. p = [node |-> p.node, vstate |-> p.vstate, seq |-> 0, time |-> 0,
             enabled |-> p.enabled, disturbance |-> FALSE]
    BY <1>1 DEF Packets
  <2>2. (Byte(v, 0) = V0Enabled) = p.enabled
    BY <1>3, <1>8, Zenon
  <2>3. Decoded(p.node, p.vstate, 0, 0, p.enabled, FALSE) = Reads(p)
    BY <2>1, Zenon DEF Decoded, Reads
  <2> QED BY <1>8, <1>9, <2>2, <2>3
<1>11. ~ (Byte(v, 0) \notin {V0Enabled, V0Disabled} \/ Byte(v, 1) = 0) /\ ~ (Len(v) < 6)
       /\ Len(v) = 6 /\ Len(v) > 0 /\ Len(v) # 16 /\ Len(v) # 19
  BY <1>2, <1>3, <1>7, <1>8
<1>12. CDecodeV0(v) = Reads(p) /\ PyDecodeV0(v) = Reads(p)
  BY <1>10, <1>11, Zenon DEF CDecodeV0, PyDecodeV0
<1>13. PyDecodeAny(v) = Reads(p)
  BY <1>11, <1>12, Zenon DEF PyDecodeAny
<1>14. PICK value : value = Put16(Company) \o v
  OBVIOUS
<1>15. /\ value \in Seq(Int) /\ Len(value) = 2 + Len(v) /\ Len(value) \in Nat /\ Len(value) >= 2
       /\ Get16(value, 0) = Company /\ SubSeq(value, 3, Len(value)) = v
  BY <1>7, <1>14, CompanyRead
<1>16. CDecodeAny(value) = Reads(p)
  <2>1. ~ (Len(value) < 2) /\ ~ (Get16(value, 0) # Company)
    BY <1>15
  <2> QED BY <1>11, <1>12, <1>15, <2>1, Zenon DEF CDecodeAny
<1>17. ValueReads(value, p) /\ Len(value) = 8
  <2>1. Len(value) = 8
    BY <1>11, <1>15
  <2> QED BY <1>13, <1>15, <1>16, <2>1, Zenon DEF ValueReads
<1>18. Payload0(p) = v
  BY <1>6, Zenon DEF Payload0, h, x, flag
<1> QED BY <1>14, <1>17, <1>18, Zenon

-----------------------------------------------------------------------------
(* The walk over advertising data.                                         *)

\* One step of it.
Onward(ad, i) == IF IsElement(ad, i) THEN i + 1 + ad[i] ELSE i

Walks(ad, at) ==
  /\ at = [k \in 0 .. Len(ad) \div 2 |-> at[k]]
  /\ at[0] = 1 /\ \A k \in 1 .. Len(ad) \div 2 : at[k] = Onward(ad, at[k - 1])

LEMMA WalkIs ==
  ASSUME NEW ad \in Seq(Int)
  PROVE  Walks(ad, Walk(ad))
<1> DEFINE n == Len(ad) \div 2
           step == [ki \in (1 .. n) \X Int |-> Onward(ad, ki[2])]
           Body(at, k) == IF k = 0 THEN 1
                          ELSE LET i == at[k - 1]
                               IN  IF IsElement(ad, i) THEN i + 1 + ad[i] ELSE i
<1>1. n \in Nat /\ 1 \in Int
  OBVIOUS
<1>2. step \in [(1 .. n) \X Int -> Int]
  <2>1. ASSUME NEW i \in Int PROVE Onward(ad, i) \in Int
    BY DEF Onward, IsElement
  <2> HIDE DEF n
  <2> QED BY <2>1
<1>3. Stepwise(n, Int, 1, step)
  <2> HIDE DEF n, step
  <2> QED BY <1>1, <1>2, StepsExist
<1>4. PICK g \in [0 .. n -> Int] : g[0] = 1 /\ \A i \in 1 .. n : g[i] = step[<<i, g[i - 1]>>]
  BY <1>3, Zenon DEF Stepwise
<1>5. g = [k \in 0 .. n |-> Body(g, k)]
  <2> HIDE DEF n
  <2>1. ASSUME NEW k \in 0 .. n PROVE g[k] = Body(g, k)
    <3>1. CASE k = 0
      BY <1>4, <3>1
    <3>2. CASE k # 0
      <4>1. k \in 1 .. n /\ k - 1 \in 0 .. n
        BY <1>1, <3>2
      <4>2. g[k] = step[<<k, g[k - 1]>>] /\ g[k - 1] \in Int
        BY <1>4, <4>1
      <4>3. g[k] = Onward(ad, g[k - 1])
        BY <4>1, <4>2
      <4> QED BY <3>2, <4>3, Zenon DEF Onward
    <3> QED BY <3>1, <3>2
  <2>2. g = [k \in 0 .. n |-> g[k]]
    BY <1>4
  <2> HIDE DEF Body
  <2> QED BY <2>1, <2>2
<1>6. \E at : at = [k \in 0 .. n |-> Body(at, k)]
  <2> HIDE DEF n, Body
  <2> QED BY <1>5
<1>7. Walk(ad) = [k \in 0 .. n |-> Body(Walk(ad), k)]
  BY <1>6, Zenon DEF Walk
<1>8. PICK at : at = Walk(ad)
  OBVIOUS
<1>9. at = [k \in 0 .. n |-> Body(at, k)]
  BY <1>7, <1>8, Zenon
<1>10. \A k \in 0 .. n : at[k] = Body(at, k)
  <2> HIDE DEF n, Body
  <2> QED BY <1>9
<1>11. at = [k \in 0 .. n |-> at[k]]
  <2> HIDE DEF n, Body
  <2> QED BY <1>9
<1>12. at[0] = 1
  BY <1>1, <1>10
<1>13. ASSUME NEW k \in 1 .. n PROVE at[k] = Onward(ad, at[k - 1])
  <2>1. k \in 0 .. n /\ k # 0
    OBVIOUS
  <2>2. at[k] = Body(at, k)
    BY <1>10, <2>1
  <2> QED BY <2>1, <2>2, Zenon DEF Onward
<1> QED BY <1>8, <1>11, <1>12, <1>13, Zenon DEF Walks

\* A set that the walk never leaves has all of its elements.
LEMMA WalkStays ==
  ASSUME NEW ad \in Seq(Int), NEW T, 1 \in T, \A i \in T : Onward(ad, i) \in T
  PROVE  \A i \in Elements(ad) : i \in T /\ IsElement(ad, i)
<1> DEFINE n == Len(ad) \div 2
<1>1. PICK at : at = Walk(ad)
  OBVIOUS
<1>2. Walks(ad, at)
  BY <1>1, WalkIs, Zenon
<1>3. /\ at = [k \in 0 .. n |-> at[k]]
      /\ at[0] = 1 /\ \A k \in 1 .. n : at[k] = Onward(ad, at[k - 1])
  BY <1>2, Zenon DEF Walks
<1>n. n \in Nat
  OBVIOUS
<1> HIDE DEF n
<1> DEFINE S == {k \in Nat : k <= n => at[k] \in T}
<1>4. 0 \in S
  BY <1>3
<1>5. ASSUME NEW k \in Nat, k \in S PROVE k + 1 \in S
  <2> SUFFICES ASSUME k + 1 <= n PROVE at[k + 1] \in T
    OBVIOUS
  <2>1. at[k] \in T
    BY <1>5, <1>n
  <2>2. k + 1 \in 1 .. n /\ (k + 1) - 1 = k
    BY <1>n
  <2>3. at[k + 1] = Onward(ad, at[k])
    BY <1>3, <2>2
  <2> QED BY <2>1, <2>3
<1>6. Nat \subseteq S
  <2> HIDE DEF S
  <2> QED BY <1>4, <1>5, SetInduction
<1>7. ASSUME NEW i \in Elements(ad) PROVE i \in T /\ IsElement(ad, i)
  <2>1. i \in {at[k] : k \in DOMAIN at} /\ IsElement(ad, i)
    BY <1>1, <1>7, Zenon DEF Elements
  <2>2. DOMAIN at = 0 .. n
    BY <1>3
  <2>3. PICK k \in 0 .. n : i = at[k]
    BY <2>1, <2>2
  <2>4. at[k] \in T
    BY <1>6, <1>n, <2>3
  <2> QED BY <2>1, <2>3, <2>4
<1> QED BY <1>7

\* The walk begins at the first octet, and goes on where an element ends.
LEMMA WalkStarts ==
  ASSUME NEW ad \in Seq(Int)
  PROVE  /\ IsElement(ad, 1) => 1 \in Elements(ad)
         /\ Len(ad) >= 2 /\ IsElement(ad, 1) /\ IsElement(ad, 2 + ad[1]) => 2 + ad[1] \in Elements(ad)
<1> DEFINE n == Len(ad) \div 2
<1>1. PICK at : at = Walk(ad)
  OBVIOUS
<1>2. Walks(ad, at)
  BY <1>1, WalkIs, Zenon
<1>3. /\ at = [k \in 0 .. n |-> at[k]]
      /\ at[0] = 1 /\ \A k \in 1 .. n : at[k] = Onward(ad, at[k - 1])
  BY <1>2, Zenon DEF Walks
<1>n. n \in Nat /\ (Len(ad) >= 2 => n >= 1)
  OBVIOUS
<1> HIDE DEF n
<1>4. DOMAIN at = 0 .. n /\ 0 \in 0 .. n
  BY <1>3, <1>n
<1>5. Elements(ad) = {i \in {at[k] : k \in DOMAIN at} : IsElement(ad, i)}
  BY <1>1, Zenon DEF Elements
<1>6. ASSUME IsElement(ad, 1) PROVE 1 \in Elements(ad)
  BY <1>3, <1>4, <1>5, <1>6, Zenon
<1>7. ASSUME Len(ad) >= 2, IsElement(ad, 1), IsElement(ad, 2 + ad[1]) PROVE 2 + ad[1] \in Elements(ad)
  <2>1. 1 \in 1 .. n /\ 1 \in 0 .. n /\ 1 - 1 = 0
    BY <1>7, <1>n
  <2>2. at[1] = Onward(ad, 1)
    <3>1. at[1] = Onward(ad, at[1 - 1])
      BY <1>3, <2>1, Zenon
    <3> QED BY <1>3, <2>1, <3>1
  <2>3. 1 + 1 + ad[1] = 2 + ad[1]
    OBVIOUS
  <2>4. at[1] = 2 + ad[1]
    BY <1>7, <2>2, <2>3, Zenon DEF Onward
  <2> QED BY <1>4, <1>5, <1>7, <2>1, <2>4, Zenon
<1> QED BY <1>6, <1>7

LEMMA FirstIs ==
  ASSUME NEW S \in SUBSET Int, NEW j \in S, \A i \in S : j <= i
  PROVE  First(S) = j
<1>1. \E i \in S : \A k \in S : i <= k
  OBVIOUS
<1>2. First(S) \in S /\ \A k \in S : First(S) <= k
  BY <1>1, Zenon DEF First
<1>3. First(S) \in Int /\ j \in Int /\ First(S) <= j /\ j <= First(S)
  BY <1>2
<1> QED BY <1>3

\* If the first element of any company is the fleet's, everyone reads it.
LEMMA OursFirst ==
  ASSUME NEW ad, NEW value, NEW p, NEW j \in Manufacturers(ad),
         Manufacturers(ad) \subseteq Int, \A i \in Manufacturers(ad) : j <= i,
         Value(ad, j) = value, ValueReads(value, p)
  PROVE  /\ BoardReads(ad) = Reads(p) /\ PiReads(ad) = Reads(p)
         /\ First(Manufacturers(ad)) = j
<1>1. First(Manufacturers(ad)) = j
  BY FirstIs
<1>2. /\ Len(value) >= 2 /\ Get16(value, 0) = Company /\ CDecodeAny(value) = Reads(p)
      /\ PyDecodeAny(SubSeq(value, 3, Len(value))) = Reads(p)
  BY DEF ValueReads
<1>3. j \in Ours(ad) /\ Ours(ad) \subseteq Manufacturers(ad)
  BY <1>2, Zenon DEF Ours
<1>4. First(Ours(ad)) = j
  <2>1. Ours(ad) \subseteq Int /\ \A i \in Ours(ad) : j <= i
    BY <1>3
  <2> QED BY <1>3, <2>1, FirstIs
<1>5. BoardReads(ad) = Reads(p)
  BY <1>1, <1>2, Zenon DEF BoardReads
<1>6. PiReads(ad) = Reads(p)
  BY <1>2, <1>3, <1>4, Zenon DEF PiReads
<1> QED BY <1>1, <1>5, <1>6

\* Advertising data of one element.
LEMMA OneElement ==
  ASSUME NEW value \in Seq(Int), NEW p, ValueReads(value, p)
  PROVE  /\ BoardReads(Element(AdManufacturer, value)) = Reads(p)
         /\ PiReads(Element(AdManufacturer, value)) = Reads(p)
         /\ Value(Element(AdManufacturer, value), First(Manufacturers(Element(AdManufacturer, value)))) = value
<1> DEFINE n == Len(value)
           h == <<n + 1, AdManufacturer>>
<1>1. n \in Nat /\ h \in Seq(Int) /\ Len(h) = 2 /\ h[1] = n + 1 /\ h[2] = AdManufacturer
  BY DEF AdManufacturer
<1> HIDE DEF h
<1>2. PICK ad : ad = h \o value
  OBVIOUS
<1>3. /\ ad \in Seq(Int) /\ Len(ad) = 2 + n /\ Carries(ad, 0, h)
      /\ SubSeq(ad, 3, 2 + n) = value
  <2>1. /\ h \o value \in Seq(Int) /\ Len(h \o value) = Len(h) + n /\ Carries(h \o value, 0, h)
        /\ SubSeq(h \o value, Len(h) + 1, Len(h) + n) = value
    BY <1>1, CarriesOn, TailOf, Zenon
  <2>2. Len(h) + 1 = 3 /\ Len(h) + n = 2 + n
    BY <1>1
  <2> QED BY <1>2, <2>1, <2>2, Zenon
<1> HIDE DEF n
<1>4. ad[1] = n + 1 /\ ad[2] = AdManufacturer
  <2>1. ad[0 + 1] = h[1] /\ ad[0 + 2] = h[2]
    BY <1>1, <1>3 DEF Carries
  <2> QED BY <1>1, <2>1
<1>5. IsElement(ad, 1)
  BY <1>1, <1>3, <1>4 DEF IsElement
<1>6. 1 \in Elements(ad)
  BY <1>3, <1>5, WalkStarts
<1>7. \A i \in Elements(ad) : i \in {1, n + 3}
  <2>1. ASSUME NEW i \in {1, n + 3} PROVE Onward(ad, i) \in {1, n + 3}
    <3>1. CASE i = 1
      BY <1>1, <1>4, <1>5, <3>1 DEF Onward
    <3>2. CASE i = n + 3
      <4>1. ~ IsElement(ad, i)
        BY <1>1, <1>3, <3>2 DEF IsElement
      <4> QED BY <4>1 DEF Onward
    <3> QED BY <3>1, <3>2
  <2> DEFINE T == {1, n + 3}
  <2>2. 1 \in T /\ \A i \in T : Onward(ad, i) \in T
    BY <2>1
  <2>3. \A i \in Elements(ad) : i \in T
    <3> HIDE DEF T
    <3> QED BY <1>3, <2>2, WalkStays, Zenon
  <2> QED BY <2>3
<1>8. 1 \in Manufacturers(ad) /\ \A i \in Manufacturers(ad) : i \in {1, n + 3}
  <2>1. ad[1 + 1] = AdManufacturer
    BY <1>4
  <2> QED BY <1>6, <1>7, <2>1, Zenon DEF Manufacturers
<1>9. Manufacturers(ad) \subseteq Int /\ \A i \in Manufacturers(ad) : 1 <= i
  BY <1>1, <1>8
<1>10. Value(ad, 1) = value
  <2>1. 1 + 2 = 3 /\ 1 + ad[1] = 2 + n
    BY <1>1, <1>4
  <2> QED BY <1>3, <2>1, Zenon DEF Value
<1>11. BoardReads(ad) = Reads(p) /\ PiReads(ad) = Reads(p) /\ First(Manufacturers(ad)) = 1
  BY <1>8, <1>9, <1>10, OursFirst
<1>12. Element(AdManufacturer, value) = ad
  BY <1>2, Zenon DEF Element, h, n
<1> QED BY <1>10, <1>11, <1>12, Zenon

\* The older firmware puts its name first.
LegacyAd(value) == Element(AdName, [k \in 1 .. 7 |-> 1]) \o Element(AdManufacturer, value)

LEMMA BehindTheName ==
  ASSUME NEW value \in Seq(Int), Len(value) = 8, NEW p, ValueReads(value, p)
  PROVE  BoardReads(LegacyAd(value)) = Reads(p) /\ PiReads(LegacyAd(value)) = Reads(p)
<1> DEFINE seven == [k \in 1 .. 7 |-> 1]
           hn == <<Len(seven) + 1, AdName>>
           hm == <<Len(value) + 1, AdManufacturer>>
           name == hn \o seven
           mf == hm \o value
<1>1. seven \in Seq(Int) /\ Len(seven) = 7
  OBVIOUS
<1>2. /\ hn \in Seq(Int) /\ Len(hn) = 2 /\ hn[1] = 8 /\ hn[2] = AdName
      /\ hm \in Seq(Int) /\ Len(hm) = 2 /\ hm[1] = 9 /\ hm[2] = AdManufacturer
  <2> HIDE DEF seven
  <2> QED BY <1>1 DEF AdName, AdManufacturer
<1>e. LegacyAd(value) = name \o mf
  BY Zenon DEF LegacyAd, Element
<1> HIDE DEF seven, hn, hm
<1>3. /\ name \in Seq(Int) /\ Len(name) = Len(hn) + Len(seven) /\ Carries(name, 0, hn)
      /\ mf \in Seq(Int) /\ Len(mf) = Len(hm) + Len(value) /\ Carries(mf, 0, hm)
      /\ Carries(mf, Len(hm), value)
  BY <1>1, <1>2, CarriesOn, Zenon
<1>4. Len(name) = 9 /\ Len(mf) = 10
  BY <1>1, <1>2, <1>3
<1> HIDE DEF name, mf
<1>5. PICK ad : ad = name \o mf
  OBVIOUS
<1>6. /\ ad \in Seq(Int) /\ Len(ad) = Len(name) + Len(mf)
      /\ Carries(ad, 0, name) /\ Carries(ad, Len(name), mf)
  BY <1>3, <1>5, CarriesOn, Zenon
<1>7. Len(ad) = 19 /\ Carries(ad, 0, name) /\ Carries(ad, 9, mf)
  BY <1>4, <1>6
<1>8. /\ name[1] = 8 /\ name[2] = AdName /\ mf[1] = 9 /\ mf[2] = AdManufacturer
      /\ \A k \in 1 .. 8 : mf[2 + k] = value[k]
  <2>1. name[0 + 1] = hn[1] /\ name[0 + 2] = hn[2] /\ mf[0 + 1] = hm[1] /\ mf[0 + 2] = hm[2]
    BY <1>2, <1>3 DEF Carries
  <2>2. \A k \in 1 .. 8 : mf[2 + k] = value[k]
    BY <1>2, <1>3 DEF Carries
  <2> QED BY <1>2, <2>1, <2>2
<1>9. /\ ad[1] = 8 /\ ad[2] = AdName /\ ad[10] = 9 /\ ad[11] = AdManufacturer
      /\ \A k \in 1 .. 8 : ad[11 + k] = value[k]
  <2>1. ad[0 + 1] = name[1] /\ ad[0 + 2] = name[2] /\ ad[9 + 1] = mf[1] /\ ad[9 + 2] = mf[2]
    BY <1>4, <1>7 DEF Carries
  <2>2. ASSUME NEW k \in 1 .. 8 PROVE ad[11 + k] = value[k]
    <3>1. 2 + k \in 1 .. 10 /\ 9 + (2 + k) = 11 + k
      OBVIOUS
    <3>2. ad[9 + (2 + k)] = mf[2 + k]
      BY <1>4, <1>7, <3>1 DEF Carries
    <3> QED BY <1>8, <3>1, <3>2
  <2> QED BY <1>8, <2>1, <2>2
<1>10. IsElement(ad, 1) /\ IsElement(ad, 10) /\ ~ IsElement(ad, 20)
  <2>1. DOMAIN ad = 1 .. 19 /\ Len(ad) = 19
    <3>1. ad \in Seq(Int)
      BY <1>6
    <3>2. DOMAIN ad = 1 .. Len(ad)
      BY <3>1
    <3> QED BY <1>7, <3>2, Zenon
  <2>2. 1 \in 1 .. 19 /\ 10 \in 1 .. 19 /\ 20 \notin 1 .. 19
    OBVIOUS
  <2>3. ad[1] # 0 /\ 1 + ad[1] <= 19 /\ ad[10] # 0 /\ 10 + ad[10] <= 19
    BY <1>9
  <2> QED BY <2>1, <2>2, <2>3, Zenon DEF IsElement
<1>11. 10 \in Elements(ad)
  <2>1. Len(ad) >= 2 /\ 2 + ad[1] = 10
    BY <1>7, <1>9
  <2>2. IsElement(ad, 2 + ad[1])
    BY <1>10, <2>1
  <2>3. 2 + ad[1] \in Elements(ad)
    BY <1>6, <1>10, <2>1, <2>2, WalkStarts, Zenon
  <2> QED BY <2>1, <2>3
<1>12. \A i \in Elements(ad) : i \in {1, 10}
  <2> DEFINE T == {1, 10, 20}
  <2>1. 1 \in T /\ \A i \in T : Onward(ad, i) \in T
    <3>1. Onward(ad, 1) = 10 /\ Onward(ad, 10) = 20 /\ Onward(ad, 20) = 20
      BY <1>9, <1>10 DEF Onward
    <3> QED BY <3>1
  <2>2. \A i \in Elements(ad) : i \in T /\ IsElement(ad, i)
    <3> HIDE DEF T
    <3> QED BY <1>6, <2>1, WalkStays, Zenon
  <2> QED BY <1>10, <2>2
<1>13. Manufacturers(ad) = {10}
  <2>1. ad[1 + 1] # AdManufacturer /\ ad[10 + 1] = AdManufacturer
    BY <1>9 DEF AdName, AdManufacturer
  <2>2. 10 \in Manufacturers(ad)
    BY <1>11, <2>1, Zenon DEF Manufacturers
  <2>3. \A i \in Manufacturers(ad) : i \in {1, 10} /\ ad[i + 1] = AdManufacturer
    BY <1>12, Zenon DEF Manufacturers
  <2> QED BY <2>1, <2>2, <2>3
<1>14. Value(ad, 10) = value
  <2>1. 10 + 2 = 12 /\ 10 + ad[10] = 19
    BY <1>9
  <2> DEFINE s == SubSeq(ad, 12, 19)
  <2>a. PICK m \in Nat : m = 11
    OBVIOUS
  <2>b. m + 8 <= Len(ad)
    BY <1>7, <2>a
  <2>c. /\ SubSeq(ad, m + 1, m + 8) \in Seq(Int) /\ Len(SubSeq(ad, m + 1, m + 8)) = 8
        /\ \A k \in 1 .. 8 : SubSeq(ad, m + 1, m + 8)[k] = ad[m + k]
    BY <1>6, <2>b
  <2>d. m + 1 = 12 /\ m + 8 = 19
    BY <2>a
  <2>2. s \in Seq(Int) /\ Len(s) = 8 /\ \A k \in 1 .. 8 : s[k] = ad[11 + k]
    BY <2>a, <2>c, <2>d, Zenon
  <2> HIDE DEF s
  <2>3. s = value
    BY <1>9, <2>2, SeqEqual
  <2> QED BY <2>1, <2>3, Zenon DEF Value, s
<1>15. BoardReads(ad) = Reads(p) /\ PiReads(ad) = Reads(p)
  <2>1. /\ 10 \in Manufacturers(ad) /\ Manufacturers(ad) \subseteq Int
        /\ \A i \in Manufacturers(ad) : 10 <= i
    BY <1>13
  <2> QED BY <1>14, <2>1, OursFirst, Zenon
<1> QED BY <1>e, <1>5, <1>15, Zenon

-----------------------------------------------------------------------------
(* What a board takes, a Pi takes.                                         *)

LEMMA Outcomes ==
  /\ \A why : Failed(why).ok = FALSE /\ Failed(why).why = why
  /\ \A node, vstate, seq, time, enabled, disturbance :
       Decoded(node, vstate, seq, time, enabled, disturbance).ok = TRUE
  /\ \A p : Reads(p).ok = TRUE /\ Reads(p).packet = p
BY DEF Failed, Decoded, Reads

\* A reading is a packet, or one of the four reasons that are counted.
Result(r) == r.ok = TRUE \/ \E why \in {"company", "length", "format", "none"} : r = Failed(why)

LEMMA CResults ==
  ASSUME NEW v
  PROVE  /\ CDecodeV2(v) = Failed("format") \/ CDecodeV2(v).ok = TRUE
         /\ CDecodeV1(v) = Failed("format") \/ CDecodeV1(v).ok = TRUE
         /\ CDecodeV0(v) = Failed("format") \/ CDecodeV0(v).ok = TRUE
<1>1. CDecodeV2(v) = Failed("format") \/ CDecodeV2(v).ok = TRUE
  BY Outcomes, Zenon DEF CDecodeV2
<1>2. CDecodeV1(v) = Failed("format") \/ CDecodeV1(v).ok = TRUE
  BY Outcomes, Zenon DEF CDecodeV1
<1>3. CDecodeV0(v) = Failed("format") \/ CDecodeV0(v).ok = TRUE
  BY Outcomes, Zenon DEF CDecodeV0
<1> QED BY <1>1, <1>2, <1>3

\* The five ways a value is taken.
LEMMA CValue ==
  ASSUME NEW value \in Seq(Int), NEW v, v = SubSeq(value, 3, Len(value))
  PROVE  \/ CDecodeAny(value) = Failed("length")
         \/ CDecodeAny(value) = Failed("company")
         \/ /\ Len(value) >= 2 /\ Get16(value, 0) = Company
            /\ \/ Len(v) = 19 /\ CDecodeAny(value) = CDecodeV2(v)
               \/ Len(v) = 16 /\ CDecodeAny(value) = CDecodeV1(v)
               \/ Len(v) = 6 /\ CDecodeAny(value) = CDecodeV0(v)
<1>1. Len(value) < 2 \/ Len(value) >= 2
  OBVIOUS
<1>2. CASE Len(value) < 2
  <2>1. Len(v) = 0
    <3>1. Len(value) \in Nat
      OBVIOUS
    <3>2. ASSUME NEW n \in Nat, n < 2 PROVE Len(SubSeq(value, 3, n)) = 0
      BY <3>2
    <3> QED BY <1>2, <3>1, <3>2
  <2>2. Len(v) # 19 /\ Len(v) # 16 /\ Len(v) # 6 /\ ~ (Len(value) >= 2)
    BY <1>2, <2>1
  <2>3. /\ Len(SubSeq(value, 3, Len(value))) # 19 /\ Len(SubSeq(value, 3, Len(value))) # 16
        /\ Len(SubSeq(value, 3, Len(value))) # 6
    BY <2>2, Zenon
  <2> QED BY <1>2, <2>2, <2>3, Zenon DEF CDecodeAny
<1>3. CASE ~ (Len(value) < 2) /\ Len(value) >= 2 /\ Get16(value, 0) # Company
  BY <1>3, Zenon DEF CDecodeAny
<1>4. CASE ~ (Len(value) < 2) /\ Len(value) >= 2 /\ Get16(value, 0) = Company
  <2>0. ~ (Get16(value, 0) # Company)
    BY <1>4
  <2>1. CASE Len(v) = 19
    <3>0. 19 # 16 /\ 19 # 6
      OBVIOUS
    <3>1. Len(v) # 16 /\ Len(v) # 6
      BY <2>1, <3>0, Zenon
    <3>2. CDecodeAny(value) = CDecodeV2(v)
      BY <1>4, <2>0, <2>1, <3>1, Zenon DEF CDecodeAny
    <3> QED BY <1>4, <2>1, <3>2
  <2>2. CASE Len(v) = 16
    <3>0. 16 # 19 /\ 16 # 6
      OBVIOUS
    <3>1. Len(v) # 19 /\ Len(v) # 6
      BY <2>2, <3>0, Zenon
    <3>2. CDecodeAny(value) = CDecodeV1(v)
      BY <1>4, <2>0, <2>2, <3>1, Zenon DEF CDecodeAny
    <3> QED BY <1>4, <2>2, <3>2
  <2>3. CASE Len(v) = 6
    <3>0. 6 # 19 /\ 6 # 16
      OBVIOUS
    <3>1. Len(v) # 19 /\ Len(v) # 16
      BY <2>3, <3>0, Zenon
    <3>2. CDecodeAny(value) = CDecodeV0(v)
      BY <1>4, <2>0, <2>3, <3>1, Zenon DEF CDecodeAny
    <3> QED BY <1>4, <2>3, <3>2
  <2>4. CASE Len(v) # 19 /\ Len(v) # 16 /\ Len(v) # 6
    BY <1>4, <2>0, <2>4, Zenon DEF CDecodeAny
  <2> QED BY <2>1, <2>2, <2>3, <2>4, Zenon
<1>5. Len(value) >= 2 => ~ (Len(value) < 2)
  OBVIOUS
<1> QED BY <1>1, <1>2, <1>3, <1>4, <1>5, Zenon

LEMMA ValueImplies ==
  ASSUME NEW value \in Seq(Int), CDecodeAny(value).ok
  PROVE  /\ Len(value) >= 2 /\ Get16(value, 0) = Company
         /\ PyDecodeAny(SubSeq(value, 3, Len(value))) = CDecodeAny(value)
<1>1. PICK v : v = SubSeq(value, 3, Len(value))
  OBVIOUS
<1>2. CDecodeAny(value) # Failed("length") /\ CDecodeAny(value) # Failed("company")
  BY Outcomes, Zenon
<1>3. /\ Len(value) >= 2 /\ Get16(value, 0) = Company
      /\ \/ Len(v) = 19 /\ CDecodeAny(value) = CDecodeV2(v)
         \/ Len(v) = 16 /\ CDecodeAny(value) = CDecodeV1(v)
         \/ Len(v) = 6 /\ CDecodeAny(value) = CDecodeV0(v)
  BY <1>1, <1>2, CValue, Zenon
<1>4. ~ Failed("format").ok
  BY Outcomes, Zenon
<1>5. Version1 # Version2 /\ Version1 \notin {V0Enabled, V0Disabled}
      /\ Version2 \notin {V0Enabled, V0Disabled}
  BY DEF Version1, Version2, V0Enabled, V0Disabled
<1>6. CASE Len(v) = 19 /\ CDecodeAny(value) = CDecodeV2(v)
  <2>1. Byte(v, 0) = Version2 /\ Byte(v, 2) # 0
    BY <1>4, <1>6, Zenon DEF CDecodeV2
  <2>2. ~ (Len(v) = 16)
    BY <1>6
  <2>3. PyDecodeAny(v) = PyDecode(v)
    BY <1>5, <1>6, <2>1, <2>2, Zenon DEF PyDecodeAny
  <2>4. PyDecode(v) = CDecodeV2(v)
    BY <1>6, <2>1, Zenon DEF PyDecode, PyDecodeV2, CDecodeV2
  <2> QED BY <1>1, <1>3, <1>6, <2>3, <2>4, Zenon
<1>7. CASE Len(v) = 16 /\ CDecodeAny(value) = CDecodeV1(v)
  <2>1. Byte(v, 0) = Version1 /\ Byte(v, 2) # 0 /\ Byte(v, 3) = 0
    BY <1>4, <1>7, Zenon DEF CDecodeV1
  <2>2. ~ (Len(v) = 19)
    BY <1>7
  <2>3. PyDecodeAny(v) = PyDecode(v)
    BY <1>5, <1>7, <2>1, <2>2, Zenon DEF PyDecodeAny
  <2>4. PyDecode(v) = CDecodeV1(v)
    BY <1>7, <2>1, <2>2, Zenon DEF PyDecode, CDecodeV1
  <2> QED BY <1>1, <1>3, <1>7, <2>3, <2>4, Zenon
<1>8. CASE Len(v) = 6 /\ CDecodeAny(value) = CDecodeV0(v)
  <2>1. Byte(v, 0) \in {V0Enabled, V0Disabled} /\ Byte(v, 1) # 0
    BY <1>4, <1>8, Zenon DEF CDecodeV0
  <2>2. ~ (Len(v) = 19) /\ ~ (Len(v) = 16) /\ Len(v) > 0 /\ ~ (Len(v) < 6)
    BY <1>8
  <2>3. PyDecodeAny(v) = PyDecodeV0(v)
    BY <2>1, <2>2, Zenon DEF PyDecodeAny
  <2>4. PyDecodeV0(v) = CDecodeV0(v)
    BY <2>1, <2>2, Zenon DEF PyDecodeV0, CDecodeV0
  <2> QED BY <1>1, <1>3, <1>8, <2>3, <2>4, Zenon
<1> QED BY <1>3, <1>6, <1>7, <1>8

\* Some element is the first.
LEMMA FirstExists ==
  ASSUME NEW S \in SUBSET Nat, S # {}
  PROVE  First(S) \in S /\ \A i \in S : First(S) <= i
<1>1. PICK j \in S : \A m \in S : ~ (<<m, j>> \in Below)
  BY NatLessThanWellFounded, WFMin DEF OpToRel, Below
<1>2. \A m \in S : j <= m
  <2>1. ASSUME NEW m \in S PROVE j <= m
    <3>1. m \in Nat /\ j \in Nat
      OBVIOUS
    <3>2. m < j => <<m, j>> \in Below
      BY <3>1 DEF Below
    <3> QED BY <1>1, <3>1, <3>2
  <2> QED BY <2>1
<1> QED BY <1>2, Zenon DEF First

LEMMA ManufacturersIn ==
  ASSUME NEW ad \in Seq(Int)
  PROVE  /\ Manufacturers(ad) \in SUBSET Nat
         /\ \A i \in Manufacturers(ad) : Value(ad, i) \in Seq(Int)
<1>1. ASSUME NEW i \in Manufacturers(ad) PROVE i \in Nat /\ Value(ad, i) \in Seq(Int)
  <2>1. IsElement(ad, i)
    BY <1>1, Zenon DEF Manufacturers, Elements
  <2>2. i \in Nat /\ i \in 1 .. Len(ad) /\ i + ad[i] <= Len(ad) /\ ad[i] \in Int
    BY <2>1 DEF IsElement
  <2>3. i + 2 >= 1 /\ i + 2 \in Int /\ i + ad[i] \in Int
    BY <2>2
  <2>4. PICK a \in Int, b \in Int : a = i + 2 /\ b = i + ad[i]
    BY <2>3
  <2>5. a >= 1 /\ b <= Len(ad)
    BY <2>2, <2>3, <2>4
  <2>6. SubSeq(ad, a, b) \in Seq(Int)
    <3>1. ASSUME NEW k \in a .. b PROVE k \in 1 .. Len(ad)
      BY <2>5
    <3> QED BY <2>5
  <2> QED BY <2>2, <2>4, <2>6, Zenon DEF Value
<1> QED BY <1>1

LEMMA BoardResult ==
  ASSUME NEW ad \in Seq(Int)
  PROVE  /\ Result(BoardReads(ad))
         /\ BoardReads(ad).ok => PiReads(ad) = BoardReads(ad)
<1>1. CASE Manufacturers(ad) = {}
  <2>1. BoardReads(ad) = Failed("none")
    BY <1>1, Zenon DEF BoardReads
  <2> QED BY <2>1, Outcomes, Zenon DEF Result
<1>2. CASE Manufacturers(ad) # {}
  <2>1. PICK j : j = First(Manufacturers(ad))
    OBVIOUS
  <2>2. j \in Manufacturers(ad) /\ \A i \in Manufacturers(ad) : j <= i
    BY <1>2, <2>1, ManufacturersIn, FirstExists, Zenon
  <2>3. PICK value : value = Value(ad, j)
    OBVIOUS
  <2>4. value \in Seq(Int)
    BY <2>2, <2>3, ManufacturersIn, Zenon
  <2>5. BoardReads(ad) = CDecodeAny(value)
    BY <1>2, <2>1, <2>3, Zenon DEF BoardReads
  <2>6. Result(CDecodeAny(value))
    <3>1. PICK v : v = SubSeq(value, 3, Len(value))
      OBVIOUS
    <3>2. \/ CDecodeAny(value) = Failed("length") \/ CDecodeAny(value) = Failed("company")
          \/ CDecodeAny(value) = Failed("format") \/ CDecodeAny(value).ok = TRUE
      BY <2>4, <3>1, CValue, CResults, Zenon
    <3> QED BY <3>2, Zenon DEF Result
  <2>7. ASSUME BoardReads(ad).ok PROVE PiReads(ad) = BoardReads(ad)
    <3>1. /\ Len(value) >= 2 /\ Get16(value, 0) = Company
          /\ PyDecodeAny(SubSeq(value, 3, Len(value))) = CDecodeAny(value)
      BY <2>4, <2>5, <2>7, ValueImplies, Zenon
    <3>2. j \in Ours(ad) /\ Ours(ad) \subseteq Manufacturers(ad)
      BY <2>2, <2>3, <3>1, Zenon DEF Ours
    <3>3. First(Ours(ad)) = j
      <4>1. /\ Ours(ad) \in SUBSET Int /\ \A i \in Ours(ad) : j <= i
        BY <2>2, <3>2, ManufacturersIn
      <4> QED BY <3>2, <4>1, FirstIs, Zenon
    <3> QED BY <2>3, <2>5, <3>1, <3>2, <3>3, Zenon DEF PiReads
  <2> QED BY <2>5, <2>6, <2>7, Zenon
<1> QED BY <1>1, <1>2

-----------------------------------------------------------------------------
(* The invariant.                                                          *)

BoardCounters == {"devices", "ours", "foreign", "wrong_size", "malformed", "legacy_v0",
                  "unknown_node", "queue_drops"}
BleCounters == {"reports", "foreign", "undecodable", "self_filtered", "delivered"}
UdpCounters == {"received", "undecodable", "self_filtered", "delivered"}

AirType ==
  /\ air \in [Devices -> Seq(Int)] /\ said = [d \in Fleet |-> said[d]]
  /\ counters \in [BoardCounters -> Nat] /\ ble \in [BleCounters -> Nat]
  /\ udp \in [UdpCounters -> Nat]

\* What a device of the fleet advertises is read by everyone as what it sent.
Saying ==
  /\ \A d \in Fleet : air[d] # Silence =>
       /\ BoardReads(air[d]) = Reads(said[d]) /\ PiReads(air[d]) = Reads(said[d])
       /\ said[d] \in sent
  /\ air[Pi] = Silence => said[Pi] = IdlePacket
  /\ air[Stranger] # Silence => air[Stranger] \in StrangerAds

Broadcasts == \A data \in net : \E p \in sent : UdpDecode(data) = Reads(p) /\ data = PyManufacturer(p)

\* What is held of each neighbour is one of these packets.
OnePacketEach(held, packets) ==
  \A k \in DOMAIN Neighbors : held[k].heard =>
    \E p \in packets :
      /\ p.node = Neighbors[k] /\ p.enabled = held[k].enabled /\ p.seq = held[k].seq
      /\ held[k].vstate = p.vstate[1]
      /\ held[k].vstateQ = IF Len(p.vstate) = 2 THEN p.vstate[2] ELSE 0

Holding ==
  /\ OnePacketEach(info, sent) /\ OnePacketEach(absorbed, sent)
  /\ queued # <<>> => OnePacketEach(queued[1], sent)

AirIInv == AirType /\ Saying /\ Broadcasts /\ Holding /\ CountedOnce

LEMMA Four ==
  /\ Board # Pi /\ Board # Legacy /\ Board # Stranger
  /\ Pi # Legacy /\ Pi # Stranger /\ Legacy # Stranger
<1>1. ASSUME NEW a, NEW b, NEW c
      PROVE  IsFiniteSet({a, b, c}) /\ Cardinality({a, b, c}) <= 3
  <2>1. IsFiniteSet({a}) /\ Cardinality({a}) = 1
    BY FS_Singleton, Zenon
  <2>2. IsFiniteSet({a} \cup {b}) /\ Cardinality({a} \cup {b}) \in {1, 2}
    <3>1. Cardinality({a} \cup {b}) = IF b \in {a} THEN 1 ELSE 1 + 1
      BY <2>1, FS_AddElement
    <3> QED BY <2>1, <3>1, FS_AddElement
  <2>3. {a, b} = {a} \cup {b} /\ {a, b, c} = ({a} \cup {b}) \cup {c}
    BY Zenon
  <2>4. /\ IsFiniteSet(({a} \cup {b}) \cup {c})
        /\ Cardinality(({a} \cup {b}) \cup {c}) =
             IF c \in {a} \cup {b} THEN Cardinality({a} \cup {b}) ELSE Cardinality({a} \cup {b}) + 1
    BY <2>2, FS_AddElement, Zenon
  <2> QED BY <2>2, <2>3, <2>4
<1>2. ~ (Cardinality({Board, Pi, Legacy, Stranger}) <= 3)
  BY AirWireAssumption
<1>3. \A S : Cardinality(S) <= 3 => S # {Board, Pi, Legacy, Stranger}
  BY <1>2, Zenon
<1>4. Board # Pi
  <2> SUFFICES ASSUME Board = Pi PROVE FALSE
    OBVIOUS
  <2>1. {Board, Legacy, Stranger} = {Board, Pi, Legacy, Stranger}
    OBVIOUS
  <2> QED BY <1>1, <1>3, <2>1, Zenon
<1>5. Board # Legacy
  <2> SUFFICES ASSUME Board = Legacy PROVE FALSE
    OBVIOUS
  <2>1. {Board, Pi, Stranger} = {Board, Pi, Legacy, Stranger}
    OBVIOUS
  <2> QED BY <1>1, <1>3, <2>1, Zenon
<1>6. Board # Stranger
  <2> SUFFICES ASSUME Board = Stranger PROVE FALSE
    OBVIOUS
  <2>1. {Board, Pi, Legacy} = {Board, Pi, Legacy, Stranger}
    OBVIOUS
  <2> QED BY <1>1, <1>3, <2>1, Zenon
<1>7. Pi # Legacy
  <2> SUFFICES ASSUME Pi = Legacy PROVE FALSE
    OBVIOUS
  <2>1. {Board, Pi, Stranger} = {Board, Pi, Legacy, Stranger}
    OBVIOUS
  <2> QED BY <1>1, <1>3, <2>1, Zenon
<1>8. Pi # Stranger
  <2> SUFFICES ASSUME Pi = Stranger PROVE FALSE
    OBVIOUS
  <2>1. {Board, Pi, Legacy} = {Board, Pi, Legacy, Stranger}
    OBVIOUS
  <2> QED BY <1>1, <1>3, <2>1, Zenon
<1>9. Legacy # Stranger
  <2> SUFFICES ASSUME Legacy = Stranger PROVE FALSE
    OBVIOUS
  <2>1. {Board, Pi, Legacy} = {Board, Pi, Legacy, Stranger}
    OBVIOUS
  <2> QED BY <1>1, <1>3, <2>1, Zenon
<1> QED BY <1>4, <1>5, <1>6, <1>7, <1>8, <1>9

LEMMA MoreSent ==
  ASSUME NEW held, NEW packets, NEW more, packets \subseteq more, OnePacketEach(held, packets)
  PROVE  OnePacketEach(held, more)
BY Zenon DEF OnePacketEach

LEMMA ElementType ==
  ASSUME NEW value \in Seq(Int), NEW type \in Int
  PROVE  Element(type, value) \in Seq(Int) /\ Element(type, value) # Silence
<1> DEFINE h == <<Len(value) + 1, type>>
<1>1. h \in Seq(Int) /\ Len(h) = 2
  OBVIOUS
<1> HIDE DEF h
<1>2. h \o value \in Seq(Int) /\ Len(h \o value) = Len(h) + Len(value)
  BY <1>1, CatType, Zenon
<1>3. Len(value) \in Nat
  OBVIOUS
<1>4. Len(h \o value) >= 2
  BY <1>1, <1>2, <1>3
<1>5. h \o value # << >>
  <2> SUFFICES ASSUME h \o value = << >> PROVE FALSE
    OBVIOUS
  <2>1. Len(<< >>) = 0
    OBVIOUS
  <2>2. Len(h \o value) = 0
    BY <2>1, Zenon
  <2> QED BY <1>4, <2>2
<1> QED BY <1>2, <1>5, Zenon DEF Element, h, Silence

\* What one device of the fleet puts out concerns no other.
LEMMA OneSays ==
  ASSUME AirType, Saying, Broadcasts, Holding,
         NEW d \in Fleet, NEW ad \in Seq(Int), ad # Silence, NEW p,
         BoardReads(ad) = Reads(p), PiReads(ad) = Reads(p),
         air' = [air EXCEPT ![d] = ad], said' = [said EXCEPT ![d] = p], sent' = sent \cup {p},
         UNCHANGED <<boardVars, piVars>>
  PROVE  /\ AirType' /\ Saying' /\ Holding'
         /\ net' = net => Broadcasts'
<1>1. d \in Devices /\ Fleet \subseteq Devices /\ Pi \in Fleet /\ Stranger \in Devices /\ d # Stranger
  BY Four DEF Devices, Fleet
<1>2. AirType'
  <2>1. air' \in [Devices -> Seq(Int)]
    BY <1>1 DEF AirType
  <2>2. said' = [e \in Fleet |-> said'[e]]
    BY DEF AirType
  <2> QED BY <2>1, <2>2 DEF AirType, boardVars, piVars
<1>3. /\ air'[d] = ad /\ said'[d] = p
      /\ \A e \in Devices : e # d => air'[e] = air[e]
      /\ \A e \in Fleet : e # d => said'[e] = said[e]
  BY <1>1 DEF AirType
<1>4. sent \subseteq sent' /\ p \in sent'
  OBVIOUS
<1>5. Saying'
  <2>1. ASSUME NEW e \in Fleet, air'[e] # Silence
        PROVE  /\ BoardReads(air'[e]) = Reads(said'[e]) /\ PiReads(air'[e]) = Reads(said'[e])
               /\ said'[e] \in sent'
    <3>1. CASE e = d
      BY <1>3, <1>4, <3>1, Zenon
    <3>2. CASE e # d
      <4>1. air'[e] = air[e] /\ said'[e] = said[e]
        BY <1>1, <1>3, <3>2
      <4> QED BY <1>4, <2>1, <4>1 DEF Saying
    <3> QED BY <3>1, <3>2
  <2>2. air'[Pi] = Silence => said'[Pi] = IdlePacket
    BY <1>1, <1>3 DEF Saying
  <2>3. air'[Stranger] # Silence => air'[Stranger] \in StrangerAds
    BY <1>1, <1>3 DEF Saying
  <2> QED BY <2>1, <2>2, <2>3, Zenon DEF Saying, Silence, IdlePacket, Fleet
<1>6. Holding'
  <2>1. info' = info /\ absorbed' = absorbed /\ queued' = queued
    BY DEF boardVars
  <2>2. PICK i, a, q, s, t : i = info /\ a = absorbed /\ q = queued /\ s = sent /\ t = sent'
    OBVIOUS
  <2>3. /\ OnePacketEach(i, s) /\ OnePacketEach(a, s) /\ (q # <<>> => OnePacketEach(q[1], s))
        /\ s \subseteq t
    BY <1>4, <2>2, Zenon DEF Holding
  <2>4. /\ OnePacketEach(i, t) /\ OnePacketEach(a, t) /\ (q # <<>> => OnePacketEach(q[1], t))
    BY <2>3, MoreSent, Zenon
  <2> QED BY <2>1, <2>2, <2>4, Zenon DEF Holding
<1>7. net' = net => Broadcasts'
  BY <1>4 DEF Broadcasts
<1> QED BY <1>2, <1>5, <1>6, <1>7

-----------------------------------------------------------------------------
LEMMA IdleFits == IdlePacket \in Packets /\ Cut(IdlePacket) = IdlePacket
<1>1. ListenerId \in 1 .. Base - 1
  BY AirWireAssumption
<1>2. 0 \in Int32 /\ 0 \in 0 .. Base2 - 1 /\ 0 \in Nat
  <2>1. Base4 \div 2 \in Nat /\ Base4 \div 2 >= 1
    BY Places
  <2> QED BY <2>1, Places DEF Int32
<1>3. <<0>> \in Seq(Int32) /\ Len(<<0>>) = 1
  BY <1>2
<1>4. IdlePacket \in Packets
  BY <1>1, <1>2, <1>3 DEF IdlePacket, Packets
<1>5. IdlePacket.time < Base6
  BY Places DEF IdlePacket
<1> QED BY <1>4, <1>5, CutFields

LEMMA AirInitially == AirInit => AirIInv
<1> SUFFICES ASSUME AirInit PROVE AirIInv
  OBVIOUS
<1>1. AirType
  <2>1. << >> \in Seq(Int)
    OBVIOUS
  <2>2. air \in [Devices -> Seq(Int)] /\ said = [d \in Fleet |-> said[d]]
    BY <2>1 DEF AirInit, Silence
  <2>3. counters \in [BoardCounters -> Nat] /\ ble \in [BleCounters -> Nat]
        /\ udp \in [UdpCounters -> Nat]
    BY DEF AirInit, BoardCounters, BleCounters, UdpCounters
  <2> QED BY <2>2, <2>3 DEF AirType
<1>2. Saying
  <2>1. Fleet \subseteq Devices /\ Pi \in Fleet /\ Pi \in Devices /\ Stranger \in Devices
    BY DEF Fleet, Devices
  <2>2. \A d \in Devices : air[d] = Silence
    BY DEF AirInit
  <2>3. said[Pi] = IdlePacket
    BY <2>1 DEF AirInit
  <2> QED BY <2>1, <2>2, <2>3, Zenon DEF Saying
<1>3. Broadcasts
  BY DEF AirInit, Broadcasts
<1>4. Holding
  <2>1. \A k \in DOMAIN Neighbors : info[k] = Unheard /\ absorbed[k] = Unheard
    BY DEF AirInit
  <2>2. Unheard.heard = FALSE
    BY DEF Unheard
  <2>3. queued = <<>>
    BY DEF AirInit
  <2> QED BY <2>1, <2>2, <2>3, Zenon DEF Holding, OnePacketEach
<1>5. CountedOnce
  <2>1. \A f \in BoardCounters : counters[f] = 0
    BY DEF AirInit, BoardCounters
  <2>2. \A f \in BleCounters : ble[f] = 0
    BY DEF AirInit, BleCounters
  <2>3. \A f \in UdpCounters : udp[f] = 0
    BY DEF AirInit, UdpCounters
  <2> QED BY <2>1, <2>2, <2>3 DEF CountedOnce, BoardCounters, BleCounters, UdpCounters
<1> QED BY <1>1, <1>2, <1>3, <1>4, <1>5 DEF AirIInv

-----------------------------------------------------------------------------
(* The devices.                                                            *)

LEMMA SameCounts ==
  ASSUME CountedOnce, UNCHANGED <<boardVars, piVars>>
  PROVE  CountedOnce'
BY DEF CountedOnce, boardVars, piVars

LEMMA BoardSays == AirIInv /\ BoardAdvertises => AirIInv'
<1> SUFFICES ASSUME AirIInv, NEW p \in BoardPackets,
                    air' = [air EXCEPT ![Board] = Element(AdManufacturer, CEncode(p))],
                    said' = [said EXCEPT ![Board] = [p EXCEPT !.time = @ % Base6]],
                    sent' = sent \cup {said'[Board]},
                    UNCHANGED <<net, boardVars, piVars>>
             PROVE  AirIInv'
  BY Zenon DEF BoardAdvertises
<1>1. AirType /\ Saying /\ Broadcasts /\ Holding /\ CountedOnce
  BY DEF AirIInv
<1>2. p \in Packets
  BY AirTraffic
<1>3. PICK value : value = PyManufacturer(p)
  OBVIOUS
<1>4. ValueReads(value, Cut(p)) /\ value \in Seq(Int)
  BY <1>2, <1>3, PacketValue, Zenon DEF ValueReads
<1>5. PICK ad : ad = Element(AdManufacturer, value)
  OBVIOUS
<1>6. /\ BoardReads(ad) = Reads(Cut(p)) /\ PiReads(ad) = Reads(Cut(p))
      /\ ad \in Seq(Int) /\ ad # Silence
  <2>1. AdManufacturer \in Int
    BY DEF AdManufacturer
  <2> QED BY <1>4, <1>5, <2>1, OneElement, ElementType, Zenon
<1>7. air' = [air EXCEPT ![Board] = ad]
  <2>1. CEncode(p) = value
    BY <1>2, <1>3, CEncodes, Zenon DEF PyManufacturer
  <2> QED BY <1>5, <2>1, Zenon
<1>8. said' = [said EXCEPT ![Board] = Cut(p)] /\ Board \in Fleet
  BY Zenon DEF Cut, Fleet
<1>9. sent' = sent \cup {Cut(p)}
  <2>1. said'[Board] = Cut(p)
    BY <1>1, <1>8 DEF AirType
  <2> QED BY <2>1
<1>10. PICK c : c = Cut(p)
  OBVIOUS
<1>11. AirType' /\ Saying' /\ Holding' /\ Broadcasts'
  BY <1>1, <1>6, <1>7, <1>8, <1>9, <1>10, OneSays
<1> QED BY <1>1, <1>11, SameCounts DEF AirIInv

LEMMA PiSays == AirIInv /\ PiPublishes => AirIInv'
<1> SUFFICES ASSUME AirIInv, NEW p \in PiPackets, Holds(p),
                    air' = [air EXCEPT ![Pi] = Element(AdManufacturer, PyManufacturer(p))],
                    net' = net \cup {PyManufacturer(p)},
                    said' = [said EXCEPT ![Pi] = p], sent' = sent \cup {p},
                    UNCHANGED <<boardVars, piVars>>
             PROVE  AirIInv'
  BY Zenon DEF PiPublishes
<1>1. AirType /\ Saying /\ Broadcasts /\ Holding /\ CountedOnce
  BY DEF AirIInv
<1>2. p \in Packets /\ Cut(p) = p
  <2>1. p \in Arguments
    BY AirTraffic
  <2>2. /\ p.vstate \in Seq(Int) /\ Len(p.vstate) \in {1, 2}
        /\ \A k \in DOMAIN p.vstate : p.vstate[k] \in Int32
    BY <2>1 DEF Holds, Arguments
  <2>3. p.vstate \in Seq(Int32)
    BY <2>2
  <2>4. p \in Packets
    <3>1. p.time \in Nat /\ p.node \in 1 .. Base - 1 /\ p.seq \in 0 .. Base2 - 1
      BY Places DEF Holds
    <3> QED BY <2>1, <2>2, <2>3, <3>1 DEF Arguments, Packets
  <2>5. p.time < Base6
    BY Places DEF Holds
  <2> QED BY <2>4, <2>5, CutFields
<1>3. PICK value : value = PyManufacturer(p)
  OBVIOUS
<1>4. ValueReads(value, p) /\ value \in Seq(Int) /\ UdpDecode(value) = Reads(p)
  BY <1>2, <1>3, PacketValue, Zenon DEF ValueReads
<1>5. PICK ad : ad = Element(AdManufacturer, value)
  OBVIOUS
<1>6. /\ BoardReads(ad) = Reads(p) /\ PiReads(ad) = Reads(p)
      /\ ad \in Seq(Int) /\ ad # Silence
  <2>1. AdManufacturer \in Int
    BY DEF AdManufacturer
  <2> QED BY <1>4, <1>5, <2>1, OneElement, ElementType, Zenon
<1>7. air' = [air EXCEPT ![Pi] = ad] /\ Pi \in Fleet
  BY <1>3, <1>5, Zenon DEF Fleet
<1>8. AirType' /\ Saying' /\ Holding'
  BY <1>1, <1>6, <1>7, OneSays
<1>9. Broadcasts'
  <2>1. ASSUME NEW data \in net'
        PROVE  \E q \in sent' : UdpDecode(data) = Reads(q) /\ data = PyManufacturer(q)
    <3>1. CASE data \in net
      BY <1>1, <3>1 DEF Broadcasts
    <3>2. CASE data = value
      BY <1>3, <1>4, <3>2
    <3> QED BY <1>3, <2>1, <3>1, <3>2
  <2> QED BY <2>1, Zenon DEF Broadcasts
<1> QED BY <1>1, <1>8, <1>9, SameCounts DEF AirIInv

LEMMA PiStarts == AirIInv /\ PiIdles => AirIInv'
<1> SUFFICES ASSUME AirIInv, PiIdles PROVE AirIInv'
  OBVIOUS
<1>1. AirType /\ Saying /\ Broadcasts /\ Holding /\ CountedOnce
  BY DEF AirIInv
<1>2. PICK p : p = IdlePacket
  OBVIOUS
<1>3. PICK value : value = PyManufacturer(p)
  OBVIOUS
<1>4. ValueReads(value, p) /\ value \in Seq(Int)
  BY <1>2, <1>3, IdleFits, PacketValue, Zenon DEF ValueReads
<1>5. PICK ad : ad = Element(AdManufacturer, value)
  OBVIOUS
<1>6. /\ BoardReads(ad) = Reads(p) /\ PiReads(ad) = Reads(p)
      /\ ad \in Seq(Int) /\ ad # Silence
  <2>1. AdManufacturer \in Int
    BY DEF AdManufacturer
  <2> QED BY <1>4, <1>5, <2>1, OneElement, ElementType, Zenon
<1>7. /\ air' = [air EXCEPT ![Pi] = ad] /\ sent' = sent \cup {p} /\ Pi \in Fleet
      /\ UNCHANGED <<net, said, boardVars, piVars>> /\ said[Pi] = p
  BY <1>1, <1>2, <1>3, <1>5, Zenon DEF PiIdles, Saying, Fleet
<1>8. said' = [said EXCEPT ![Pi] = p]
  <2>1. said = [d \in Fleet |-> said[d]]
    BY <1>1, Zenon DEF AirType
  <2> QED BY <1>7, <2>1
<1>9. AirType' /\ Saying' /\ Holding' /\ Broadcasts'
  BY <1>1, <1>6, <1>7, <1>8, OneSays
<1> QED BY <1>1, <1>7, <1>9, SameCounts DEF AirIInv

LEMMA LegacySays == AirIInv /\ LegacyAdvertises => AirIInv'
<1> SUFFICES ASSUME AirIInv, NEW p \in LegacyPackets,
                    air' = [air EXCEPT ![Legacy] =
                      Element(AdName, [k \in 1 .. 7 |-> 1]) \o
                      Element(AdManufacturer, Put16(Company) \o
                        <<IF p.enabled THEN V0Enabled ELSE V0Disabled, p.node>> \o Put32(p.vstate[1]))],
                    said' = [said EXCEPT ![Legacy] = p], sent' = sent \cup {p},
                    UNCHANGED <<net, boardVars, piVars>>
             PROVE  AirIInv'
  BY Zenon DEF LegacyAdvertises
<1>1. AirType /\ Saying /\ Broadcasts /\ Holding /\ CountedOnce
  BY DEF AirIInv
<1>2. p \in Legacies
  BY AirTraffic
<1>3. PICK value : value = Put16(Company) \o Payload0(p)
  OBVIOUS
<1>4. ValueReads(value, p) /\ value \in Seq(Int) /\ Len(value) = 8
  BY <1>2, <1>3, LegacyValue, Zenon DEF ValueReads
<1>5. Put16(Company) \o <<IF p.enabled THEN V0Enabled ELSE V0Disabled, p.node>> \o Put32(p.vstate[1])
      = value
  <2> DEFINE h == <<IF p.enabled THEN V0Enabled ELSE V0Disabled, p.node>>
             x == Put32(p.vstate[1])
             k == Put16(Company)
  <2>1. p \in Packets
    BY <1>2 DEF Legacies
  <2>2. p.node \in Int /\ p.vstate[1] \in Int
    BY <2>1, PacketFields
  <2>3. h \in Seq(Int)
    BY <2>2 DEF V0Enabled, V0Disabled
  <2>4. x \in Seq(Int) /\ k \in Seq(Int)
    BY <2>2, PutType, CompanyPut
  <2> HIDE DEF h, x, k
  <2>5. k \o h \o x = k \o (h \o x)
    BY <2>3, <2>4, Associates, Zenon
  <2> QED BY <1>3, <2>5, Zenon DEF Payload0, h, x, k
<1>6. PICK ad : ad = LegacyAd(value)
  OBVIOUS
<1>7. BoardReads(ad) = Reads(p) /\ PiReads(ad) = Reads(p)
  BY <1>4, <1>6, BehindTheName, Zenon
<1>8. ad \in Seq(Int) /\ ad # Silence
  <2> DEFINE name == Element(AdName, [k \in 1 .. 7 |-> 1])
             mf == Element(AdManufacturer, value)
  <2>1. name \in Seq(Int) /\ name # Silence /\ mf \in Seq(Int)
    <3>1. AdName \in Int /\ AdManufacturer \in Int
      BY DEF AdName, AdManufacturer
    <3>2. [k \in 1 .. 7 |-> 1] \in Seq(Int)
      OBVIOUS
    <3> QED BY <1>4, <3>1, <3>2, ElementType, Zenon
  <2>2. ad = name \o mf
    BY <1>6, Zenon DEF LegacyAd
  <2> HIDE DEF name, mf
  <2>3. name \o mf \in Seq(Int) /\ Len(name \o mf) = Len(name) + Len(mf)
    BY <2>1, CatType, Zenon
  <2>4. Len(name) # 0 /\ Len(name) \in Nat /\ Len(mf) \in Nat
    BY <2>1 DEF Silence
  <2>5. Len(ad) # 0
    BY <2>2, <2>3, <2>4
  <2>6. Len(<< >>) = 0
    OBVIOUS
  <2> QED BY <2>2, <2>3, <2>5, <2>6, Zenon DEF Silence
<1>9. air' = [air EXCEPT ![Legacy] = ad] /\ Legacy \in Fleet
  BY <1>5, <1>6, Zenon DEF LegacyAd, Fleet
<1>10. AirType' /\ Saying' /\ Holding' /\ Broadcasts'
  BY <1>1, <1>7, <1>8, <1>9, OneSays
<1> QED BY <1>1, <1>10, SameCounts DEF AirIInv

LEMMA StrangerSays == AirIInv /\ StrangerAdvertises => AirIInv'
<1> SUFFICES ASSUME AirIInv, NEW ad \in StrangerAds, air' = [air EXCEPT ![Stranger] = ad],
                    UNCHANGED <<net, said, sent, boardVars, piVars>>
             PROVE  AirIInv'
  BY Zenon DEF StrangerAdvertises
<1>1. AirType /\ Saying /\ Broadcasts /\ Holding /\ CountedOnce
  BY DEF AirIInv
<1>2. ad \in Seq(Int)
  BY AirTraffic
<1>3. AirType'
  BY <1>1, <1>2 DEF AirType, Devices, boardVars, piVars
<1>4. Saying'
  <2>1. \A d \in Fleet : air'[d] = air[d]
    BY <1>1, Four DEF AirType, Fleet, Devices
  <2>2. air'[Stranger] = ad
    BY <1>1 DEF AirType, Devices
  <2>3. Pi \in Fleet
    BY DEF Fleet
  <2> QED BY <1>1, <2>1, <2>2, <2>3, Zenon DEF Saying, Silence, IdlePacket, Fleet
<1>5. Broadcasts' /\ Holding'
  BY <1>1 DEF Broadcasts, Holding, OnePacketEach, boardVars
<1> QED BY <1>1, <1>3, <1>4, <1>5, SameCounts DEF AirIInv

-----------------------------------------------------------------------------
(* The receivers.                                                          *)

\* The counters after one reception by a board, which is one verdict.
LEMMA BoardCounts ==
  ASSUME NEW c \in [BoardCounters -> Nat], NEW r, Result(r), NEW more,
         more \subseteq {"legacy_v0", "unknown_node", "queue_drops"},
         "legacy_v0" \in more \/ "unknown_node" \in more => r.ok,
         c.ours + c.foreign + c.wrong_size + c.malformed <= c.devices,
         c.unknown_node <= c.ours, c.legacy_v0 <= c.ours,
         NEW new, new = Bump(c, {"devices"} \cup Verdict(r) \cup more)
  PROVE  /\ new \in [BoardCounters -> Nat]
         /\ new.ours + new.foreign + new.wrong_size + new.malformed <= new.devices
         /\ new.unknown_node <= new.ours /\ new.legacy_v0 <= new.ours
<1> DEFINE F == {"devices"} \cup Verdict(r) \cup more
<1>1. /\ new \in [BoardCounters -> Nat]
      /\ \A f \in BoardCounters : new[f] = IF f \in F THEN c[f] + 1 ELSE c[f]
  <2> HIDE DEF F
  <2>1. new = Bump(c, F)
    BY Zenon DEF F
  <2>2. /\ Bump(c, F) \in [BoardCounters -> Nat]
        /\ \A f \in BoardCounters : Bump(c, F)[f] = IF f \in F THEN c[f] + 1 ELSE c[f]
    BY DEF Bump
  <2> QED BY <2>1, <2>2, Zenon
<1>2. /\ Verdict(r) = {} /\ ~ r.ok
      \/ Verdict(r) = {"ours"}
      \/ \E f \in {"foreign", "wrong_size", "malformed"} : Verdict(r) = {f} /\ ~ r.ok
  <2>1. CASE r.ok = TRUE
    BY <2>1, Zenon DEF Verdict
  <2>2. ASSUME NEW why \in {"company", "length", "format", "none"}, r = Failed(why)
        PROVE  \/ Verdict(r) = {} /\ ~ r.ok
               \/ \E f \in {"foreign", "wrong_size", "malformed"} : Verdict(r) = {f} /\ ~ r.ok
    <3>1. r.ok = FALSE /\ r.why = why
      BY <2>2, Outcomes, Zenon
    <3>2. CASE why = "company"
      <4>1. Verdict(r) = {"foreign"}
        BY <3>1, <3>2 DEF Verdict
      <4> QED BY <3>1, <4>1
    <3>3. CASE why = "length"
      <4>1. Verdict(r) = {"wrong_size"}
        BY <3>1, <3>3 DEF Verdict
      <4> QED BY <3>1, <4>1
    <3>4. CASE why = "format"
      <4>1. Verdict(r) = {"malformed"}
        BY <3>1, <3>4 DEF Verdict
      <4> QED BY <3>1, <4>1
    <3>5. CASE why = "none"
      <4>1. Verdict(r) = {}
        BY <3>1, <3>5 DEF Verdict
      <4> QED BY <3>1, <4>1
    <3> QED BY <2>2, <3>2, <3>3, <3>4, <3>5
  <2> QED BY <2>1, <2>2, Zenon DEF Result
<1>3. new.devices = c.devices + 1
  BY <1>1 DEF BoardCounters
<1>4. /\ c.devices \in Nat /\ c.ours \in Nat /\ c.foreign \in Nat /\ c.wrong_size \in Nat
      /\ c.malformed \in Nat /\ c.unknown_node \in Nat /\ c.legacy_v0 \in Nat
      /\ new.ours \in Nat /\ new.unknown_node \in Nat /\ new.legacy_v0 \in Nat
  BY <1>1 DEF BoardCounters
<1>5. CASE Verdict(r) = {"ours"}
  <2>1. "ours" \in F /\ "foreign" \notin F /\ "wrong_size" \notin F /\ "malformed" \notin F
    BY <1>5
  <2>2. /\ new.ours = c.ours + 1 /\ new.foreign = c.foreign /\ new.wrong_size = c.wrong_size
        /\ new.malformed = c.malformed
        /\ new.unknown_node <= c.unknown_node + 1 /\ new.legacy_v0 <= c.legacy_v0 + 1
    <3> HIDE DEF F
    <3> QED BY <1>1, <1>4, <2>1 DEF BoardCounters
  <2>3. new.unknown_node <= new.ours /\ new.legacy_v0 <= new.ours
    BY <1>4, <2>2
  <2>4. new.ours + new.foreign + new.wrong_size + new.malformed <= new.devices
    BY <1>3, <1>4, <2>2
  <2> QED BY <1>1, <2>3, <2>4
<1>6. ASSUME ~ r.ok, NEW g \in {"none", "foreign", "wrong_size", "malformed"},
             Verdict(r) \subseteq {g}
      PROVE  /\ new.ours + new.foreign + new.wrong_size + new.malformed <= new.devices
             /\ new.unknown_node <= new.ours /\ new.legacy_v0 <= new.ours
  <2>1. /\ "ours" \notin F /\ "unknown_node" \notin F /\ "legacy_v0" \notin F
        /\ "foreign" \in F => g = "foreign"
        /\ "wrong_size" \in F => g = "wrong_size"
        /\ "malformed" \in F => g = "malformed"
    BY <1>6
  <2>2. /\ new.ours = c.ours /\ new.unknown_node = c.unknown_node /\ new.legacy_v0 = c.legacy_v0
        /\ new.foreign = c.foreign \/ (g = "foreign" /\ new.foreign = c.foreign + 1)
        /\ new.wrong_size = c.wrong_size \/ (g = "wrong_size" /\ new.wrong_size = c.wrong_size + 1)
        /\ new.malformed = c.malformed \/ (g = "malformed" /\ new.malformed = c.malformed + 1)
    <3> HIDE DEF F
    <3> QED BY <1>1, <1>4, <2>1 DEF BoardCounters
  <2>3. new.unknown_node <= new.ours /\ new.legacy_v0 <= new.ours
    BY <2>2
  <2>4. CASE g = "foreign"
    <3>1. new.wrong_size = c.wrong_size /\ new.malformed = c.malformed
      BY <2>2, <2>4
    <3> QED BY <1>3, <1>4, <2>2, <2>3, <3>1
  <2>5. CASE g = "wrong_size"
    <3>1. new.foreign = c.foreign /\ new.malformed = c.malformed
      BY <2>2, <2>5
    <3> QED BY <1>3, <1>4, <2>2, <2>3, <3>1
  <2>6. CASE g = "malformed"
    <3>1. new.foreign = c.foreign /\ new.wrong_size = c.wrong_size
      BY <2>2, <2>6
    <3> QED BY <1>3, <1>4, <2>2, <2>3, <3>1
  <2>7. CASE g = "none"
    <3>1. new.foreign = c.foreign /\ new.wrong_size = c.wrong_size /\ new.malformed = c.malformed
      BY <2>2, <2>7
    <3> QED BY <1>3, <1>4, <2>2, <2>3, <3>1
  <2> QED BY <2>4, <2>5, <2>6, <2>7
<1> QED BY <1>1, <1>2, <1>5, <1>6

LEMMA SameHeld ==
  ASSUME NEW held, NEW packets, OnePacketEach(held, packets), NEW other,
         \A k \in DOMAIN Neighbors : other[k] = held[k]
  PROVE  OnePacketEach(other, packets)
<1> SUFFICES ASSUME NEW k \in DOMAIN Neighbors, other[k].heard
             PROVE  \E p \in packets :
                      /\ p.node = Neighbors[k] /\ p.enabled = other[k].enabled
                      /\ p.seq = other[k].seq /\ other[k].vstate = p.vstate[1]
                      /\ other[k].vstateQ = IF Len(p.vstate) = 2 THEN p.vstate[2] ELSE 0
  BY Zenon DEF OnePacketEach
<1>1. PICK o : o = held[k]
  OBVIOUS
<1>2. other[k] = o
  BY <1>1, Zenon
<1>3. o.heard
  BY <1>2
<1>4. \E p \in packets :
        /\ p.node = Neighbors[k] /\ p.enabled = o.enabled /\ p.seq = o.seq
        /\ o.vstate = p.vstate[1]
        /\ o.vstateQ = IF Len(p.vstate) = 2 THEN p.vstate[2] ELSE 0
  BY <1>1, <1>3, Zenon DEF OnePacketEach
<1> QED BY <1>2, <1>4

\* The snapshot of a board that takes a packet, and the strength it records.
TakenBy(held, p) ==
  [k \in DOMAIN Neighbors |->
     IF k \notin IndexOf(p.node) THEN held[k]
     ELSE [vstate |-> p.vstate[1], vstateQ |-> IF Len(p.vstate) = 2 THEN p.vstate[2] ELSE 0,
           enabled |-> p.enabled, seq |-> p.seq, heard |-> TRUE, rssi |-> held[k].rssi]]
Measured(took, p, strength) ==
  [k \in DOMAIN Neighbors |->
     IF k \in IndexOf(p.node) THEN [took[k] EXCEPT !.rssi = strength] ELSE took[k]]

\* A board that takes a packet of a neighbour holds that packet.
LEMMA PacketTaken ==
  ASSUME NEW held, NEW packets, OnePacketEach(held, packets), NEW p \in packets, NEW strength
  PROVE  /\ OnePacketEach(TakenBy(held, p), packets)
         /\ OnePacketEach(Measured(TakenBy(held, p), p, strength), packets)
<1> DEFINE second == IF Len(p.vstate) = 2 THEN p.vstate[2] ELSE 0
           entry(k) == [vstate |-> p.vstate[1], vstateQ |-> second, enabled |-> p.enabled,
                        seq |-> p.seq, heard |-> TRUE, rssi |-> held[k].rssi]
<1>1. PICK took : took = TakenBy(held, p)
  OBVIOUS
<1>2. PICK new : new = Measured(took, p, strength)
  OBVIOUS
<1>3. \A k \in DOMAIN Neighbors : took[k] = IF k \notin IndexOf(p.node) THEN held[k] ELSE entry(k)
  BY <1>1, Zenon DEF TakenBy
<1>4. \A k \in DOMAIN Neighbors :
        new[k] = IF k \in IndexOf(p.node) THEN [took[k] EXCEPT !.rssi = strength] ELSE took[k]
  BY <1>2, Zenon DEF Measured
<1>5. ASSUME NEW k \in DOMAIN Neighbors, k \in IndexOf(p.node)
      PROVE  /\ p.node = Neighbors[k]
             /\ took[k].enabled = p.enabled /\ took[k].seq = p.seq
             /\ took[k].vstate = p.vstate[1] /\ took[k].vstateQ = second
             /\ new[k].enabled = p.enabled /\ new[k].seq = p.seq
             /\ new[k].vstate = p.vstate[1] /\ new[k].vstateQ = second
  <2>1. p.node = Neighbors[k]
    BY <1>5 DEF IndexOf
  <2>2. took[k] = entry(k)
    BY <1>3, <1>5, Zenon
  <2>3. new[k] = [entry(k) EXCEPT !.rssi = strength]
    BY <1>4, <1>5, <2>2, Zenon
  <2> HIDE DEF second
  <2> QED BY <2>1, <2>2, <2>3
<1>6. ASSUME NEW k \in DOMAIN Neighbors, k \notin IndexOf(p.node)
      PROVE  took[k] = held[k] /\ new[k] = held[k]
  BY <1>3, <1>4, <1>6, Zenon
<1>7. ASSUME NEW some, \A k \in DOMAIN Neighbors :
                /\ k \in IndexOf(p.node) =>
                     /\ p.node = Neighbors[k]
                     /\ some[k].enabled = p.enabled /\ some[k].seq = p.seq
                     /\ some[k].vstate = p.vstate[1] /\ some[k].vstateQ = second
                /\ k \notin IndexOf(p.node) => some[k] = held[k]
      PROVE  OnePacketEach(some, packets)
  <2> SUFFICES ASSUME NEW k \in DOMAIN Neighbors, some[k].heard
               PROVE  \E q \in packets :
                        /\ q.node = Neighbors[k] /\ q.enabled = some[k].enabled
                        /\ q.seq = some[k].seq /\ some[k].vstate = q.vstate[1]
                        /\ some[k].vstateQ = IF Len(q.vstate) = 2 THEN q.vstate[2] ELSE 0
    BY Zenon DEF OnePacketEach
  <2>1. CASE k \in IndexOf(p.node)
    <3>1. /\ p.node = Neighbors[k] /\ p.enabled = some[k].enabled /\ p.seq = some[k].seq
          /\ some[k].vstate = p.vstate[1] /\ some[k].vstateQ = second
      BY <1>7, <2>1
    <3> QED BY <3>1
  <2>2. CASE k \notin IndexOf(p.node)
    <3>1. PICK o : o = held[k]
      OBVIOUS
    <3>2. some[k] = o
      BY <1>7, <2>2, <3>1, Zenon
    <3>3. o.heard
      BY <3>2
    <3>4. \E q \in packets :
            /\ q.node = Neighbors[k] /\ q.enabled = o.enabled /\ q.seq = o.seq
            /\ o.vstate = q.vstate[1]
            /\ o.vstateQ = IF Len(q.vstate) = 2 THEN q.vstate[2] ELSE 0
      BY <3>1, <3>3, Zenon DEF OnePacketEach
    <3> QED BY <3>2, <3>4
  <2> QED BY <2>1, <2>2
<1>8. OnePacketEach(took, packets)
  <2> HIDE DEF second
  <2>1. \A k \in DOMAIN Neighbors :
          /\ k \in IndexOf(p.node) =>
               /\ p.node = Neighbors[k]
               /\ took[k].enabled = p.enabled /\ took[k].seq = p.seq
               /\ took[k].vstate = p.vstate[1] /\ took[k].vstateQ = second
          /\ k \notin IndexOf(p.node) => took[k] = held[k]
    BY <1>5, <1>6, Zenon
  <2> QED BY <1>7, <2>1
<1>9. OnePacketEach(new, packets)
  <2> HIDE DEF second
  <2>1. \A k \in DOMAIN Neighbors :
          /\ k \in IndexOf(p.node) =>
               /\ p.node = Neighbors[k]
               /\ new[k].enabled = p.enabled /\ new[k].seq = p.seq
               /\ new[k].vstate = p.vstate[1] /\ new[k].vstateQ = second
          /\ k \notin IndexOf(p.node) => new[k] = held[k]
    BY <1>5, <1>6, Zenon
  <2> QED BY <1>7, <2>1
<1> QED BY <1>1, <1>2, <1>8, <1>9, Zenon

LEMMA BoardTakes ==
  ASSUME AirIInv, NEW d \in Devices, NEW strength, BoardHears(d, strength)
  PROVE  AirIInv'
<1>1. AirType /\ Saying /\ Broadcasts /\ Holding /\ CountedOnce
  BY DEF AirIInv
<1>2. PICK ad : ad = air[d]
  OBVIOUS
<1>3. PICK r : r = BoardReads(ad)
  OBVIOUS
<1>4. ad \in Seq(Int) /\ ad # Silence
  BY <1>1, <1>2 DEF AirType, BoardHears
<1>5. Result(r)
  BY <1>3, <1>4, BoardResult
<1> DEFINE heard == IF r.ok THEN IndexOf(r.packet.node) ELSE {}
           isV0 == r.ok /\ Len(Value(air[d], First(Manufacturers(air[d])))) = 8
           taken == [k \in DOMAIN Neighbors |->
                       IF k \notin heard THEN info[k]
                       ELSE [vstate |-> r.packet.vstate[1],
                             vstateQ |-> IF Len(r.packet.vstate) = 2 THEN r.packet.vstate[2] ELSE 0,
                             enabled |-> r.packet.enabled, seq |-> r.packet.seq,
                             heard |-> TRUE, rssi |-> info[k].rssi]]
           more == {f \in {"legacy_v0"} : isV0}
                   \cup {f \in {"unknown_node"} : r.ok /\ heard = {}}
                   \cup {f \in {"queue_drops"} : heard # {} /\ queued # <<>>}
           after == [k \in DOMAIN Neighbors |->
                       IF k \in heard THEN [taken[k] EXCEPT !.rssi = strength] ELSE taken[k]]
<1>6. /\ counters' = Bump(counters, {"devices"} \cup Verdict(r)
                                \cup {f \in {"legacy_v0"} : isV0}
                                \cup {f \in {"unknown_node"} : r.ok /\ heard = {}}
                                \cup {f \in {"queue_drops"} : heard # {} /\ queued # <<>>})
      /\ queued' = IF heard = {} THEN queued ELSE <<taken>>
      /\ info' = after
      /\ UNCHANGED <<air, net, said, sent, absorbed, piVars>>
  BY <1>2, <1>3, Zenon DEF BoardHears
<1>7. counters' = Bump(counters, {"devices"} \cup Verdict(r) \cup more)
  <2> HIDE DEF isV0, heard
  <2> DEFINE a == {f \in {"legacy_v0"} : isV0}
             b == {f \in {"unknown_node"} : r.ok /\ heard = {}}
             c == {f \in {"queue_drops"} : heard # {} /\ queued # <<>>}
             z == {"devices"} \cup Verdict(r)
  <2>1. counters' = Bump(counters, z \cup a \cup b \cup c)
    BY <1>6, Zenon
  <2>2. more = a \cup b \cup c
    OBVIOUS
  <2> HIDE DEF a, b, c, z, more
  <2>3. z \cup a \cup b \cup c = z \cup more
    BY <2>2
  <2> QED BY <2>1, <2>3, Zenon DEF z
<1>8. /\ more \subseteq {"legacy_v0", "unknown_node", "queue_drops"}
      /\ "legacy_v0" \in more \/ "unknown_node" \in more => r.ok
  <2>1. "legacy_v0" # "unknown_node" /\ "legacy_v0" # "queue_drops" /\ "unknown_node" # "queue_drops"
    OBVIOUS
  <2> HIDE DEF heard, taken, after
  <2> QED BY <2>1, Zenon
<1>9. /\ counters' \in [BoardCounters -> Nat]
      /\ counters'.ours + counters'.foreign + counters'.wrong_size + counters'.malformed
           <= counters'.devices
      /\ counters'.unknown_node <= counters'.ours /\ counters'.legacy_v0 <= counters'.ours
  <2> HIDE DEF more
  <2>1. PICK c, m, n : c = counters /\ m = more /\ n = counters'
    OBVIOUS
  <2>2. /\ c \in [BoardCounters -> Nat]
        /\ c.ours + c.foreign + c.wrong_size + c.malformed <= c.devices
        /\ c.unknown_node <= c.ours /\ c.legacy_v0 <= c.ours
        /\ m \subseteq {"legacy_v0", "unknown_node", "queue_drops"}
        /\ "legacy_v0" \in m \/ "unknown_node" \in m => r.ok
        /\ n = Bump(c, {"devices"} \cup Verdict(r) \cup m)
    BY <1>1, <1>7, <1>8, <2>1, Zenon DEF AirType, CountedOnce
  <2>3. /\ n \in [BoardCounters -> Nat]
        /\ n.ours + n.foreign + n.wrong_size + n.malformed <= n.devices
        /\ n.unknown_node <= n.ours /\ n.legacy_v0 <= n.ours
    BY <1>5, <2>2, BoardCounts, Zenon
  <2> QED BY <2>1, <2>3, Zenon
<1> HIDE DEF more, isV0
<1>10. AirType' /\ Saying' /\ Broadcasts' /\ CountedOnce'
  <2>1. AirType'
    BY <1>1, <1>6, <1>9, Zenon DEF AirType, piVars
  <2>2. Saying' /\ Broadcasts'
    BY <1>1, <1>6, Zenon DEF Saying, Broadcasts, Silence, IdlePacket, Fleet
  <2>3. CountedOnce'
    BY <1>1, <1>6, <1>9, Zenon DEF CountedOnce, piVars
  <2> QED BY <2>1, <2>2, <2>3
<1>11. Holding'
  <2>1. CASE heard = {}
    <3>1. \A k \in DOMAIN Neighbors : info'[k] = info[k]
      <4> HIDE DEF heard
      <4>1. \A k \in DOMAIN Neighbors : k \notin heard /\ taken[k] = info[k]
        BY <2>1, Zenon
      <4> HIDE DEF taken
      <4> QED BY <1>6, <4>1, Zenon
    <3>2. queued' = queued /\ absorbed' = absorbed /\ sent' = sent
      BY <1>6, <2>1, Zenon
    <3>3. PICK i, j, s : i = info /\ j = info' /\ s = sent
      OBVIOUS
    <3>4. OnePacketEach(i, s) /\ \A k \in DOMAIN Neighbors : j[k] = i[k]
      BY <1>1, <3>1, <3>3, Zenon DEF Holding
    <3>5. OnePacketEach(j, s)
      BY <3>4, SameHeld, Zenon
    <3> QED BY <1>1, <3>2, <3>3, <3>5, Zenon DEF Holding
  <2>2. CASE heard # {}
    <3>1. r.ok /\ IndexOf(r.packet.node) # {} /\ heard = IndexOf(r.packet.node)
      BY <2>2, Zenon
    <3>2. r.packet \in sent
      <4>1. CASE d \in Fleet
        <5>1. r = Reads(said[d]) /\ said[d] \in sent
          BY <1>1, <1>2, <1>3, <1>4, <4>1, Zenon DEF Saying
        <5>2. r.packet = said[d]
          BY <5>1, Outcomes, Zenon
        <5> QED BY <5>1, <5>2, Zenon
      <4>2. CASE d = Stranger
        <5>1. ad \in StrangerAds
          BY <1>1, <1>2, <1>4, <4>2, Zenon DEF Saying
        <5> QED BY <1>3, <3>1, <5>1, AirTraffic, Zenon
      <4> QED BY <4>1, <4>2 DEF Devices, Fleet
    <3>3. PICK i, s, p : i = info /\ s = sent /\ p = r.packet
      OBVIOUS
    <3> DEFINE took == TakenBy(i, p)
               put == Measured(took, p, strength)
    <3>4. p \in s /\ OnePacketEach(i, s)
      BY <1>1, <3>2, <3>3, Zenon DEF Holding
    <3>5. OnePacketEach(took, s) /\ OnePacketEach(put, s)
      BY <3>4, PacketTaken, Zenon
    <3>6. taken = took
      <4> HIDE DEF heard
      <4> QED BY <3>1, <3>3 DEF TakenBy
    <3>7. after = put
      <4> HIDE DEF heard, taken, took
      <4> QED BY <3>1, <3>3, <3>6 DEF Measured
    <3>8. info' = put /\ queued' = <<took>> /\ absorbed' = absorbed /\ sent' = s
      <4> HIDE DEF after, put, taken, took, heard
      <4> QED BY <1>6, <2>2, <3>3, <3>6, <3>7, Zenon
    <3>9. OnePacketEach(absorbed, s)
      BY <1>1, <3>3, Zenon DEF Holding
    <3> HIDE DEF put, took
    <3>10. <<took>>[1] = took
      OBVIOUS
    <3> QED BY <3>5, <3>8, <3>9, <3>10, Zenon DEF Holding
  <2> QED BY <2>1, <2>2
<1> QED BY <1>10, <1>11 DEF AirIInv

LEMMA BoardCopies == AirIInv /\ BoardAbsorbs => AirIInv'
<1> SUFFICES ASSUME AirIInv, BoardAbsorbs PROVE AirIInv'
  OBVIOUS
<1>1. AirType /\ Saying /\ Broadcasts /\ Holding /\ CountedOnce
  BY DEF AirIInv
<1>2. /\ queued # <<>> /\ absorbed' = queued[1] /\ queued' = <<>>
      /\ UNCHANGED <<air, net, said, sent, counters, info, piVars>>
  BY Zenon DEF BoardAbsorbs
<1>3. Holding'
  BY <1>1, <1>2, Zenon DEF Holding
<1>4. AirType'
  BY <1>1, <1>2, Zenon DEF AirType, piVars
<1>5. Saying' /\ Broadcasts'
  BY <1>1, <1>2, Zenon DEF Saying, Broadcasts, Silence, IdlePacket, Fleet
<1>6. CountedOnce'
  BY <1>1, <1>2, Zenon DEF CountedOnce, piVars
<1> QED BY <1>3, <1>4, <1>5, <1>6 DEF AirIInv

-----------------------------------------------------------------------------
LEMMA OneBleVerdict ==
  ASSUME NEW ad
  PROVE  BleVerdict(ad) \in {"foreign", "undecodable", "self_filtered", "delivered"}
<1>1. PICK r : r = PiReads(ad)
  OBVIOUS
<1>2. CASE Ours(ad) = {}
  <2>1. r = Failed("none")
    BY <1>1, <1>2, Zenon DEF PiReads
  <2>2. ~ r.ok
    BY <2>1, Outcomes, Zenon
  <2>3. BleVerdict(ad) = "foreign"
    BY <1>1, <1>2, <2>2, Zenon DEF BleVerdict
  <2> QED BY <2>3
<1>3. CASE Ours(ad) # {} /\ ~ r.ok
  <2>1. BleVerdict(ad) = "undecodable"
    BY <1>1, <1>3, Zenon DEF BleVerdict
  <2> QED BY <2>1
<1>4. CASE Ours(ad) # {} /\ r.ok /\ r.packet.node = ListenerId
  <2>1. BleVerdict(ad) = "self_filtered"
    BY <1>1, <1>4, Zenon DEF BleVerdict
  <2> QED BY <2>1
<1>5. CASE Ours(ad) # {} /\ r.ok /\ r.packet.node # ListenerId
  <2>1. BleVerdict(ad) = "delivered"
    BY <1>1, <1>5, Zenon DEF BleVerdict
  <2> QED BY <2>1
<1> QED BY <1>2, <1>3, <1>4, <1>5, Zenon

Parted(S, T, R) ==
  /\ IsFiniteSet(T) /\ IsFiniteSet(R) /\ Cardinality(T) \in Nat /\ Cardinality(R) \in Nat
  /\ Cardinality(S) = Cardinality(T) + Cardinality(R)

LEMMA TwoKinds ==
  ASSUME NEW S, IsFiniteSet(S), NEW T \in SUBSET S
  PROVE  Parted(S, T, S \ T)
<1>r. PICK R : R = S \ T
  OBVIOUS
<1>1. IsFiniteSet(T) /\ IsFiniteSet(R)
  <2>1. R \in SUBSET S
    BY <1>r
  <2> QED BY <2>1, FS_Subset, Zenon
<1>2. Cardinality(T) \in Nat /\ Cardinality(R) \in Nat
  BY <1>1, FS_CardinalityType, Zenon
<1>3. S = T \cup R /\ T \cap R = {}
  BY <1>r
<1>4. Cardinality(T \cup R) = Cardinality(T) + Cardinality(R) - Cardinality(T \cap R)
  BY <1>1, FS_Union, Zenon
<1>5. Cardinality({}) = 0
  BY FS_EmptySet, Zenon
<1>6. Cardinality(S) = Cardinality(T) + Cardinality(R) - 0
  BY <1>3, <1>4, <1>5, Zenon
<1>7. Cardinality(S) = Cardinality(T) + Cardinality(R)
  BY <1>2, <1>6
<1> QED BY <1>r, <1>1, <1>2, <1>7, Zenon DEF Parted

Kinds == {"foreign", "undecodable", "self_filtered", "delivered"}
Kind(B, v, f) == Cardinality({d \in B : v[d] = f})

\* A batch is the sum of its four kinds.
LEMMA FourKinds ==
  ASSUME NEW B, IsFiniteSet(B), NEW v, \A d \in B : v[d] \in Kinds
  PROVE  /\ Cardinality(B) \in Nat /\ \A f \in Kinds : Kind(B, v, f) \in Nat
         /\ Cardinality(B) = Kind(B, v, "foreign") + Kind(B, v, "undecodable")
                              + Kind(B, v, "self_filtered") + Kind(B, v, "delivered")
<1> DEFINE F == {d \in B : v[d] = "foreign"}
           U == {d \in B : v[d] = "undecodable"}
           S == {d \in B : v[d] = "self_filtered"}
           D == {d \in B : v[d] = "delivered"}
<1>1. /\ F \in SUBSET B /\ U \in SUBSET (B \ F) /\ S \in SUBSET ((B \ F) \ U)
      /\ D = ((B \ F) \ U) \ S
  BY DEF Kinds
<1>2. /\ Kind(B, v, "foreign") = Cardinality(F) /\ Kind(B, v, "undecodable") = Cardinality(U)
      /\ Kind(B, v, "self_filtered") = Cardinality(S) /\ Kind(B, v, "delivered") = Cardinality(D)
  BY Zenon DEF Kind
<1> HIDE DEF F, U, S, D
<1>3. Parted(B, F, B \ F)
  BY <1>1, TwoKinds
<1>4. Parted(B \ F, U, (B \ F) \ U)
  <2>1. IsFiniteSet(B \ F)
    BY <1>3, Zenon DEF Parted
  <2> QED BY <1>1, <2>1, TwoKinds
<1>5. Parted((B \ F) \ U, S, D)
  <2>1. IsFiniteSet((B \ F) \ U)
    BY <1>4, Zenon DEF Parted
  <2>2. Parted((B \ F) \ U, S, ((B \ F) \ U) \ S)
    BY <1>1, <2>1, TwoKinds
  <2> QED BY <1>1, <2>2, Zenon
<1>6. /\ Cardinality(F) \in Nat /\ Cardinality(U) \in Nat /\ Cardinality(S) \in Nat
      /\ Cardinality(D) \in Nat
      /\ Cardinality(B) = Cardinality(F) + Cardinality(B \ F)
      /\ Cardinality(B \ F) = Cardinality(U) + Cardinality((B \ F) \ U)
      /\ Cardinality((B \ F) \ U) = Cardinality(S) + Cardinality(D)
  BY <1>3, <1>4, <1>5, Zenon DEF Parted
<1>7. /\ Cardinality(B) \in Nat
      /\ Cardinality(B) = Cardinality(F) + Cardinality(U) + Cardinality(S) + Cardinality(D)
  BY <1>6
<1>8. \A f \in Kinds : Kind(B, v, f) \in Nat
  BY <1>2, <1>6, Zenon DEF Kinds
<1> QED BY <1>2, <1>7, <1>8, Zenon

LEMMA PiTakes ==
  ASSUME AirIInv, NEW batch \in SUBSET Devices, PiHears(batch)
  PROVE  AirIInv'
<1>1. AirType /\ Saying /\ Broadcasts /\ Holding /\ CountedOnce
  BY DEF AirIInv
<1>2. /\ ble' = [f \in DOMAIN ble |->
                   ble[f] + IF f = "reports" THEN Cardinality(batch)
                            ELSE Cardinality({d \in batch : BleVerdict(air[d]) = f})]
      /\ UNCHANGED <<air, net, said, sent, udp, boardVars>>
  BY Zenon DEF PiHears
<1>3. IsFiniteSet(batch)
  <2>1. IsFiniteSet({Board}) /\ {Board, Pi, Legacy, Stranger} = (({Board} \cup {Pi}) \cup {Legacy}) \cup {Stranger}
    BY FS_Singleton
  <2>2. IsFiniteSet({Board} \cup {Pi})
    BY <2>1, FS_AddElement, Zenon
  <2>3. IsFiniteSet(({Board} \cup {Pi}) \cup {Legacy})
    BY <2>2, FS_AddElement, Zenon
  <2>4. IsFiniteSet((({Board} \cup {Pi}) \cup {Legacy}) \cup {Stranger})
    BY <2>3, FS_AddElement, Zenon
  <2>5. IsFiniteSet(Devices)
    BY <2>1, <2>4, Zenon DEF Devices
  <2> QED BY <2>5, FS_Subset, Zenon
<1>4. PICK v : v = [d \in batch |-> BleVerdict(air[d])]
  OBVIOUS
<1>5. PICK n : n = [f \in Kinds |-> Kind(batch, v, f)]
  OBVIOUS
<1>6. \A d \in batch : v[d] = BleVerdict(air[d])
                       /\ v[d] \in Kinds
  BY <1>4, OneBleVerdict, Zenon DEF Kinds
<1>7. PICK c : c = Cardinality(batch)
  OBVIOUS
<1>a. \A f \in Kinds : n[f] = Kind(batch, v, f)
  BY <1>5, Zenon
<1>8. /\ c \in Nat /\ \A f \in Kinds : n[f] \in Nat
      /\ c = n["foreign"] + n["undecodable"] + n["self_filtered"] + n["delivered"]
  <2>1. /\ Cardinality(batch) \in Nat /\ \A f \in Kinds : Kind(batch, v, f) \in Nat
        /\ Cardinality(batch) = Kind(batch, v, "foreign") + Kind(batch, v, "undecodable")
                                + Kind(batch, v, "self_filtered") + Kind(batch, v, "delivered")
    BY <1>3, <1>6, FourKinds, Zenon
  <2>2. /\ n["foreign"] = Kind(batch, v, "foreign") /\ n["undecodable"] = Kind(batch, v, "undecodable")
        /\ n["self_filtered"] = Kind(batch, v, "self_filtered")
        /\ n["delivered"] = Kind(batch, v, "delivered")
    BY <1>a, Zenon DEF Kinds
  <2>3. c = n["foreign"] + n["undecodable"] + n["self_filtered"] + n["delivered"]
    BY <1>7, <2>1, <2>2, Zenon
  <2> QED BY <1>7, <1>a, <2>1, <2>3, Zenon
<1>9. \A f \in Kinds : n[f] = Cardinality({d \in batch : BleVerdict(air[d]) = f})
  <2>1. ASSUME NEW f \in Kinds PROVE n[f] = Cardinality({d \in batch : BleVerdict(air[d]) = f})
    <3>1. {d \in batch : v[d] = f} = {d \in batch : BleVerdict(air[d]) = f}
      BY <1>6
    <3> QED BY <1>a, <3>1, Zenon DEF Kind
  <2> QED BY <2>1
<1>10. PICK b, a : b = ble /\ a = ble'
  OBVIOUS
<1>11. /\ b \in [BleCounters -> Nat]
       /\ b.reports = b.foreign + b.undecodable + b.self_filtered + b.delivered
  BY <1>1, <1>10, Zenon DEF AirType, CountedOnce
<1>12. a = [f \in BleCounters |-> b[f] + (IF f = "reports" THEN c ELSE n[f])]
  <2>1. DOMAIN ble = BleCounters
    BY <1>10, <1>11
  <2>2. \A f \in BleCounters :
          (IF f = "reports" THEN Cardinality(batch)
           ELSE Cardinality({d \in batch : BleVerdict(air[d]) = f}))
          = IF f = "reports" THEN c ELSE n[f]
    BY <1>7, <1>9, Zenon DEF BleCounters, Kinds
  <2> QED BY <1>2, <1>10, <2>1, <2>2
<1>13. /\ a.reports = b.reports + c /\ a.foreign = b.foreign + n["foreign"]
       /\ a.undecodable = b.undecodable + n["undecodable"]
       /\ a.self_filtered = b.self_filtered + n["self_filtered"]
       /\ a.delivered = b.delivered + n["delivered"]
  BY <1>12 DEF BleCounters
<1>14. a \in [BleCounters -> Nat]
  BY <1>8, <1>11, <1>12 DEF BleCounters, Kinds
<1>15. a.reports = a.foreign + a.undecodable + a.self_filtered + a.delivered
  <2>1. /\ b.reports \in Nat /\ b.foreign \in Nat /\ b.undecodable \in Nat
        /\ b.self_filtered \in Nat /\ b.delivered \in Nat
    BY <1>11 DEF BleCounters
  <2>2. /\ n["foreign"] \in Nat /\ n["undecodable"] \in Nat /\ n["self_filtered"] \in Nat
        /\ n["delivered"] \in Nat
    BY <1>8 DEF Kinds
  <2> QED BY <1>8, <1>11, <1>13, <2>1, <2>2
<1>16. AirType' /\ CountedOnce'
  <2>1. ble' \in [BleCounters -> Nat]
        /\ ble'.reports = ble'.foreign + ble'.undecodable + ble'.self_filtered + ble'.delivered
    BY <1>10, <1>14, <1>15, Zenon
  <2>2. AirType'
    BY <1>1, <1>2, <2>1, Zenon DEF AirType, boardVars
  <2>3. CountedOnce'
    BY <1>1, <1>2, <2>1, Zenon DEF CountedOnce, boardVars
  <2> QED BY <2>2, <2>3
<1>17. Saying' /\ Broadcasts' /\ Holding'
  BY <1>1, <1>2, Zenon DEF Saying, Broadcasts, Silence, IdlePacket, Fleet, Holding, boardVars
<1> QED BY <1>16, <1>17 DEF AirIInv

LEMMA UdpTakes ==
  ASSUME AirIInv, NEW data, UdpHears(data)
  PROVE  AirIInv'
<1>1. AirType /\ Saying /\ Broadcasts /\ Holding /\ CountedOnce
  BY DEF AirIInv
<1>2. PICK verdict \in {"undecodable", "self_filtered", "delivered"} :
        udp' = Bump(udp, {"received", verdict})
  BY Zenon DEF UdpHears
<1>3. UNCHANGED <<air, net, said, sent, ble, boardVars>>
  BY Zenon DEF UdpHears
<1>4. PICK b, a : b = udp /\ a = udp'
  OBVIOUS
<1>5. /\ b \in [UdpCounters -> Nat]
      /\ b.received = b.undecodable + b.self_filtered + b.delivered
  BY <1>1, <1>4, Zenon DEF AirType, CountedOnce
<1>6. a = [f \in UdpCounters |-> IF f \in {"received", verdict} THEN b[f] + 1 ELSE b[f]]
  BY <1>2, <1>4, <1>5 DEF Bump
<1>7. /\ b.received \in Nat /\ b.undecodable \in Nat /\ b.self_filtered \in Nat
      /\ b.delivered \in Nat
  BY <1>5 DEF UdpCounters
<1>8. /\ a.received = b.received + 1
      /\ a.undecodable = IF verdict = "undecodable" THEN b.undecodable + 1 ELSE b.undecodable
      /\ a.self_filtered = IF verdict = "self_filtered" THEN b.self_filtered + 1 ELSE b.self_filtered
      /\ a.delivered = IF verdict = "delivered" THEN b.delivered + 1 ELSE b.delivered
  BY <1>6 DEF UdpCounters
<1>9. a \in [UdpCounters -> Nat]
  BY <1>5, <1>6 DEF UdpCounters
<1>10. a.received = a.undecodable + a.self_filtered + a.delivered
  <2>1. CASE verdict = "undecodable"
    BY <1>5, <1>7, <1>8, <2>1
  <2>2. CASE verdict = "self_filtered"
    BY <1>5, <1>7, <1>8, <2>2
  <2>3. CASE verdict = "delivered"
    BY <1>5, <1>7, <1>8, <2>3
  <2> QED BY <2>1, <2>2, <2>3
<1>11. AirType' /\ CountedOnce'
  <2>1. /\ udp' \in [UdpCounters -> Nat]
        /\ udp'.received = udp'.undecodable + udp'.self_filtered + udp'.delivered
    BY <1>4, <1>9, <1>10, Zenon
  <2>2. AirType'
    BY <1>1, <1>3, <2>1, Zenon DEF AirType, boardVars
  <2>3. CountedOnce'
    BY <1>1, <1>3, <2>1, Zenon DEF CountedOnce, boardVars
  <2> QED BY <2>2, <2>3
<1>12. Saying' /\ Broadcasts' /\ Holding'
  BY <1>1, <1>3, Zenon DEF Saying, Broadcasts, Silence, IdlePacket, Fleet, Holding, boardVars
<1> QED BY <1>11, <1>12 DEF AirIInv

LEMMA AirStep == AirIInv /\ [AirNext]_airVars => AirIInv'
<1> SUFFICES ASSUME AirIInv, [AirNext]_airVars PROVE AirIInv'
  OBVIOUS
<1>1. ASSUME NEW d \in Devices, NEW strength \in {1, 2}, BoardHears(d, strength) PROVE AirIInv'
  BY <1>1, BoardTakes
<1>2. ASSUME NEW batch \in SUBSET Devices, PiHears(batch) PROVE AirIInv'
  BY <1>2, PiTakes
<1>3. ASSUME NEW data \in net \cup StrayDatagrams, UdpHears(data) PROVE AirIInv'
  BY <1>3, UdpTakes
<1>4. CASE UNCHANGED airVars
  <2>1. UNCHANGED <<air, net, said, sent, counters, info, queued, absorbed, ble, udp>>
    BY <1>4, Zenon DEF airVars
  <2>2. AirType' /\ Saying' /\ Broadcasts'
    BY <2>1, Zenon DEF AirIInv, AirType, Saying, Broadcasts, Silence, IdlePacket, Fleet
  <2>3. Holding'
    BY <2>1, Zenon DEF AirIInv, Holding
  <2>4. CountedOnce'
    BY <2>1, Zenon DEF AirIInv, CountedOnce
  <2> QED BY <2>2, <2>3, <2>4, Zenon DEF AirIInv
<1> QED BY <1>1, <1>2, <1>3, <1>4, BoardSays, PiSays, PiStarts, LegacySays, StrangerSays,
           BoardCopies, Zenon DEF AirNext

LEMMA AirImplies == AirIInv => AirInv
<1> SUFFICES ASSUME AirIInv PROVE AirInv
  OBVIOUS
<1>1. AirType /\ Saying /\ Broadcasts /\ Holding /\ CountedOnce
  BY DEF AirIInv
<1>2. ReadAlike
  BY <1>1, Zenon DEF ReadAlike, Saying, Broadcasts
<1>3. BoardImpliesPi
  BY <1>1, BoardResult DEF BoardImpliesPi, AirType
<1>4. HeldIsOnePacket
  <2>1. ASSUME NEW k \in DOMAIN Neighbors, NEW held, held = info[k] \/ held = absorbed[k], held.heard
        PROVE  \E p \in sent :
                 /\ p.node = Neighbors[k] /\ p.enabled = held.enabled /\ p.seq = held.seq
                 /\ held.vstate = p.vstate[1]
                 /\ held.vstateQ = IF Len(p.vstate) = 2 THEN p.vstate[2] ELSE 0
    <3>1. OnePacketEach(info, sent) /\ OnePacketEach(absorbed, sent)
      BY <1>1 DEF Holding
    <3>2. CASE held = info[k]
      BY <2>1, <3>1, <3>2 DEF OnePacketEach
    <3>3. CASE held = absorbed[k]
      BY <2>1, <3>1, <3>3 DEF OnePacketEach
    <3> QED BY <2>1, <3>2, <3>3
  <2> QED BY <2>1, Zenon DEF HeldIsOnePacket
<1> QED BY <1>1, <1>2, <1>3, <1>4 DEF AirInv

\* Whatever the base of a byte, the packets in their ranges and the devices of
\* other fleets, the firmware and the Python codecs read what was sent, alike,
\* and every reception is counted once.
THEOREM PacketsReadAlike == AirSpec => []AirInv
<1>1. AirInit => AirIInv
  BY AirInitially
<1>2. AirIInv /\ [AirNext]_airVars => AirIInv'
  BY AirStep
<1>3. AirIInv => AirInv
  BY AirImplies
<1> QED BY <1>1, <1>2, <1>3, PTL DEF AirSpec

-----------------------------------------------------------------------------
(* What a board makes of the frames of an assignment.                      *)

\* A name stands at one place of a layout.
Injective(layout) ==
  /\ Len(layout) \in Nat /\ DOMAIN layout = 1 .. Len(layout)
  /\ \A j, k \in 1 .. Len(layout) : layout[j] = layout[k] => j = k

\* What is packed in a layout is loaded back from it.
LEMMA PackedIsLoaded ==
  ASSUME NEW layout, Injective(layout), NEW r, r = [f \in ToSet(layout) |-> r[f]]
  PROVE  Load(layout, Pack(layout, r)) = r
<1>1. ASSUME NEW f \in ToSet(layout)
      PROVE  Pack(layout, r)[SelectInSeq(layout, LAMBDA x : x = f)] = r[f]
  <2>1. PICK k \in 1 .. Len(layout) : layout[k] = f
    BY DEF ToSet, Injective
  <2>2. {j \in 1 .. Len(layout) : layout[j] = f} = {k}
    BY <2>1 DEF Injective
  <2>3. SelectInSeq(layout, LAMBDA x : x = f) = k
    <3>1. Min({k}) = k
      BY <2>1 DEF Min, Injective
    <3> QED BY <2>2, <3>1 DEF SelectInSeq
  <2> QED BY <2>1, <2>3 DEF Pack, Injective
<1>2. Load(layout, Pack(layout, r)) = [f \in ToSet(layout) |-> r[f]]
  BY <1>1 DEF Load
<1> QED BY <1>2

LEMMA AlgorithmNames == Injective(AlgorithmLayout) /\ AlgorithmFields = AlgorithmLayout
BY DEF Injective, AlgorithmLayout, AlgorithmFields

LEMMA DisturbanceNames == Injective(DisturbanceLayout) /\ DisturbanceFields = DisturbanceLayout
BY DEF Injective, DisturbanceLayout, DisturbanceFields

LEMMA PlantNames == Injective(PlantLayout) /\ PlantFields = PlantLayout
BY DEF Injective, PlantLayout, PlantFields

LEMMA VirtualNames == Injective(VirtualLayout) /\ VirtualFields = VirtualLayout
BY SMTT(60) DEF Injective, VirtualLayout, VirtualFields

LEMMA InterfaceNames == Injective(InterfaceLayout) /\ InterfaceFields = InterfaceLayout
BY SMTT(60) DEF Injective, InterfaceLayout, InterfaceFields

LEMMA RecordsLoaded ==
  ASSUME NEW a, NEW g
  PROVE  /\ Load(AlgorithmLayout, Pack(AlgorithmFields, AlgorithmRecord(a))) = AlgorithmRecord(a)
         /\ Load(DisturbanceLayout, Pack(DisturbanceFields, DisturbanceRecord(a))) = DisturbanceRecord(a)
         /\ Load(PlantLayout, Pack(PlantFields, PlantRecord(g))) = PlantRecord(g)
         /\ Load(VirtualLayout, Pack(VirtualFields, VirtualRecord(g))) = VirtualRecord(g)
         /\ Load(InterfaceLayout, Pack(InterfaceFields, InterfaceRecord(g))) = InterfaceRecord(g)
<1>1. ToSet(AlgorithmLayout) = {"dt", "clock", "state", "vstate", "vartheta", "counter",
                                "gain_ij", "delta", "eta", "alpha"}
  BY DEF ToSet, AlgorithmLayout
<1>2. AlgorithmRecord(a) = [f \in ToSet(AlgorithmLayout) |-> AlgorithmRecord(a)[f]]
  BY <1>1 DEF AlgorithmRecord
<1>3. DisturbanceRecord(a) = [f \in ToSet(DisturbanceLayout) |-> DisturbanceRecord(a)[f]]
  BY DisturbanceNames, Zenon DEF DisturbanceRecord
<1>4. ToSet(PlantLayout) = {"profile", "kappa", "S1", "S2", "p_max", "q_max", "X0_P", "X0_Q"}
  BY DEF ToSet, PlantLayout
<1>5. PlantRecord(g) = [f \in ToSet(PlantLayout) |-> PlantRecord(g)[f]]
  BY <1>4 DEF PlantRecord
<1>6. VirtualRecord(g) = [f \in ToSet(VirtualLayout) |-> VirtualRecord(g)[f]]
  BY VirtualNames, Zenon DEF VirtualRecord
<1>7. ToSet(InterfaceLayout) = {"law", "terminal", "mu_max", "gamma", "eps", "vartheta_0",
                                "T_c", "beta_c", "Phi", "delta_c", "adapt_band"}
  BY DEF ToSet, InterfaceLayout
<1>8. InterfaceRecord(g) = [f \in ToSet(InterfaceLayout) |-> InterfaceRecord(g)[f]]
  <2>1. CASE g.kind = "lc"
    BY <1>7, <2>1 DEF InterfaceRecord
  <2>2. CASE g.kind # "lc"
    BY <1>7, <2>2 DEF InterfaceRecord
  <2> QED BY <2>1, <2>2
<1> HIDE DEF AlgorithmRecord
<1> QED BY <1>2, <1>3, <1>5, <1>6, <1>8, PackedIsLoaded, AlgorithmNames, DisturbanceNames,
           PlantNames, VirtualNames, InterfaceNames, Zenon

\* The parameters a board has, whatever they hold.
Shaped(b) ==
  DOMAIN b = {"law", "blocks", "enabled", "node_id", "neighbors", "algorithm", "disturbance",
              "plant", "virtual", "interface", "radio", "start"}

FrameTypes == {"NETWORK", "ALGORITHM", "DISTURBANCE", "MG_PLANT", "MG_VIRTUAL", "MG_IFACE", "RADIO"}

\* What one frame does to a board.
LEMMA ShapeKept ==
  ASSUME NEW b, Shaped(b), NEW f, f.type \in FrameTypes
  PROVE  Shaped(ApplyFrame(b, f).board) /\ ApplyFrame(b, f).ok \in BOOLEAN
<1> DEFINE p == f.payload
           Good(r) == Shaped(r.board) /\ r.ok \in BOOLEAN
<1>1. Good(Ok(b)) /\ Good(Refused(b))
  BY DEF Ok, Refused
<1>2. ASSUME NEW c, Shaped(c) PROVE Good(Ok(c)) /\ Good(Refused(c))
  BY <1>2 DEF Ok, Refused
<1> HIDE DEF p, Good
<1>3. Good(ApplyNetwork(b, p))
  BY <1>1, <1>2 DEF ApplyNetwork, Shaped
<1>4. Good(ApplyAlgorithm(b, p))
  BY <1>1, <1>2 DEF ApplyAlgorithm, Shaped
<1>5. Good(ApplyDisturbance(b, p))
  BY <1>1, <1>2 DEF ApplyDisturbance, Shaped
<1>6. Good(ApplyPlant(b, p))
  BY <1>1, <1>2 DEF ApplyPlant, Shaped
<1>7. Good(ApplyVirtual(b, p))
  BY <1>1, <1>2 DEF ApplyVirtual, Shaped
<1>8. Good(ApplyInterface(b, p))
  BY <1>1, <1>2 DEF ApplyInterface, Shaped, Reset
<1>9. Good(ApplyRadio(b, p))
  BY <1>1, <1>2 DEF ApplyRadio, Shaped
<1>10. Good(ApplyFrame(b, f))
  BY <1>3, <1>4, <1>5, <1>6, <1>7, <1>8, <1>9 DEF ApplyFrame, FrameTypes, p
<1> QED BY <1>10 DEF Good

\* The frames one after the other, up to the first one refused.
Stepped(r, f) == IF r.ok THEN ApplyFrame(r.board, f) ELSE r
Steps(b, frames, g) ==
  /\ g[0] = Ok(b)
  /\ \A k \in 1 .. Len(frames) : g[k] = Stepped(g[k - 1], frames[k])

LEMMA ConfiguredSteps ==
  ASSUME NEW b, NEW frames, Len(frames) \in 0 .. 7
  PROVE  \E g : Steps(b, frames, g) /\ Configured(b, frames) = g[Len(frames)]
<1> DEFINE n == Len(frames)
           Body(after, k) == IF k = 0 THEN Ok(b)
                             ELSE LET r == after[k - 1]
                                  IN  IF r.ok THEN ApplyFrame(r.board, frames[k]) ELSE r
           r0 == Ok(b)
           r1 == Stepped(r0, frames[1])
           r2 == Stepped(r1, frames[2])
           r3 == Stepped(r2, frames[3])
           r4 == Stepped(r3, frames[4])
           r5 == Stepped(r4, frames[5])
           r6 == Stepped(r5, frames[6])
           r7 == Stepped(r6, frames[7])
           g == [k \in 0 .. n |-> IF k = 0 THEN r0 ELSE IF k = 1 THEN r1 ELSE IF k = 2 THEN r2
                                  ELSE IF k = 3 THEN r3 ELSE IF k = 4 THEN r4
                                  ELSE IF k = 5 THEN r5 ELSE IF k = 6 THEN r6 ELSE r7]
<1>n. n \in 0 .. 7
  OBVIOUS
<1>1. \A after, k : k # 0 => Body(after, k) = Stepped(after[k - 1], frames[k])
  BY Zenon DEF Stepped
<1>2. \A after : Body(after, 0) = r0
  BY Zenon
<1> HIDE DEF Body
<1>3. g = [k \in 0 .. n |-> Body(g, k)]
  <2>1. r1 = Stepped(r0, frames[1]) /\ r2 = Stepped(r1, frames[2]) /\ r3 = Stepped(r2, frames[3])
        /\ r4 = Stepped(r3, frames[4]) /\ r5 = Stepped(r4, frames[5]) /\ r6 = Stepped(r5, frames[6])
        /\ r7 = Stepped(r6, frames[7])
    OBVIOUS
  <2> HIDE DEF n, r0, r1, r2, r3, r4, r5, r6, r7
  <2>2. ASSUME NEW k \in 0 .. n PROVE g[k] = Body(g, k)
    <3>0. CASE k = 0
      BY <1>2, <3>0
    <3>1. CASE k # 0
      <4>1. k - 1 \in 0 .. n /\ k \in 1 .. 7
        BY <1>n, <3>1
      <4>2. g[k] = Stepped(g[k - 1], frames[k])
        BY <2>1, <4>1, <3>1
      <4> HIDE DEF g
      <4> QED BY <1>1, <3>1, <4>2
    <3> QED BY <3>0, <3>1
  <2> QED BY <2>2
<1>4. \E after : after = [k \in 0 .. n |-> Body(after, k)]
  <2> HIDE DEF n, Body, g
  <2> QED BY <1>3
<1> DEFINE after == CHOOSE a : a = [k \in 0 .. n |-> Body(a, k)]
<1>5. after = [k \in 0 .. n |-> Body(after, k)]
  <2> HIDE DEF n, Body, g
  <2> QED BY <1>4, Zenon
<1>6. Configured(b, frames) = after[n]
  BY Zenon DEF Configured, Body
<1> HIDE DEF after, n, g
<1>7. after[0] = Ok(b) /\ \A k \in 1 .. n : after[k] = Stepped(after[k - 1], frames[k])
  BY <1>1, <1>2, <1>5, <1>n
<1>8. Steps(b, frames, after)
  BY <1>7, Zenon DEF Steps, n
<1> QED BY <1>6, <1>8, Zenon DEF n

\* What the frames of an assignment are made of.
Framable(a) ==
  /\ a.enabled \in BOOLEAN /\ a.node_id \in Int /\ a.neighbors \in Seq(Int)
  /\ a.microgrid = None \/ a.microgrid \in Blocks

\* A board that holds an assignment.
HoldsWhatSent(b, a) ==
  /\ b.node_id = a.node_id /\ b.neighbors = a.neighbors /\ b.enabled = a.enabled
  /\ b.algorithm = AlgorithmRecord(a) /\ b.disturbance = DisturbanceRecord(a)
  /\ b.radio = RadioPayload(a.radio)
  /\ a.microgrid = None => b.law = 0
  /\ a.microgrid # None =>
       /\ b.law = InterfaceRecord(a.microgrid).law
       /\ b.blocks = {"plant", "virtual"}
       /\ b.plant = PlantRecord(a.microgrid) /\ b.virtual = VirtualRecord(a.microgrid)
       /\ b.interface = InterfaceRecord(a.microgrid)

Joins(w, s, t) ==
  /\ Len(w) = Len(s) + Len(t)
  /\ \A k \in 1 .. Len(s) : w[k] = s[k]
  /\ \A k \in 1 .. Len(t) : w[Len(s) + k] = t[k]

LEMMA Joined ==
  ASSUME NEW S, NEW s \in Seq(S), NEW t \in Seq(S)
  PROVE  s \o t \in Seq(S) /\ Joins(s \o t, s, t)
BY DEF Joins

\* The fields of a frame that is taken are those of the assignment.
LEMMA NetworkTaken ==
  ASSUME NEW b, Shaped(b), NEW a, Framable(a), ApplyNetwork(b, NetworkPayload(a)).ok
  PROVE  ApplyNetwork(b, NetworkPayload(a)).board
           = [b EXCEPT !.law = 0, !.blocks = {}, !.enabled = a.enabled, !.node_id = a.node_id,
                       !.neighbors = a.neighbors]
<1> DEFINE p == NetworkPayload(a)
<1>1. a.neighbors \in Seq(Int) /\ Len(a.neighbors) \in Nat
  BY DEF Framable
<1>2. Len(p) = 2 + Len(a.neighbors) /\ p[1] = Bit(a.enabled) /\ p[2] = a.node_id
      /\ \A k \in 1 .. Len(a.neighbors) : p[2 + k] = a.neighbors[k]
  <2> DEFINE h == <<Bit(a.enabled), a.node_id>>
  <2>1. h \in Seq(Int) /\ Len(h) = 2 /\ h[1] = Bit(a.enabled) /\ h[2] = a.node_id
    BY DEF Framable, Bit
  <2>2. p = h \o a.neighbors
    BY DEF NetworkPayload
  <2> HIDE DEF h, p
  <2>3. Joins(p, h, a.neighbors)
    BY <1>1, <2>1, <2>2, Joined, Zenon
  <2> QED BY <2>1, <2>3 DEF Joins
<1>3. SubSeq(p, 3, Len(p)) = a.neighbors
  <2> HIDE DEF p
  <2>1. SubSeq(p, 3, Len(p)) = [k \in 1 .. Len(a.neighbors) |-> p[3 + k - 1]]
    BY <1>1, <1>2
  <2>2. \A k \in 1 .. Len(a.neighbors) : p[3 + k - 1] = a.neighbors[k]
    BY <1>1, <1>2
  <2>3. a.neighbors = [k \in 1 .. Len(a.neighbors) |-> a.neighbors[k]]
    BY <1>1
  <2> QED BY <2>1, <2>2, <2>3
<1>4. (p[1] = 1) = a.enabled
  BY <1>2 DEF Bit, Framable
<1> HIDE DEF p
<1> DEFINE done == [b EXCEPT !.law = 0, !.blocks = {}, !.enabled = p[1] = 1,
                             !.node_id = p[2], !.neighbors = SubSeq(p, 3, Len(p))]
<1>5. ApplyNetwork(b, p) = Refused(b) \/ ApplyNetwork(b, p) = Ok(done)
  BY Zenon DEF ApplyNetwork
<1>6. ~ Refused(b).ok /\ Ok(done).board = done
  BY DEF Refused, Ok
<1>7. ApplyNetwork(b, p).board = done
  BY <1>5, <1>6, Zenon DEF p
<1>8. done = [b EXCEPT !.law = 0, !.blocks = {}, !.enabled = a.enabled, !.node_id = a.node_id,
                       !.neighbors = a.neighbors]
  BY <1>2, <1>3, <1>4, Zenon
<1> QED BY <1>7, <1>8, Zenon DEF p

LEMMA PlantTaken ==
  ASSUME NEW b, NEW g, ApplyPlant(b, Pack(PlantFields, PlantRecord(g))).ok
  PROVE  ApplyPlant(b, Pack(PlantFields, PlantRecord(g))).board
           = [b EXCEPT !.plant = PlantRecord(g), !.blocks = @ \cup {"plant"}]
<1>1. ASSUME NEW c PROVE Refused(c).ok = FALSE /\ Ok(c).board = c
  BY DEF Refused, Ok
<1> QED BY <1>1, RecordsLoaded, Zenon DEF ApplyPlant

LEMMA VirtualTaken ==
  ASSUME NEW b, NEW g, ApplyVirtual(b, Pack(VirtualFields, VirtualRecord(g))).ok
  PROVE  ApplyVirtual(b, Pack(VirtualFields, VirtualRecord(g))).board
           = [b EXCEPT !.virtual = VirtualRecord(g), !.blocks = @ \cup {"virtual"}]
<1>1. ASSUME NEW c PROVE Refused(c).ok = FALSE /\ Ok(c).board = c
  BY DEF Refused, Ok
<1> QED BY <1>1, RecordsLoaded, Zenon DEF ApplyVirtual

LEMMA InterfaceTaken ==
  ASSUME NEW b, NEW g, ApplyInterface(b, Pack(InterfaceFields, InterfaceRecord(g))).ok
  PROVE  /\ b.blocks = {"plant", "virtual"}
         /\ ApplyInterface(b, Pack(InterfaceFields, InterfaceRecord(g))).board
              = Reset([b EXCEPT !.interface = InterfaceRecord(g), !.law = InterfaceRecord(g).law])
<1>1. ASSUME NEW c PROVE Refused(c).ok = FALSE /\ Ok(c).board = c
  BY DEF Refused, Ok
<1> QED BY <1>1, RecordsLoaded, Zenon DEF ApplyInterface

LEMMA ScalarsTaken ==
  ASSUME NEW b, Shaped(b), NEW a
  PROVE  /\ LET r == ApplyAlgorithm(b, Pack(AlgorithmFields, AlgorithmRecord(a)))
            IN  r.ok => r.board = [b EXCEPT !.algorithm = AlgorithmRecord(a)]
         /\ LET r == ApplyDisturbance(b, Pack(DisturbanceFields, DisturbanceRecord(a)))
            IN  r.ok => r.board = [b EXCEPT !.disturbance = DisturbanceRecord(a)]
         /\ LET p == RadioPayload(a.radio)  r == ApplyRadio(b, p)
            IN  r.ok => r.board = [b EXCEPT !.radio = p]
<1>1. ASSUME NEW c PROVE Refused(c).ok = FALSE /\ Ok(c).board = c
  BY DEF Refused, Ok
<1>2. LET r == ApplyAlgorithm(b, Pack(AlgorithmFields, AlgorithmRecord(a)))
      IN  r.ok => r.board = [b EXCEPT !.algorithm = AlgorithmRecord(a)]
  BY <1>1, RecordsLoaded, Zenon DEF ApplyAlgorithm
<1>3. LET r == ApplyDisturbance(b, Pack(DisturbanceFields, DisturbanceRecord(a)))
      IN  r.ok => r.board = [b EXCEPT !.disturbance = DisturbanceRecord(a)]
  BY <1>1, RecordsLoaded, Zenon DEF ApplyDisturbance
<1>4. LET p == RadioPayload(a.radio)  r == ApplyRadio(b, p)
      IN  r.ok => r.board = [b EXCEPT !.radio = p]
  BY <1>1, Zenon DEF ApplyRadio
<1> QED BY <1>2, <1>3, <1>4, Zenon

\* Only a frame that is taken is followed by another, and a result before the
\* last was taken when the last was.
LEMMA TakenBefore ==
  ASSUME NEW b, NEW frames, NEW g, Steps(b, frames, g), Len(frames) \in 0 .. 7,
         NEW k \in 1 .. Len(frames), g[k].ok
  PROVE  g[k - 1].ok /\ g[k] = ApplyFrame(g[k - 1].board, frames[k])
<1>1. g[k] = Stepped(g[k - 1], frames[k])
  BY DEF Steps
<1> QED BY <1>1, Zenon DEF Stepped

LEMMA ShapedThrough ==
  ASSUME NEW b, Shaped(b), NEW frames, NEW g, Steps(b, frames, g), Len(frames) \in 0 .. 7,
         \A k \in 1 .. Len(frames) : frames[k].type \in FrameTypes
  PROVE  \A k \in 0 .. Len(frames) : Shaped(g[k].board)
<1> DEFINE P(k) == k <= Len(frames) => Shaped(g[k].board)
<1>0. P(0)
  BY DEF Steps, Ok
<1>1. ASSUME NEW k \in 0 .. 6, P(k) PROVE P(k + 1)
  <2> SUFFICES ASSUME k + 1 <= Len(frames) PROVE Shaped(g[k + 1].board)
    OBVIOUS
  <2>1. k + 1 \in 1 .. Len(frames) /\ (k + 1) - 1 = k /\ Shaped(g[k].board)
    BY <1>1
  <2>2. g[k + 1] = Stepped(g[k], frames[k + 1])
    BY <2>1 DEF Steps
  <2>3. frames[k + 1].type \in FrameTypes
    BY <2>1
  <2> QED BY <2>1, <2>2, <2>3, ShapeKept, Zenon DEF Stepped
<1> HIDE DEF P
<1>2. P(1) /\ P(2) /\ P(3) /\ P(4) /\ P(5) /\ P(6) /\ P(7)
  <2>1. P(1) BY <1>0, <1>1
  <2>2. P(2) BY <2>1, <1>1
  <2>3. P(3) BY <2>2, <1>1
  <2>4. P(4) BY <2>3, <1>1
  <2>5. P(5) BY <2>4, <1>1
  <2>6. P(6) BY <2>5, <1>1
  <2>7. P(7) BY <2>6, <1>1
  <2> QED BY <2>1, <2>2, <2>3, <2>4, <2>5, <2>6, <2>7
<1>3. ASSUME NEW k \in 0 .. Len(frames) PROVE P(k)
  <2>1. k \in 0 .. 7
    OBVIOUS
  <2> QED BY <1>0, <1>2, <2>1
<1> QED BY <1>3 DEF P

\* The frames of an assignment, one by one.
OfType(type, p) == [type |-> type, payload |-> p]

LEMMA FrameIs ==
  ASSUME NEW type, NEW p
  PROVE  OfType(type, p).type = type /\ OfType(type, p).payload = p
BY DEF OfType

LEMMA FramesOf ==
  ASSUME NEW a
  PROVE  LET f == Frames(a) IN
         /\ f[1] = OfType("NETWORK", NetworkPayload(a))
         /\ f[2] = OfType("ALGORITHM", Pack(AlgorithmFields, AlgorithmRecord(a)))
         /\ f[3] = OfType("DISTURBANCE", Pack(DisturbanceFields, DisturbanceRecord(a)))
         /\ a.microgrid = None => /\ Len(f) = 4
                                  /\ f[4] = OfType("RADIO", RadioPayload(a.radio))
         /\ a.microgrid # None =>
              LET g == a.microgrid IN
              /\ Len(f) = 7
              /\ f[4] = OfType("MG_PLANT", Pack(PlantFields, PlantRecord(g)))
              /\ f[5] = OfType("MG_VIRTUAL", Pack(VirtualFields, VirtualRecord(g)))
              /\ f[6] = OfType("MG_IFACE", Pack(InterfaceFields, InterfaceRecord(g)))
              /\ f[7] = OfType("RADIO", RadioPayload(a.radio))
<1> DEFINE f1 == OfType("NETWORK", NetworkPayload(a))
           f2 == OfType("ALGORITHM", Pack(AlgorithmFields, AlgorithmRecord(a)))
           f3 == OfType("DISTURBANCE", Pack(DisturbanceFields, DisturbanceRecord(a)))
           g == a.microgrid
           f4 == OfType("MG_PLANT", Pack(PlantFields, PlantRecord(g)))
           f5 == OfType("MG_VIRTUAL", Pack(VirtualFields, VirtualRecord(g)))
           f6 == OfType("MG_IFACE", Pack(InterfaceFields, InterfaceRecord(g)))
           f7 == OfType("RADIO", RadioPayload(a.radio))
<1>1. Frames(a) = <<f1, f2, f3>> \o (IF g = None THEN <<>> ELSE <<f4, f5, f6>>) \o <<f7>>
  BY Zenon DEF Frames, OfType
<1> HIDE DEF f1, f2, f3, f4, f5, f6, f7, g
<1> DEFINE S == {f1, f2, f3, f4, f5, f6, f7}
           x == <<f1, f2, f3>>
           y == <<f4, f5, f6>>
           z == <<f7>>
<1>2. /\ x \in Seq(S) /\ Len(x) = 3 /\ x[1] = f1 /\ x[2] = f2 /\ x[3] = f3
      /\ y \in Seq(S) /\ Len(y) = 3 /\ y[1] = f4 /\ y[2] = f5 /\ y[3] = f6
      /\ z \in Seq(S) /\ Len(z) = 1 /\ z[1] = f7
      /\ <<>> \in Seq(S)
  OBVIOUS
<1> HIDE DEF S
<1>3. CASE g = None
  <2>1. Frames(a) = x \o <<>> \o z
    BY <1>1, <1>3, Zenon
  <2> HIDE DEF x, y, z
  <2>2. x \o <<>> = x
    BY <1>2
  <2>3. Joins(Frames(a), x, z)
    BY <1>2, <2>1, <2>2, Joined, Zenon
  <2>4. /\ Len(Frames(a)) = 4 /\ Frames(a)[1] = f1 /\ Frames(a)[2] = f2 /\ Frames(a)[3] = f3
        /\ Frames(a)[4] = f7
    BY <1>2, <2>3 DEF Joins
  <2> QED BY <1>3, <2>4, Zenon DEF f1, f2, f3, f7, g
<1>4. CASE g # None
  <2>1. Frames(a) = x \o y \o z
    BY <1>1, <1>4, Zenon
  <2> HIDE DEF x, y, z
  <2> DEFINE w == x \o y
  <2>2. w \in Seq(S) /\ Joins(w, x, y)
    BY <1>2, Joined, Zenon
  <2>3. Joins(w \o z, w, z)
    BY <1>2, <2>2, Joined, Zenon
  <2> HIDE DEF w
  <2>4. Frames(a) = w \o z
    BY <2>1 DEF w
  <2>5. /\ Len(Frames(a)) = 7 /\ Frames(a)[1] = f1 /\ Frames(a)[2] = f2 /\ Frames(a)[3] = f3
        /\ Frames(a)[4] = f4 /\ Frames(a)[5] = f5 /\ Frames(a)[6] = f6 /\ Frames(a)[7] = f7
    BY <1>2, <2>2, <2>3, <2>4 DEF Joins
  <2> QED BY <1>4, <2>5, Zenon DEF f1, f2, f3, f4, f5, f6, f7, g
<1> QED BY <1>3, <1>4

LEMMA FrameKinds ==
  ASSUME NEW a
  PROVE  /\ Len(Frames(a)) \in 0 .. 7
         /\ \A k \in 1 .. Len(Frames(a)) : Frames(a)[k].type \in FrameTypes
<1> DEFINE f == Frames(a)
<1> HIDE DEF f
<1>1. f[1].type = "NETWORK" /\ f[2].type = "ALGORITHM" /\ f[3].type = "DISTURBANCE"
  BY FrameIs, FramesOf DEF f
<1>2. CASE a.microgrid = None
  <2>1. Len(f) = 4 /\ f[4].type = "RADIO"
    BY FrameIs, FramesOf, <1>2 DEF f
  <2>2. \A k \in 1 .. Len(f) : k = 1 \/ k = 2 \/ k = 3 \/ k = 4
    BY <2>1
  <2>3. \A k \in 1 .. Len(f) : f[k].type \in FrameTypes
    BY <1>1, <2>1, <2>2, Zenon DEF FrameTypes
  <2> QED BY <2>1, <2>3 DEF f
<1>3. CASE a.microgrid # None
  <2>1. Len(f) = 7 /\ f[4].type = "MG_PLANT" /\ f[5].type = "MG_VIRTUAL" /\ f[6].type = "MG_IFACE"
        /\ f[7].type = "RADIO"
    BY FrameIs, FramesOf, <1>3 DEF f
  <2>2. \A k \in 1 .. Len(f) : k = 1 \/ k = 2 \/ k = 3 \/ k = 4 \/ k = 5 \/ k = 6 \/ k = 7
    BY <2>1
  <2>3. \A k \in 1 .. Len(f) : f[k].type \in FrameTypes
    BY <1>1, <2>1, <2>2, Zenon DEF FrameTypes
  <2> QED BY <2>1, <2>3 DEF f
<1> QED BY <1>2, <1>3

LEMMA AppliedAs ==
  ASSUME NEW b, NEW p
  PROVE  /\ ApplyFrame(b, OfType("NETWORK", p)) = ApplyNetwork(b, p)
         /\ ApplyFrame(b, OfType("ALGORITHM", p)) = ApplyAlgorithm(b, p)
         /\ ApplyFrame(b, OfType("DISTURBANCE", p)) = ApplyDisturbance(b, p)
         /\ ApplyFrame(b, OfType("MG_PLANT", p)) = ApplyPlant(b, p)
         /\ ApplyFrame(b, OfType("MG_VIRTUAL", p)) = ApplyVirtual(b, p)
         /\ ApplyFrame(b, OfType("MG_IFACE", p)) = ApplyInterface(b, p)
         /\ ApplyFrame(b, OfType("RADIO", p)) = ApplyRadio(b, p)
BY FrameIs DEF ApplyFrame

\* The first three frames, taken by a board, and what they leave on it.
ScalarsRun(b, a, r1, r2, r3) ==
  /\ Shaped(b) /\ Shaped(r1.board) /\ Shaped(r2.board) /\ Shaped(r3.board)
  /\ r1 = ApplyNetwork(b, NetworkPayload(a)) /\ r1.ok
  /\ r2 = ApplyAlgorithm(r1.board, Pack(AlgorithmFields, AlgorithmRecord(a))) /\ r2.ok
  /\ r3 = ApplyDisturbance(r2.board, Pack(DisturbanceFields, DisturbanceRecord(a))) /\ r3.ok

ScalarsHeld(d, a) ==
  /\ d.enabled = a.enabled /\ d.node_id = a.node_id /\ d.neighbors = a.neighbors
  /\ d.algorithm = AlgorithmRecord(a) /\ d.disturbance = DisturbanceRecord(a)

LEMMA ScalarsApplied ==
  ASSUME NEW b, NEW a, Framable(a), NEW r1, NEW r2, NEW r3, ScalarsRun(b, a, r1, r2, r3)
  PROVE  ScalarsHeld(r3.board, a) /\ r3.board.law = 0
<1> DEFINE b1 == r1.board  b2 == r2.board  b3 == r3.board
           al == AlgorithmRecord(a)  di == DisturbanceRecord(a)
<1>1. b1 = [b EXCEPT !.law = 0, !.blocks = {}, !.enabled = a.enabled, !.node_id = a.node_id,
                     !.neighbors = a.neighbors]
  BY NetworkTaken, Zenon DEF ScalarsRun
<1>2. b2 = [b1 EXCEPT !.algorithm = al]
  BY ScalarsTaken, Zenon DEF ScalarsRun
<1>3. b3 = [b2 EXCEPT !.disturbance = di]
  BY ScalarsTaken, Zenon DEF ScalarsRun
<1> HIDE DEF b1, b2, b3, al, di
<1>4. /\ b1.law = 0 /\ b1.blocks = {} /\ b1.enabled = a.enabled /\ b1.node_id = a.node_id
      /\ b1.neighbors = a.neighbors
  BY <1>1 DEF Shaped, ScalarsRun
<1>5. /\ b2.law = b1.law /\ b2.blocks = b1.blocks /\ b2.enabled = b1.enabled /\ b2.node_id = b1.node_id
      /\ b2.neighbors = b1.neighbors /\ b2.algorithm = al
  BY <1>2 DEF Shaped, ScalarsRun, b1
<1>6. /\ b3.law = b2.law /\ b3.blocks = b2.blocks /\ b3.enabled = b2.enabled /\ b3.node_id = b2.node_id
      /\ b3.neighbors = b2.neighbors /\ b3.algorithm = b2.algorithm /\ b3.disturbance = di
  BY <1>3 DEF Shaped, ScalarsRun, b2
<1> QED BY <1>4, <1>5, <1>6, Zenon DEF ScalarsHeld, b3, al, di

\* The blocks of a microgrid.
BlocksRun(b, g, r1, r2, r3) ==
  /\ Shaped(b) /\ Shaped(r1.board) /\ Shaped(r2.board) /\ Shaped(r3.board)
  /\ r1 = ApplyPlant(b, Pack(PlantFields, PlantRecord(g))) /\ r1.ok
  /\ r2 = ApplyVirtual(r1.board, Pack(VirtualFields, VirtualRecord(g))) /\ r2.ok
  /\ r3 = ApplyInterface(r2.board, Pack(InterfaceFields, InterfaceRecord(g))) /\ r3.ok

BlocksHeld(d, g) ==
  /\ d.law = InterfaceRecord(g).law /\ d.blocks = {"plant", "virtual"}
  /\ d.plant = PlantRecord(g) /\ d.virtual = VirtualRecord(g) /\ d.interface = InterfaceRecord(g)

LEMMA BlocksApplied ==
  ASSUME NEW b, NEW a, ScalarsHeld(b, a), NEW g, NEW r1, NEW r2, NEW r3, BlocksRun(b, g, r1, r2, r3)
  PROVE  ScalarsHeld(r3.board, a) /\ BlocksHeld(r3.board, g)
<1> DEFINE b1 == r1.board  b2 == r2.board  b3 == r3.board
           pl == PlantRecord(g)  vi == VirtualRecord(g)  in == InterfaceRecord(g)
<1>1. b1 = [b EXCEPT !.plant = pl, !.blocks = @ \cup {"plant"}]
  BY PlantTaken, Zenon DEF BlocksRun
<1>2. b2 = [b1 EXCEPT !.virtual = vi, !.blocks = @ \cup {"virtual"}]
  BY VirtualTaken, Zenon DEF BlocksRun
<1> DEFINE t == [b2 EXCEPT !.interface = in, !.law = in.law]
           from == Integrators(t.plant, t.virtual, t.interface)
<1>3. b2.blocks = {"plant", "virtual"} /\ b3 = [t EXCEPT !.start = from]
  BY InterfaceTaken, Zenon DEF BlocksRun, Reset
<1> HIDE DEF b1, b2, b3, pl, vi, in
<1>4. /\ b1.plant = pl
      /\ b1.enabled = b.enabled /\ b1.node_id = b.node_id /\ b1.neighbors = b.neighbors
      /\ b1.algorithm = b.algorithm /\ b1.disturbance = b.disturbance
  BY <1>1 DEF Shaped, BlocksRun
<1>5. /\ b2.plant = b1.plant /\ b2.virtual = vi
      /\ b2.enabled = b1.enabled /\ b2.node_id = b1.node_id /\ b2.neighbors = b1.neighbors
      /\ b2.algorithm = b1.algorithm /\ b2.disturbance = b1.disturbance
  BY <1>2 DEF Shaped, BlocksRun, b1
<1>6. /\ b3.plant = b2.plant /\ b3.virtual = b2.virtual /\ b3.interface = in /\ b3.law = in.law
      /\ b3.blocks = b2.blocks
      /\ b3.enabled = b2.enabled /\ b3.node_id = b2.node_id /\ b3.neighbors = b2.neighbors
      /\ b3.algorithm = b2.algorithm /\ b3.disturbance = b2.disturbance
  <2> HIDE DEF from
  <2> QED BY <1>3 DEF Shaped, BlocksRun, b2
<1> QED BY <1>3, <1>4, <1>5, <1>6, Zenon DEF ScalarsHeld, BlocksHeld, b3, pl, vi, in

\* The radio's, the last.
SaysAs(d, b) ==
  /\ d.law = b.law /\ d.blocks = b.blocks /\ d.enabled = b.enabled /\ d.node_id = b.node_id
  /\ d.neighbors = b.neighbors /\ d.algorithm = b.algorithm /\ d.disturbance = b.disturbance
  /\ d.plant = b.plant /\ d.virtual = b.virtual /\ d.interface = b.interface

RadioHeld(d, a) == d.radio = RadioPayload(a.radio)

LEMMA RadioApplied ==
  ASSUME NEW b, Shaped(b), NEW a, ApplyRadio(b, RadioPayload(a.radio)).ok
  PROVE  LET d == ApplyRadio(b, RadioPayload(a.radio)).board IN RadioHeld(d, a) /\ SaysAs(d, b)
<1> DEFINE p == RadioPayload(a.radio)  d == ApplyRadio(b, p).board
<1>1. d = [b EXCEPT !.radio = p]
  BY ScalarsTaken, Zenon
<1> HIDE DEF p, d
<1>2. d.radio = p /\ SaysAs(d, b)
  BY <1>1 DEF Shaped, SaysAs
<1> QED BY <1>2, Zenon DEF d, p, RadioHeld

\* A board keeps its shape whatever it is configured with, and holds the
\* assignment when no frame is refused.
LEMMA BoardConfigured ==
  ASSUME NEW b, Shaped(b), NEW a, Framable(a)
  PROVE  LET r == Configured(b, Frames(a))
         IN  Shaped(r.board) /\ (r.ok => HoldsWhatSent(r.board, a))
<1> DEFINE r == Configured(b, Frames(a))  n == Len(Frames(a))
<1>1. PICK g : Steps(b, Frames(a), g) /\ r = g[n]
  BY ConfiguredSteps, FrameKinds, Zenon
<1>2. \A k \in 0 .. n : Shaped(g[k].board)
  BY <1>1, FrameKinds, ShapedThrough, Zenon
<1>3. Shaped(r.board)
  <2>1. n \in 0 .. n
    BY FrameKinds
  <2> QED BY <1>1, <1>2, <2>1, Zenon
<1>4. ASSUME NEW k \in 1 .. n, g[k].ok
      PROVE  g[k - 1].ok /\ g[k] = ApplyFrame(g[k - 1].board, Frames(a)[k])
  BY <1>1, <1>4, FrameKinds, TakenBefore
<1>5. g[0].board = b
  BY <1>1 DEF Steps, Ok
<1> HIDE DEF r, n
<1>6. ASSUME r.ok PROVE HoldsWhatSent(r.board, a)
  <2>f. Frames(a)[1] = OfType("NETWORK", NetworkPayload(a))
        /\ Frames(a)[2] = OfType("ALGORITHM", Pack(AlgorithmFields, AlgorithmRecord(a)))
        /\ Frames(a)[3] = OfType("DISTURBANCE", Pack(DisturbanceFields, DisturbanceRecord(a)))
    BY FramesOf, Zenon
  <2>1. CASE a.microgrid = None
    <3>1. n = 4 /\ Frames(a)[4] = OfType("RADIO", RadioPayload(a.radio))
      BY <2>1, FramesOf, Zenon DEF n
    <3>2. 0 \in 0 .. n /\ 1 \in 0 .. n /\ 2 \in 0 .. n /\ 3 \in 0 .. n /\ 4 \in 0 .. n
      BY <3>1
    <3>4. g[4].ok /\ g[3].ok /\ g[4] = ApplyFrame(g[3].board, Frames(a)[4])
      BY <1>1, <1>4, <1>6, <3>1
    <3>5. g[2].ok /\ g[3] = ApplyFrame(g[2].board, Frames(a)[3])
      BY <1>4, <3>1, <3>4
    <3>6. g[1].ok /\ g[2] = ApplyFrame(g[1].board, Frames(a)[2])
      BY <1>4, <3>1, <3>5
    <3>7. g[1] = ApplyFrame(b, Frames(a)[1])
      BY <1>4, <1>5, <3>1, <3>6
    <3>8. /\ g[1] = ApplyNetwork(b, NetworkPayload(a))
          /\ g[2] = ApplyAlgorithm(g[1].board, Pack(AlgorithmFields, AlgorithmRecord(a)))
          /\ g[3] = ApplyDisturbance(g[2].board, Pack(DisturbanceFields, DisturbanceRecord(a)))
          /\ g[4] = ApplyRadio(g[3].board, RadioPayload(a.radio))
      BY <2>f, <3>1, <3>4, <3>5, <3>6, <3>7, AppliedAs
    <3>9. ScalarsRun(b, a, g[1], g[2], g[3])
      BY <1>2, <3>2, <3>4, <3>5, <3>6, <3>8, Zenon DEF ScalarsRun
    <3>10. ScalarsHeld(g[3].board, a) /\ g[3].board.law = 0
      BY <3>9, ScalarsApplied, Zenon
    <3>11. RadioHeld(g[4].board, a) /\ SaysAs(g[4].board, g[3].board)
      BY <1>2, <3>2, <3>4, <3>8, RadioApplied, Zenon
    <3>12. r.board = g[4].board
      BY <1>1, <3>1 DEF n
    <3> QED BY <2>1, <3>10, <3>11, <3>12, Zenon DEF HoldsWhatSent, ScalarsHeld, RadioHeld, SaysAs
  <2>2. CASE a.microgrid # None
    <3> DEFINE m == a.microgrid
    <3>1. /\ n = 7
          /\ Frames(a)[4] = OfType("MG_PLANT", Pack(PlantFields, PlantRecord(m)))
          /\ Frames(a)[5] = OfType("MG_VIRTUAL", Pack(VirtualFields, VirtualRecord(m)))
          /\ Frames(a)[6] = OfType("MG_IFACE", Pack(InterfaceFields, InterfaceRecord(m)))
          /\ Frames(a)[7] = OfType("RADIO", RadioPayload(a.radio))
      BY <2>2, FramesOf, Zenon DEF n
    <3>2. 0 \in 0 .. n /\ 1 \in 0 .. n /\ 2 \in 0 .. n /\ 3 \in 0 .. n /\ 4 \in 0 .. n
          /\ 5 \in 0 .. n /\ 6 \in 0 .. n /\ 7 \in 0 .. n
      BY <3>1
    <3> HIDE DEF m
    <3>3. g[7].ok /\ g[6].ok /\ g[7] = ApplyFrame(g[6].board, Frames(a)[7])
      BY <1>1, <1>4, <1>6, <3>1
    <3>4. g[5].ok /\ g[6] = ApplyFrame(g[5].board, Frames(a)[6])
      BY <1>4, <3>1, <3>3
    <3>5. g[4].ok /\ g[5] = ApplyFrame(g[4].board, Frames(a)[5])
      BY <1>4, <3>1, <3>4
    <3>6. g[3].ok /\ g[4] = ApplyFrame(g[3].board, Frames(a)[4])
      BY <1>4, <3>1, <3>5
    <3>7. g[2].ok /\ g[3] = ApplyFrame(g[2].board, Frames(a)[3])
      BY <1>4, <3>1, <3>6
    <3>8. g[1].ok /\ g[2] = ApplyFrame(g[1].board, Frames(a)[2])
      BY <1>4, <3>1, <3>7
    <3>9. g[1] = ApplyFrame(b, Frames(a)[1])
      BY <1>4, <1>5, <3>1, <3>8
    <3>10. /\ g[1] = ApplyNetwork(b, NetworkPayload(a))
           /\ g[2] = ApplyAlgorithm(g[1].board, Pack(AlgorithmFields, AlgorithmRecord(a)))
           /\ g[3] = ApplyDisturbance(g[2].board, Pack(DisturbanceFields, DisturbanceRecord(a)))
      BY <2>f, <3>7, <3>8, <3>9, AppliedAs
    <3>11. /\ g[4] = ApplyPlant(g[3].board, Pack(PlantFields, PlantRecord(m)))
           /\ g[5] = ApplyVirtual(g[4].board, Pack(VirtualFields, VirtualRecord(m)))
           /\ g[6] = ApplyInterface(g[5].board, Pack(InterfaceFields, InterfaceRecord(m)))
      BY <3>1, <3>4, <3>5, <3>6, AppliedAs
    <3>12. g[7] = ApplyRadio(g[6].board, RadioPayload(a.radio))
      BY <3>1, <3>3, AppliedAs
    <3>13. ScalarsRun(b, a, g[1], g[2], g[3])
      BY <1>2, <3>2, <3>6, <3>7, <3>8, <3>10, Zenon DEF ScalarsRun
    <3>14. ScalarsHeld(g[3].board, a)
      BY <3>13, ScalarsApplied, Zenon
    <3>15. BlocksRun(g[3].board, m, g[4], g[5], g[6])
      BY <1>2, <3>2, <3>3, <3>4, <3>5, <3>11, Zenon DEF BlocksRun
    <3>16. ScalarsHeld(g[6].board, a) /\ BlocksHeld(g[6].board, m)
      BY <3>14, <3>15, BlocksApplied, Zenon
    <3>17. RadioHeld(g[7].board, a) /\ SaysAs(g[7].board, g[6].board)
      BY <1>2, <3>2, <3>3, <3>12, RadioApplied, Zenon
    <3>18. r.board = g[7].board
      BY <1>1, <3>1 DEF n
    <3> QED BY <2>2, <3>16, <3>17, <3>18, Zenon
            DEF HoldsWhatSent, ScalarsHeld, BlocksHeld, RadioHeld, SaysAs, m
  <2> QED BY <2>1, <2>2
<1> QED BY <1>3, <1>6, Zenon DEF r

\* A manifest as load_manifest leaves it, and as set_arm changes it.
Typed(m) ==
  /\ DOMAIN m = {"name", "nodes", "structure", "controller", "radio", "coordination", "event"}
  /\ DOMAIN m.nodes \subseteq Int /\ \A i \in DOMAIN m.nodes : m.nodes[i] \in NodeSpecs
  /\ m.controller \in ControllerSpecs(DOMAIN m.nodes)
  /\ m.coordination # None =>
       /\ m.coordination.reference \in Coordinate
       /\ \A i \in DOMAIN m.coordination.pinned :
            m.coordination.pinned[i] \in Int /\ m.coordination.pinned[i] > 0

Loaded(d) == [d EXCEPT !.nodes = Expand(d)]

\* A structure gives the nodes their links and changes nothing else.
LEMMA ExpandedNodes ==
  ASSUME NEW d, IsDocument(d), LoadAccepts(d)
  PROVE  /\ DOMAIN Expand(d) = DOMAIN d.nodes /\ DOMAIN d.nodes \subseteq Int
         /\ \A i \in DOMAIN d.nodes : Expand(d)[i] \in NodeSpecs /\ Expand(d)[i].type = d.nodes[i].type
<1>1. DOMAIN d.nodes \subseteq Int /\ \A i \in DOMAIN d.nodes : d.nodes[i] \in NodeSpecs
  <2>1. DOMAIN d.nodes \subseteq 1 .. 255 /\ d.nodes \in [DOMAIN d.nodes -> NodeSpecs]
    BY Zenon DEF IsDocument
  <2> HIDE DEF NodeSpecs
  <2> QED BY <2>1
<1>2. NodesValid(Expand(d))
  BY Zenon DEF LoadAccepts
<1>3. CASE d.structure = None
  BY <1>1, <1>3, Zenon DEF Expand
<1>4. CASE d.structure # None
  <2> DEFINE links == Generate(d.structure)
             of(i) == IF i \in DOMAIN links THEN links[i] ELSE <<>>
             ex == [i \in DOMAIN d.nodes |-> [d.nodes[i] EXCEPT !.neighbors = of(i)]]
  <2>1. Expand(d) = ex
    BY <1>4, Zenon DEF Expand
  <2> HIDE DEF of
  <2>2. DOMAIN ex = DOMAIN d.nodes
    OBVIOUS
  <2>3. ASSUME NEW i \in DOMAIN d.nodes
        PROVE  ex[i] \in NodeSpecs /\ ex[i].type = d.nodes[i].type
    <3>1. ex[i] = [d.nodes[i] EXCEPT !.neighbors = of(i)]
      BY <2>3
    <3>2. d.nodes[i] \in NodeSpecs
      BY <1>1, <2>3
    <3> DEFINE nd == d.nodes[i]  x == ex[i]
    <3>3. x.neighbors \in Seq(Int)
      <4>1. ex[i].neighbors \in Seq(DOMAIN ex \ {i})
        BY <1>2, <2>1, <2>2, <2>3, Zenon DEF NodesValid
      <4>2. DOMAIN ex \ {i} \subseteq Int
        BY <1>1, <2>2
      <4> HIDE DEF ex
      <4> QED BY <4>1, <4>2
    <3> HIDE DEF nd, x
    <3>4. x = [nd EXCEPT !.neighbors = of(i)] /\ nd \in NodeSpecs
      BY <3>1, <3>2, Zenon DEF nd, x
    <3>5. x.type = nd.type /\ of(i) = x.neighbors
      BY <3>4 DEF NodeSpecs
    <3>6. x \in NodeSpecs
      BY <3>3, <3>4, <3>5 DEF NodeSpecs
    <3> QED BY <3>5, <3>6, Zenon DEF nd, x
  <2> HIDE DEF ex
  <2> QED BY <1>1, <2>1, <2>2, <2>3, Zenon
<1> QED BY <1>3, <1>4

LEMMA LoadedTyped ==
  ASSUME NEW d, IsDocument(d), LoadAccepts(d)
  PROVE  /\ Typed(Loaded(d)) /\ DOMAIN Loaded(d).nodes = DOMAIN d.nodes
         /\ \A i \in DOMAIN d.nodes : Loaded(d).nodes[i].type = d.nodes[i].type
<1> DEFINE m == Loaded(d)  e == Expand(d)
           Fields == {"name", "nodes", "structure", "controller", "radio", "coordination", "event"}
<1>1. DOMAIN d = Fields
  BY Zenon DEF IsDocument
<1>2. m = [d EXCEPT !.nodes = e]
  BY Zenon DEF Loaded
<1> HIDE DEF m, e
<1>3. DOMAIN m = Fields /\ m.nodes = e /\ m.controller = d.controller /\ m.radio = d.radio
      /\ m.coordination = d.coordination
  BY <1>1, <1>2
<1>4. DOMAIN e = DOMAIN d.nodes /\ DOMAIN e \subseteq Int
      /\ \A i \in DOMAIN e : e[i] \in NodeSpecs /\ e[i].type = d.nodes[i].type
  BY ExpandedNodes, Zenon DEF e
<1>5. m.controller \in ControllerSpecs(DOMAIN m.nodes)
  BY <1>3, <1>4, Zenon DEF IsDocument
<1>6. m.coordination # None =>
        /\ m.coordination.reference \in Coordinate
        /\ \A i \in DOMAIN m.coordination.pinned :
             m.coordination.pinned[i] \in Int /\ m.coordination.pinned[i] > 0
  BY <1>3, Zenon DEF IsDocument, LoadAccepts
<1>7. Typed(m)
  BY <1>3, <1>4, <1>5, <1>6, Zenon DEF Typed
<1> QED BY <1>3, <1>4, <1>7, Zenon DEF m

\* An arm changes the law's settings only.
LEMMA ArmTyped ==
  ASSUME NEW m, Typed(m), m.controller.microgrid # None, NEW a \in Arms
  PROVE  /\ Typed(ArmManifest(m, a)) /\ ArmManifest(m, a).nodes = m.nodes
<1> DEFINE c == m.controller
           g == c.microgrid
           ids == DOMAIN m.nodes
           name == IF a \in {"AA", "DZ"} THEN "microgrid_adaptive" ELSE "microgrid_lc"
           face == IF a \in {"AA", "DZ"} THEN "adaptive" ELSE "lc"
           eps == IF a = "AA" THEN [i \in DOMAIN g.eps |-> 0] ELSE g.eps
           ends == IF a \in {"AA", "DZ"} THEN g.terminal ELSE a = "LC0"
           h == [g EXCEPT !.interface = face, !.eps = eps, !.terminal = ends]
           k == [c EXCEPT !.name = name, !.microgrid = h]
           n == [m EXCEPT !.controller = k]
<1>1. c \in ControllerSpecs(ids) /\ g \in MicrogridSpecs(ids)
  <2>1. c \in ControllerSpecs(ids)
    BY Zenon DEF Typed
  <2>2. c.microgrid \in MicrogridSpecs(ids) \cup {None}
    <3> HIDE DEF c, ids
    <3> QED BY <2>1 DEF ControllerSpecs
  <2> QED BY <2>1, <2>2, Zenon
<1>2. DOMAIN m = {"name", "nodes", "structure", "controller", "radio", "coordination", "event"}
  BY Zenon DEF Typed
<1>3. ArmManifest(m, a) = n
  BY Zenon DEF ArmManifest
<1>4. h \in MicrogridSpecs(ids)
  <2>1. face \in {"adaptive", "lc"} /\ ends \in BOOLEAN /\ eps \in [ids -> Int]
    <3>1. g.terminal \in BOOLEAN /\ g.eps \in [ids -> Int]
      BY <1>1 DEF MicrogridSpecs
    <3> HIDE DEF g, ids
    <3>2. ends \in BOOLEAN
      BY <3>1
    <3>3. eps \in [ids -> Int]
      BY <3>1
    <3>4. face \in {"adaptive", "lc"}
      OBVIOUS
    <3> QED BY <3>2, <3>3, <3>4, Zenon
  <2> HIDE DEF face, ends, eps, g, ids
  <2> QED BY <1>1, <2>1 DEF MicrogridSpecs
<1>5. k \in ControllerSpecs(ids)
  <2>1. name \in Microgrid
    BY DEF Microgrid
  <2> HIDE DEF name, h, c, ids
  <2> QED BY <1>1, <1>4, <2>1 DEF ControllerSpecs
<1>6. /\ DOMAIN n = DOMAIN m /\ n.nodes = m.nodes /\ n.controller = k /\ n.radio = m.radio
      /\ n.coordination = m.coordination
  <2> HIDE DEF k
  <2> QED BY <1>2
<1> HIDE DEF n, k, h
<1>7. Typed(n)
  BY <1>5, <1>6, Zenon DEF Typed
<1> QED BY <1>3, <1>6, <1>7, Zenon

\* An assignment built of a manifest, but for the switch and the period.
AssignedBy(a, m, i) ==
  /\ DOMAIN a = {"node_id", "type", "enabled", "neighbors", "dt", "publish", "controller", "scalar",
                 "microgrid", "radio"}
  /\ a.node_id = i /\ a.type = m.nodes[i].type /\ a.neighbors = m.nodes[i].neighbors
  /\ a.enabled \in BOOLEAN /\ a.dt = m.controller.dt /\ a.radio = m.radio
  /\ a.scalar = (IF m.controller.microgrid = None THEN Scalars(m, i) ELSE DefaultScalars)
  /\ a.microgrid = (IF m.controller.microgrid = None THEN None ELSE MicrogridBlocks(m, i))

LEMMA AssignmentIs ==
  ASSUME NEW m, Typed(m), NEW i \in DOMAIN m.nodes
  PROVE  /\ AssignedBy(Assignment(m, i), m, i)
         /\ Assignment(m, i).enabled = m.nodes[i].enabled
         /\ Assignment(m, i).publish = m.nodes[i].publish
<1> DEFINE n == m.nodes[i]
           sc == IF m.controller.microgrid = None THEN Scalars(m, i) ELSE DefaultScalars
           mg == IF m.controller.microgrid = None THEN None ELSE MicrogridBlocks(m, i)
           a == [node_id |-> i, type |-> n.type, enabled |-> n.enabled,
                 neighbors |-> n.neighbors, dt |-> m.controller.dt, publish |-> n.publish,
                 controller |-> m.controller.name, scalar |-> sc, microgrid |-> mg, radio |-> m.radio]
<1>1. Assignment(m, i) = a
  BY Zenon DEF Assignment
<1>2. n.enabled \in BOOLEAN
  <2>1. n \in NodeSpecs
    BY Zenon DEF Typed
  <2> HIDE DEF n
  <2> QED BY <2>1 DEF NodeSpecs
<1> HIDE DEF n, sc, mg
<1>3. /\ DOMAIN a = {"node_id", "type", "enabled", "neighbors", "dt", "publish", "controller", "scalar",
                     "microgrid", "radio"}
      /\ a.node_id = i /\ a.type = n.type /\ a.neighbors = n.neighbors
      /\ a.enabled = n.enabled /\ a.dt = m.controller.dt /\ a.radio = m.radio
      /\ a.scalar = sc /\ a.microgrid = mg /\ a.publish = n.publish
  OBVIOUS
<1> HIDE DEF a
<1> QED BY <1>1, <1>2, <1>3, Zenon DEF AssignedBy, n, sc, mg

Republished(a, p) == [a EXCEPT !.publish = p]
Switched(a, e) == [a EXCEPT !.enabled = e]

\* Either change keeps what the manifest says of an agent.
IsRepublished(x, a, m, i, p) == AssignedBy(x, m, i) /\ x.publish = p /\ x.enabled = a.enabled
IsSwitched(x, a, m, i, e) == AssignedBy(x, m, i) /\ x.publish = a.publish /\ x.enabled = e

LEMMA RepublishedKeeps ==
  ASSUME NEW a, NEW m, NEW i, AssignedBy(a, m, i), NEW p
  PROVE  IsRepublished(Republished(a, p), a, m, i, p)
<1> DEFINE x == Republished(a, p)
           Fields == {"node_id", "type", "enabled", "neighbors", "dt", "publish", "controller", "scalar",
                      "microgrid", "radio"}
<1>1. DOMAIN a = Fields
  BY Zenon DEF AssignedBy
<1>2. /\ DOMAIN x = Fields /\ x.node_id = a.node_id /\ x.type = a.type /\ x.neighbors = a.neighbors
      /\ x.enabled = a.enabled /\ x.dt = a.dt /\ x.radio = a.radio /\ x.scalar = a.scalar
      /\ x.microgrid = a.microgrid /\ x.publish = p
  BY <1>1 DEF Republished
<1> HIDE DEF x
<1>3. AssignedBy(x, m, i)
  BY <1>2, Zenon DEF AssignedBy
<1> QED BY <1>2, <1>3, Zenon DEF x, IsRepublished

LEMMA SwitchedKeeps ==
  ASSUME NEW a, NEW m, NEW i, AssignedBy(a, m, i), NEW e, e \in BOOLEAN
  PROVE  IsSwitched(Switched(a, e), a, m, i, e)
<1> DEFINE x == Switched(a, e)
           Fields == {"node_id", "type", "enabled", "neighbors", "dt", "publish", "controller", "scalar",
                      "microgrid", "radio"}
<1>1. DOMAIN a = Fields
  BY Zenon DEF AssignedBy
<1>2. /\ DOMAIN x = Fields /\ x.node_id = a.node_id /\ x.type = a.type /\ x.neighbors = a.neighbors
      /\ x.enabled = e /\ x.dt = a.dt /\ x.radio = a.radio /\ x.scalar = a.scalar
      /\ x.microgrid = a.microgrid /\ x.publish = a.publish
  BY <1>1 DEF Switched
<1> HIDE DEF x
<1>3. AssignedBy(x, m, i)
  BY <1>2, Zenon DEF AssignedBy
<1> QED BY <1>2, <1>3, Zenon DEF x, IsSwitched

\* The pin of an agent and the reference it sees.
PinOf(m, i) == IF m.coordination # None /\ i \in Pins(m) THEN m.coordination.pinned[i] ELSE 0
ReferenceOf(m, i) == Seen(m.coordination, PinOf(m, i))

LEMMA PinTyped ==
  ASSUME NEW m, Typed(m), NEW i
  PROVE  /\ PinOf(m, i) \in Int /\ ReferenceOf(m, i) \in Coordinate
         /\ i \in Pins(m) => PinOf(m, i) = m.coordination.pinned[i]
                             /\ ReferenceOf(m, i) = m.coordination.reference
         /\ i \notin Pins(m) => PinOf(m, i) = 0 /\ ReferenceOf(m, i) = <<0, 0>>
<1>1. <<0, 0>> \in Coordinate
  BY DEF Coordinate
<1>2. CASE i \in Pins(m)
  <2>1. m.coordination # None /\ i \in DOMAIN m.coordination.pinned
    BY <1>2, Zenon DEF Pins
  <2>2. m.coordination.reference \in Coordinate /\ m.coordination.pinned[i] \in Int
        /\ m.coordination.pinned[i] > 0
    BY <2>1, Zenon DEF Typed
  <2>3. m.coordination.pinned[i] # 0
    BY <2>2
  <2> QED BY <1>2, <2>1, <2>2, <2>3, Zenon DEF PinOf, ReferenceOf, Seen
<1>3. CASE i \notin Pins(m)
  <2>1. 0 \in Int
    OBVIOUS
  <2> QED BY <1>1, <1>3, <2>1, Zenon DEF PinOf, ReferenceOf, Seen
<1> QED BY <1>2, <1>3

LEMMA BlocksTyped ==
  ASSUME NEW m, Typed(m), NEW i \in DOMAIN m.nodes, m.controller.microgrid # None,
         m.nodes[i].plant # None
  PROVE  MicrogridBlocks(m, i) \in Blocks
<1> DEFINE g == m.controller.microgrid  n == m.nodes[i]  b == PinOf(m, i)  ref == ReferenceOf(m, i)
           p == n.plant
           plant == [kappa |-> p.kappa, S1 |-> p.S[1], S2 |-> p.S[2],
                     profile |-> g.profile, p_max |-> g.p_max, q_max |-> g.q_max]
           virtual == [T_o |-> g.T_o, alpha_0 |-> g.alpha_0, delta_o |-> g.delta_o,
                       kappa_o |-> g.kappa_o, xi |-> g.xi, c_0 |-> g.c_0,
                       b |-> b, rP |-> ref[1], rQ |-> ref[2]]
           adaptive == [gamma |-> g.gamma, eps |-> g.eps[i],
                        vartheta0 |-> g.vartheta0, mu_max |-> g.mu_max]
           lc == [T_c |-> g.T_c, beta_c |-> g.beta_c, Phi |-> g.Phi,
                  terminal |-> g.terminal, mu_max |-> g.mu_max,
                  adapt_band |-> g.adapt_band, delta_c |-> 0]
           face == IF g.interface = "adaptive" THEN adaptive ELSE lc
           r == [kind |-> g.interface, degree |-> Len(n.neighbors), plant |-> plant,
                 virtual |-> virtual, interface |-> face, X0 |-> p.X0, z0 |-> p.z0]
           ids == DOMAIN m.nodes
<1>1. MicrogridBlocks(m, i) = r
  BY Zenon DEF MicrogridBlocks, PinOf, ReferenceOf
<1>2. g \in MicrogridSpecs(ids)
  <2>1. m.controller \in ControllerSpecs(ids)
    BY Zenon DEF Typed
  <2>2. m.controller.microgrid \in MicrogridSpecs(ids) \cup {None}
    <3> HIDE DEF ids
    <3> QED BY <2>1 DEF ControllerSpecs
  <2> QED BY <2>2, Zenon
<1>3. n.neighbors \in Seq(Int) /\ p \in NodePlantSpecs
  <2>1. n \in NodeSpecs
    BY Zenon DEF Typed
  <2>2. n.plant \in NodePlantSpecs \cup {None} /\ n.neighbors \in Seq(Int)
    <3> HIDE DEF n
    <3> QED BY <2>1 DEF NodeSpecs
  <2> QED BY <2>2, Zenon
<1>4. b \in Int /\ ref \in Coordinate
  BY PinTyped, Zenon
<1>5. i \in ids
  OBVIOUS
<1> HIDE DEF g, n, b, ref, p, ids
<1>6. p.kappa \in Int /\ p.S[1] \in Int /\ p.S[2] \in Int /\ p.X0 \in Coordinate /\ p.z0 \in Coordinate
      /\ ref[1] \in Int /\ ref[2] \in Int
  BY <1>3, <1>4 DEF NodePlantSpecs, Coordinate
<1>7. g.interface \in {"adaptive", "lc"} /\ g.profile \in {"rep", "per"} /\ g.p_max \in Int /\ g.q_max \in Int
      /\ g.T_o \in Int /\ g.alpha_0 \in Int /\ g.delta_o \in Int /\ g.kappa_o \in Int /\ g.xi \in Int
      /\ g.c_0 \in Int /\ g.mu_max \in Int /\ g.gamma \in Int /\ g.eps[i] \in Int /\ g.vartheta0 \in Int
      /\ g.T_c \in Int /\ g.beta_c \in Int /\ g.Phi \in Int /\ g.terminal \in BOOLEAN
      /\ g.adapt_band \in Int \cup {None}
  BY <1>2, <1>5 DEF MicrogridSpecs
<1>8. plant \in [kappa : Int, S1 : Int, S2 : Int, profile : {"rep", "per"}, p_max : Int, q_max : Int]
  BY <1>6, <1>7
<1>9. virtual \in [T_o : Int, alpha_0 : Int, delta_o : Int, kappa_o : Int, xi : Int, c_0 : Int,
                   b : Int, rP : Int, rQ : Int]
  BY <1>4, <1>6, <1>7
<1>10. face \in [gamma : Int, eps : Int, vartheta0 : Int, mu_max : Int]
                 \cup [T_c : Int, beta_c : Int, Phi : Int, terminal : BOOLEAN, mu_max : Int,
                       adapt_band : Int \cup {None}, delta_c : Int]
  <2>1. adaptive \in [gamma : Int, eps : Int, vartheta0 : Int, mu_max : Int]
    BY <1>7
  <2>2. lc \in [T_c : Int, beta_c : Int, Phi : Int, terminal : BOOLEAN, mu_max : Int,
                adapt_band : Int \cup {None}, delta_c : Int]
    BY <1>7
  <2> HIDE DEF adaptive, lc
  <2> QED BY <2>1, <2>2
<1>11. Len(n.neighbors) \in Nat
  BY <1>3
<1> HIDE DEF plant, virtual, face
<1>12. r \in Blocks
  BY <1>6, <1>7, <1>8, <1>9, <1>10, <1>11 DEF Blocks
<1> QED BY <1>1, <1>12, Zenon

LEMMA Frameable ==
  ASSUME NEW m, Typed(m), NEW i \in DOMAIN m.nodes, NEW a, AssignedBy(a, m, i),
         m.controller.microgrid # None => m.nodes[i].plant # None
  PROVE  /\ Framable(a)
         /\ m.controller.microgrid # None => a.microgrid # None
<1>1. a.microgrid = None \/ a.microgrid \in Blocks
  BY BlocksTyped, Zenon DEF AssignedBy
<1>2. m.nodes[i].neighbors \in Seq(Int)
  <2>1. m.nodes[i] \in NodeSpecs
    BY Zenon DEF Typed
  <2> QED BY <2>1 DEF NodeSpecs
<1>3. i \in Int
  BY DEF Typed
<1>4. Framable(a)
  BY <1>1, <1>2, <1>3, Zenon DEF Framable, AssignedBy
<1>5. ASSUME m.controller.microgrid # None PROVE a.microgrid # None
  <2>1. a.microgrid \in Blocks
    BY <1>5, BlocksTyped, Zenon DEF AssignedBy
  <2>2. None \notin Blocks
    BY ManifestsAssumption, Zenon
  <2> QED BY <2>1, <2>2, Zenon
<1> QED BY <1>4, <1>5

\* The fields of the records the frames carry.
LEMMA AlgorithmIs ==
  ASSUME NEW a
  PROVE  LET r == AlgorithmRecord(a) IN
         /\ r.dt = RoundMs(a.dt) /\ r.clock = RoundMs(a.publish)
         /\ r.vartheta = Quantize(a.scalar.vartheta) /\ r.counter = 0
         /\ r.state = Quantize(a.scalar.state) /\ r.vstate = Quantize(a.scalar.vstate)
         /\ \A f \in {"gain_ij", "alpha", "delta", "eta"} : r[f] = Quantize(a.scalar[f])
BY DEF AlgorithmRecord

LEMMA DisturbanceIs ==
  ASSUME NEW a
  PROVE  LET r == DisturbanceRecord(a)  d == a.scalar.disturbance IN
         /\ r.samples = d.samples /\ r.enabled = Bit(d.enabled)
         /\ \A f \in {"phase", "sine_amplitude", "frequency", "noise_amplitude", "noise_offset", "beta"} :
              r[f] = Quantize(d[f])
<1>1. ToSet(DisturbanceFields) = {"enabled", "sine_amplitude", "frequency", "phase",
                                  "noise_amplitude", "noise_offset", "beta", "samples"}
  BY DEF ToSet, DisturbanceFields
<1> QED BY <1>1 DEF DisturbanceRecord

LEMMA PlantIs ==
  ASSUME NEW g
  PROVE  LET r == PlantRecord(g) IN
         /\ r.profile = (IF g.plant.profile = "rep" THEN 0 ELSE 1)
         /\ r.kappa = Quantize(g.plant.kappa)
         /\ r.S1 = Quantize(g.plant.S1) /\ r.S2 = Quantize(g.plant.S2)
         /\ r.p_max = Quantize(g.plant.p_max) /\ r.q_max = Quantize(g.plant.q_max)
         /\ r.X0_P = Quantize(g.X0[1]) /\ r.X0_Q = Quantize(g.X0[2])
BY DEF PlantRecord

LEMMA VirtualIs ==
  ASSUME NEW g
  PROVE  LET r == VirtualRecord(g) IN
         /\ r.degree = g.degree /\ r.z0_P = Quantize(g.z0[1]) /\ r.z0_Q = Quantize(g.z0[2])
         /\ r.T_o = RoundMs(g.virtual.T_o) /\ r.delta_o = RoundMs(g.virtual.delta_o)
         /\ \A f \in {"alpha_0", "kappa_o", "xi", "c_0", "b", "rP", "rQ"} :
              r[f] = Quantize(g.virtual[f])
<1>1. ToSet(VirtualFields) = {"T_o", "alpha_0", "delta_o", "kappa_o", "xi", "c_0", "b",
                              "rP", "rQ", "degree", "z0_P", "z0_Q"}
  BY DEF ToSet, VirtualFields
<1> QED BY <1>1 DEF VirtualRecord

LEMMA InterfaceIs ==
  ASSUME NEW g
  PROVE  LET r == InterfaceRecord(g)  j == g.interface IN
         /\ r.mu_max = Quantize(j.mu_max)
         /\ g.kind = "lc" =>
              /\ r.law = 2 /\ r.terminal = Bit(j.terminal) /\ r.T_c = RoundMs(j.T_c)
              /\ r.beta_c = Quantize(j.beta_c) /\ r.Phi = Quantize(j.Phi)
              /\ r.adapt_band = (IF j.adapt_band = None THEN -1 ELSE Quantize(j.adapt_band))
              /\ r.delta_c = RoundMs(j.delta_c)
              /\ r.gamma = 0 /\ r.eps = 0 /\ r.vartheta_0 = 0
         /\ g.kind # "lc" =>
              /\ r.law = 1 /\ r.gamma = Quantize(j.gamma) /\ r.eps = Quantize(j.eps)
              /\ r.vartheta_0 = Quantize(j.vartheta0)
              /\ r.terminal = 0 /\ r.T_c = 0 /\ r.beta_c = 0 /\ r.Phi = 0
              /\ r.delta_c = 0 /\ r.adapt_band = -1
<1>1. CASE g.kind = "lc"
  BY <1>1 DEF InterfaceRecord
<1>2. CASE g.kind # "lc"
  BY <1>2 DEF InterfaceRecord
<1> QED BY <1>1, <1>2

\* The blocks of an agent of a microgrid, field by field.
LEMMA BlocksAre ==
  ASSUME NEW m, NEW i
  PROVE  LET x == MicrogridBlocks(m, i)  g == m.controller.microgrid  n == m.nodes[i] IN
         /\ x.kind = g.interface /\ x.degree = Len(n.neighbors)
         /\ x.X0 = n.plant.X0 /\ x.z0 = n.plant.z0
         /\ x.plant.kappa = n.plant.kappa /\ x.plant.S1 = n.plant.S[1] /\ x.plant.S2 = n.plant.S[2]
         /\ x.plant.p_max = g.p_max /\ x.plant.q_max = g.q_max /\ x.plant.profile = g.profile
         /\ x.virtual.T_o = g.T_o /\ x.virtual.delta_o = g.delta_o
         /\ \A f \in {"alpha_0", "kappa_o", "xi", "c_0"} : x.virtual[f] = g[f]
         /\ x.virtual.b = PinOf(m, i)
         /\ x.virtual.rP = ReferenceOf(m, i)[1] /\ x.virtual.rQ = ReferenceOf(m, i)[2]
         /\ x.interface.mu_max = g.mu_max
         /\ g.interface = "adaptive" =>
              /\ x.interface.gamma = g.gamma /\ x.interface.eps = g.eps[i]
              /\ x.interface.vartheta0 = g.vartheta0
         /\ g.interface # "adaptive" =>
              /\ x.interface.T_c = g.T_c /\ x.interface.beta_c = g.beta_c /\ x.interface.Phi = g.Phi
              /\ x.interface.terminal = g.terminal /\ x.interface.adapt_band = g.adapt_band
              /\ x.interface.delta_c = 0
<1> DEFINE g == m.controller.microgrid  n == m.nodes[i]  p == n.plant
           b == PinOf(m, i)  ref == ReferenceOf(m, i)
           plant == [kappa |-> p.kappa, S1 |-> p.S[1], S2 |-> p.S[2],
                     profile |-> g.profile, p_max |-> g.p_max, q_max |-> g.q_max]
           virtual == [T_o |-> g.T_o, alpha_0 |-> g.alpha_0, delta_o |-> g.delta_o,
                       kappa_o |-> g.kappa_o, xi |-> g.xi, c_0 |-> g.c_0,
                       b |-> b, rP |-> ref[1], rQ |-> ref[2]]
           adaptive == [gamma |-> g.gamma, eps |-> g.eps[i],
                        vartheta0 |-> g.vartheta0, mu_max |-> g.mu_max]
           lc == [T_c |-> g.T_c, beta_c |-> g.beta_c, Phi |-> g.Phi,
                  terminal |-> g.terminal, mu_max |-> g.mu_max,
                  adapt_band |-> g.adapt_band, delta_c |-> 0]
           face == IF g.interface = "adaptive" THEN adaptive ELSE lc
           x == [kind |-> g.interface, degree |-> Len(n.neighbors), plant |-> plant,
                 virtual |-> virtual, interface |-> face, X0 |-> p.X0, z0 |-> p.z0]
<1>1. MicrogridBlocks(m, i) = x
  BY Zenon DEF MicrogridBlocks, PinOf, ReferenceOf
<1> HIDE DEF g, n, p, b, ref
<1>2. plant.kappa = p.kappa /\ plant.S1 = p.S[1] /\ plant.S2 = p.S[2] /\ plant.p_max = g.p_max
      /\ plant.q_max = g.q_max /\ plant.profile = g.profile
  OBVIOUS
<1>3. /\ virtual.T_o = g.T_o /\ virtual.delta_o = g.delta_o
      /\ \A f \in {"alpha_0", "kappa_o", "xi", "c_0"} : virtual[f] = g[f]
      /\ virtual.b = b /\ virtual.rP = ref[1] /\ virtual.rQ = ref[2]
  OBVIOUS
<1>4. /\ face.mu_max = g.mu_max
      /\ g.interface = "adaptive" =>
           face.gamma = g.gamma /\ face.eps = g.eps[i] /\ face.vartheta0 = g.vartheta0
      /\ g.interface # "adaptive" =>
           /\ face.T_c = g.T_c /\ face.beta_c = g.beta_c /\ face.Phi = g.Phi
           /\ face.terminal = g.terminal /\ face.adapt_band = g.adapt_band /\ face.delta_c = 0
  OBVIOUS
<1> HIDE DEF plant, virtual, face
<1>5. /\ x.kind = g.interface /\ x.degree = Len(n.neighbors) /\ x.X0 = p.X0 /\ x.z0 = p.z0
      /\ x.plant = plant /\ x.virtual = virtual /\ x.interface = face
  OBVIOUS
<1> HIDE DEF x
<1> QED BY <1>1, <1>2, <1>3, <1>4, <1>5, Zenon DEF g, n, p, b, ref

LEMMA Rounded0 == Quantize(0) = 0 /\ RoundMs(0) = 0
BY DEF Quantize, RoundMs

\* A board that holds an assignment holds what its manifest says.
LEMMA AssignmentSays ==
  ASSUME NEW m, Typed(m), NEW i \in DOMAIN m.nodes, NEW a, AssignedBy(a, m, i), m.nodes[i].type = "ble",
         m.controller.microgrid # None => m.nodes[i].plant # None,
         NEW b, HoldsWhatSent(b, a)
  PROVE  HoldsTheManifest(b, m, i, a.enabled, a.publish)
<1> DEFINE n == m.nodes[i]  c == m.controller  g == c.microgrid  al == b.algorithm  d == b.disturbance
           r == m.radio
<1>1. /\ b.node_id = i /\ b.neighbors = n.neighbors /\ b.enabled = a.enabled
      /\ b.radio = <<RadioUnits(r.adv), RadioUnits(IF r.advMax = None THEN r.adv ELSE r.advMax),
                     RadioUnits(r.scanInterval), RadioUnits(r.scanWindow), Bit(~r.passive)>>
  BY Zenon DEF AssignedBy, HoldsWhatSent, RadioPayload
<1>2. /\ al.dt = RoundMs(c.dt) /\ al.clock = RoundMs(a.publish)
      /\ al.vartheta = 0 /\ al.counter = 0
  <2>1. a.scalar.vartheta = 0
    <3>1. a.scalar = Scalars(m, i) \/ a.scalar = DefaultScalars
      BY Zenon DEF AssignedBy
    <3> QED BY <3>1 DEF Scalars, DefaultScalars
  <2>2. al = AlgorithmRecord(a) /\ a.dt = c.dt
    BY Zenon DEF AssignedBy, HoldsWhatSent
  <2> HIDE DEF al, c
  <2> QED BY <2>1, <2>2, AlgorithmIs, Rounded0, Zenon
<1>3. ASSUME g = None
      PROVE  /\ b.law = 0
             /\ \A f \in {"gain_ij", "alpha", "delta", "eta"} : al[f] = Quantize(c[f])
             /\ al.state = Quantize(IcLow("ble") + Draw[i].state)
             /\ al.vstate = Quantize(IcLow("ble") + Draw[i].vstate)
             /\ d.enabled = Bit(c.disturbance.enabled)
             /\ d.samples = c.disturbance.samples
             /\ d.phase = Quantize(IF c.disturbance.phase = None THEN Draw[i].phase
                                   ELSE c.disturbance.phase)
             /\ \A f \in {"sine_amplitude", "frequency", "noise_amplitude",
                          "noise_offset", "beta"} : d[f] = Quantize(c.disturbance[f])
  <2>1. a.microgrid = None /\ a.scalar = Scalars(m, i) /\ b.law = 0 /\ al = AlgorithmRecord(a)
        /\ d = DisturbanceRecord(a)
    BY <1>3, Zenon DEF AssignedBy, HoldsWhatSent
  <2> DEFINE s == a.scalar  w == s.disturbance  v == c.disturbance
             drawn == IF v.phase = None THEN Draw[i].phase ELSE v.phase
  <2>2. v \in DisturbanceSpecs
    <3>1. c \in ControllerSpecs(DOMAIN m.nodes)
      BY Zenon DEF Typed
    <3> HIDE DEF c
    <3> QED BY <3>1 DEF ControllerSpecs
  <2>3. /\ \A f \in {"gain_ij", "alpha", "delta", "eta"} : s[f] = c[f]
        /\ s.state = IcLow("ble") + Draw[i].state /\ s.vstate = IcLow("ble") + Draw[i].vstate
        /\ w = [v EXCEPT !.phase = drawn]
    <3>1. s = [state |-> IcLow("ble") + Draw[i].state, vstate |-> IcLow("ble") + Draw[i].vstate,
               vartheta |-> 0, eta |-> c.eta, gain_ij |-> c.gain_ij,
               alpha |-> c.alpha, delta |-> c.delta,
               disturbance |-> [v EXCEPT !.phase = drawn]]
      BY <2>1, Zenon DEF Scalars
    <3> HIDE DEF v, c, drawn, s
    <3> QED BY <3>1
  <2> HIDE DEF w, v, s, drawn, c
  <2>4. /\ w.phase = drawn /\ w.samples = v.samples /\ w.enabled = v.enabled
        /\ \A f \in {"sine_amplitude", "frequency", "noise_amplitude", "noise_offset", "beta"} :
             w[f] = v[f]
    BY <2>2, <2>3 DEF DisturbanceSpecs
  <2>5. /\ al.state = Quantize(s.state) /\ al.vstate = Quantize(s.vstate)
        /\ \A f \in {"gain_ij", "alpha", "delta", "eta"} : al[f] = Quantize(s[f])
    BY <2>1, AlgorithmIs, Zenon DEF s
  <2>6. d.samples = w.samples /\ d.enabled = Bit(w.enabled)
        /\ \A f \in {"phase", "sine_amplitude", "frequency", "noise_amplitude", "noise_offset", "beta"} :
              d[f] = Quantize(w[f])
    BY <2>1, DisturbanceIs, Zenon DEF s, w
  <2> HIDE DEF al, d
  <2>7. /\ \A f \in {"gain_ij", "alpha", "delta", "eta"} : al[f] = Quantize(c[f])
        /\ al.state = Quantize(IcLow("ble") + Draw[i].state)
        /\ al.vstate = Quantize(IcLow("ble") + Draw[i].vstate)
        /\ d.samples = v.samples /\ d.phase = Quantize(drawn) /\ d.enabled = Bit(v.enabled)
        /\ \A f \in {"sine_amplitude", "frequency", "noise_amplitude", "noise_offset", "beta"} :
             d[f] = Quantize(v[f])
    BY <2>3, <2>4, <2>5, <2>6
  <2> QED BY <2>1, <2>7, Zenon DEF v, drawn, c, al, d
<1>4. ASSUME g # None
      PROVE  /\ b.law = (IF g.interface = "lc" THEN 2 ELSE 1)
             /\ b.interface.law = b.law
             /\ b.blocks = {"plant", "virtual"}
             /\ b.plant.profile = (IF g.profile = "rep" THEN 0 ELSE 1)
             /\ b.plant.kappa = Quantize(n.plant.kappa)
             /\ <<b.plant.p_max, b.plant.q_max>> = <<Quantize(g.p_max), Quantize(g.q_max)>>
             /\ <<b.plant.S1, b.plant.S2>> = <<Quantize(n.plant.S[1]), Quantize(n.plant.S[2])>>
             /\ <<b.plant.X0_P, b.plant.X0_Q>>
                   = <<Quantize(n.plant.X0[1]), Quantize(n.plant.X0[2])>>
             /\ <<b.virtual.z0_P, b.virtual.z0_Q>>
                   = <<Quantize(n.plant.z0[1]), Quantize(n.plant.z0[2])>>
             /\ b.virtual.degree = Len(n.neighbors)
             /\ IF i \in Pins(m)
                THEN <<b.virtual.b, b.virtual.rP, b.virtual.rQ>>
                       = <<Quantize(m.coordination.pinned[i]),
                           Quantize(m.coordination.reference[1]),
                           Quantize(m.coordination.reference[2])>>
                ELSE <<b.virtual.b, b.virtual.rP, b.virtual.rQ>> = <<0, 0, 0>>
             /\ \A f \in {"alpha_0", "kappa_o", "xi", "c_0"} : b.virtual[f] = Quantize(g[f])
             /\ b.virtual.T_o = RoundMs(g.T_o) /\ b.virtual.delta_o = RoundMs(g.delta_o)
             /\ b.interface.mu_max = Quantize(g.mu_max) /\ b.interface.delta_c = 0
             /\ IF g.interface = "lc"
                THEN /\ b.interface.terminal = Bit(g.terminal)
                     /\ b.interface.T_c = RoundMs(g.T_c)
                     /\ b.interface.beta_c = Quantize(g.beta_c)
                     /\ b.interface.Phi = Quantize(g.Phi)
                     /\ b.interface.adapt_band
                           = (IF g.adapt_band = None THEN -1 ELSE Quantize(g.adapt_band))
                     /\ <<b.interface.gamma, b.interface.eps, b.interface.vartheta_0>> = <<0, 0, 0>>
                ELSE /\ b.interface.gamma = Quantize(g.gamma)
                     /\ b.interface.eps = Quantize(g.eps[i])
                     /\ b.interface.vartheta_0 = Quantize(g.vartheta0)
                     /\ <<b.interface.terminal, b.interface.T_c, b.interface.beta_c,
                          b.interface.Phi>> = <<0, 0, 0, 0>>
                     /\ b.interface.adapt_band = -1
  <2> DEFINE x == MicrogridBlocks(m, i)
  <2>1. x = a.microgrid /\ a.microgrid # None
    BY <1>4, Frameable, Zenon DEF AssignedBy
  <2>2. /\ b.law = InterfaceRecord(x).law /\ b.blocks = {"plant", "virtual"}
        /\ b.plant = PlantRecord(x) /\ b.virtual = VirtualRecord(x) /\ b.interface = InterfaceRecord(x)
        /\ b.interface.law = b.law
    BY <2>1, Zenon DEF HoldsWhatSent
  <2>3. g.interface \in {"adaptive", "lc"}
    <3>1. c \in ControllerSpecs(DOMAIN m.nodes)
      BY Zenon DEF Typed
    <3> HIDE DEF c
    <3>2. c.microgrid \in MicrogridSpecs(DOMAIN m.nodes) \cup {None}
      BY <3>1 DEF ControllerSpecs
    <3>3. c.microgrid \in MicrogridSpecs(DOMAIN m.nodes)
      BY <1>4, <3>2, Zenon DEF c
    <3> QED BY <3>3 DEF MicrogridSpecs
  <2> HIDE DEF x
  <2>4. b.plant.kappa = Quantize(n.plant.kappa)
        /\ b.plant.profile = (IF g.profile = "rep" THEN 0 ELSE 1)
        /\ b.plant.p_max = Quantize(g.p_max) /\ b.plant.q_max = Quantize(g.q_max)
        /\ b.plant.S1 = Quantize(n.plant.S[1]) /\ b.plant.S2 = Quantize(n.plant.S[2])
        /\ b.plant.X0_P = Quantize(n.plant.X0[1]) /\ b.plant.X0_Q = Quantize(n.plant.X0[2])
    <3>1. b.plant.kappa = Quantize(x.plant.kappa)
          /\ b.plant.profile = (IF x.plant.profile = "rep" THEN 0 ELSE 1)
          /\ b.plant.p_max = Quantize(x.plant.p_max) /\ b.plant.q_max = Quantize(x.plant.q_max)
          /\ b.plant.S1 = Quantize(x.plant.S1) /\ b.plant.S2 = Quantize(x.plant.S2)
          /\ b.plant.X0_P = Quantize(x.X0[1]) /\ b.plant.X0_Q = Quantize(x.X0[2])
      BY <2>2, PlantIs
    <3>2. x.plant.kappa = n.plant.kappa /\ x.plant.p_max = g.p_max /\ x.plant.q_max = g.q_max
          /\ x.plant.S1 = n.plant.S[1] /\ x.plant.S2 = n.plant.S[2] /\ x.X0 = n.plant.X0
          /\ x.plant.profile = g.profile
      BY BlocksAre DEF x
    <3> QED BY <3>1, <3>2, Zenon
  <2>5. b.virtual.degree = Len(n.neighbors) /\ b.virtual.z0_P = Quantize(n.plant.z0[1])
        /\ b.virtual.z0_Q = Quantize(n.plant.z0[2])
        /\ b.virtual.T_o = RoundMs(g.T_o) /\ b.virtual.delta_o = RoundMs(g.delta_o)
    <3>1. b.virtual.degree = x.degree /\ b.virtual.z0_P = Quantize(x.z0[1])
          /\ b.virtual.z0_Q = Quantize(x.z0[2])
          /\ b.virtual.T_o = RoundMs(x.virtual.T_o) /\ b.virtual.delta_o = RoundMs(x.virtual.delta_o)
      BY <2>2, VirtualIs
    <3>2. x.degree = Len(n.neighbors) /\ x.z0 = n.plant.z0
          /\ x.virtual.T_o = g.T_o /\ x.virtual.delta_o = g.delta_o
      BY BlocksAre DEF x
    <3> QED BY <3>1, <3>2, Zenon
  <2>6. \A f \in {"alpha_0", "kappa_o", "xi", "c_0"} : b.virtual[f] = Quantize(g[f])
    <3> DEFINE o == g
    <3>1. \A f \in {"alpha_0", "kappa_o", "xi", "c_0"} : x.virtual[f] = o[f]
      BY BlocksAre DEF x
    <3>2. \A f \in {"alpha_0", "kappa_o", "xi", "c_0", "b", "rP", "rQ"} :
            b.virtual[f] = Quantize(x.virtual[f])
      BY <2>2, VirtualIs, Zenon
    <3> HIDE DEF o
    <3>3. \A f \in {"alpha_0", "kappa_o", "xi", "c_0"} : b.virtual[f] = Quantize(o[f])
      BY <3>1, <3>2
    <3> QED BY <3>3 DEF o
  <2>7. b.virtual.b = Quantize(PinOf(m, i)) /\ b.virtual.rP = Quantize(ReferenceOf(m, i)[1])
        /\ b.virtual.rQ = Quantize(ReferenceOf(m, i)[2])
    <3>1. /\ b.virtual.b = Quantize(x.virtual.b) /\ b.virtual.rP = Quantize(x.virtual.rP)
          /\ b.virtual.rQ = Quantize(x.virtual.rQ)
      BY <2>2, VirtualIs
    <3> QED BY <3>1, BlocksAre DEF x
  <2>8. IF i \in Pins(m)
        THEN <<b.virtual.b, b.virtual.rP, b.virtual.rQ>>
               = <<Quantize(m.coordination.pinned[i]),
                   Quantize(m.coordination.reference[1]),
                   Quantize(m.coordination.reference[2])>>
        ELSE <<b.virtual.b, b.virtual.rP, b.virtual.rQ>> = <<0, 0, 0>>
    <3>1. CASE i \in Pins(m)
      BY <2>7, <3>1, PinTyped, Zenon
    <3>2. CASE i \notin Pins(m)
      <4>1. PinOf(m, i) = 0 /\ ReferenceOf(m, i) = <<0, 0>>
        BY <3>2, PinTyped, Zenon
      <4>2. ReferenceOf(m, i)[1] = 0 /\ ReferenceOf(m, i)[2] = 0
        BY <4>1
      <4>3. b.virtual.b = 0 /\ b.virtual.rP = 0 /\ b.virtual.rQ = 0
        BY <2>7, <4>1, <4>2, Rounded0, Zenon
      <4> QED BY <3>2, <4>3, Zenon
    <3> QED BY <3>1, <3>2, Zenon
  <2>9. b.interface.mu_max = Quantize(g.mu_max) /\ x.kind = g.interface
    BY <2>2, InterfaceIs, BlocksAre DEF x
  <2>10. CASE g.interface = "lc"
    <3>1. g.interface # "adaptive"
      BY <2>10
    <3>2. /\ b.law = 2 /\ b.interface.terminal = Bit(g.terminal)
          /\ b.interface.T_c = RoundMs(g.T_c)
          /\ b.interface.beta_c = Quantize(g.beta_c)
          /\ b.interface.Phi = Quantize(g.Phi)
          /\ b.interface.adapt_band = (IF g.adapt_band = None THEN -1 ELSE Quantize(g.adapt_band))
          /\ b.interface.delta_c = 0
          /\ b.interface.gamma = 0 /\ b.interface.eps = 0 /\ b.interface.vartheta_0 = 0
      <4>1. /\ x.interface.T_c = g.T_c /\ x.interface.beta_c = g.beta_c /\ x.interface.Phi = g.Phi
            /\ x.interface.terminal = g.terminal /\ x.interface.adapt_band = g.adapt_band
            /\ x.interface.delta_c = 0
        BY <3>1, BlocksAre DEF x
      <4>2. x.kind = "lc"
        BY <2>9, <2>10, Zenon
      <4> QED BY <2>2, <4>1, <4>2, InterfaceIs, Rounded0
    <3> QED BY <2>2, <2>4, <2>5, <2>6, <2>8, <2>9, <2>10, <3>2, Zenon
  <2>11. CASE g.interface # "lc"
    <3>1. /\ b.law = 1 /\ b.interface.gamma = Quantize(g.gamma) /\ b.interface.eps = Quantize(g.eps[i])
          /\ b.interface.vartheta_0 = Quantize(g.vartheta0)
          /\ b.interface.terminal = 0 /\ b.interface.T_c = 0 /\ b.interface.beta_c = 0
          /\ b.interface.Phi = 0 /\ b.interface.delta_c = 0 /\ b.interface.adapt_band = -1
      <4>1. x.interface.gamma = g.gamma /\ x.interface.eps = g.eps[i]
            /\ x.interface.vartheta0 = g.vartheta0
        BY <2>3, <2>11, BlocksAre DEF x
      <4>2. x.kind # "lc"
        BY <2>9, <2>11, Zenon
      <4> QED BY <2>2, <4>1, <4>2, InterfaceIs
    <3> QED BY <2>2, <2>4, <2>5, <2>6, <2>8, <2>9, <2>11, <3>1, Zenon
  <2> QED BY <2>10, <2>11
<1> HIDE DEF n, c, g, al, d, r
<1> QED BY <1>1, <1>2, <1>3, <1>4, Zenon DEF HoldsTheManifest, n, c, g, al, d, r

\* The inductive invariant: what the hub holds comes of the document, every
\* assignment of the manifest under the arm in force, with the switch and the
\* period the hub gave it, and a relay told ok has a board that holds its
\* assignment.
Shapes ==
  /\ doc \in Docs /\ DOMAIN board = Ids /\ DOMAIN told = Ids
  /\ \A i \in Ids : Shaped(board[i])
Stages ==
  /\ stage \in {"loaded", "ready", "running"} => LoadAccepts(doc) /\ manifest = Loaded(doc)
  /\ stage \in {"read", "loaded"} => arm = None /\ period = None
  /\ stage \notin {"ready", "running"} => \A i \in Ids : told[i] = "none"
AsOpted(i) == assigned[i].enabled = SwitchOf(i) /\ assigned[i].publish = PeriodOf(i)
Built ==
  stage \in {"ready", "running"} =>
    /\ arm # None => arm \in Arms /\ manifest.controller.microgrid # None
    /\ Assignable(manifest)
    /\ DOMAIN assigned = Ids /\ \A i \in Ids : AssignedBy(assigned[i], InForce, i) /\ AsOpted(i)
Accepted ==
  \A i \in Ids : told[i] = "ok" /\ doc.nodes[i].type = "ble" => HoldsWhatSent(board[i], assigned[i])

FieldIInv == Shapes /\ Stages /\ Built /\ Accepted

LEMMA NoArm == None \notin Arms /\ None \notin Periods
BY ManifestsAssumption, Zenon

LEMMA DocumentIs == doc \in Docs => IsDocument(doc)
BY ManifestsAssumption, Zenon

LEMMA ManifestIs ==
  ASSUME doc \in Docs, LoadAccepts(doc), manifest = Loaded(doc)
  PROVE  /\ Typed(manifest) /\ DOMAIN manifest.nodes = Ids
         /\ \A i \in Ids : manifest.nodes[i].type = doc.nodes[i].type
BY DocumentIs, LoadedTyped, Zenon DEF Ids

\* Under either arm the manifest in force is a typed one of the same agents.
LEMMA InForceIs ==
  ASSUME FieldIInv, stage \in {"ready", "running"}
  PROVE  /\ Typed(InForce) /\ DOMAIN InForce.nodes = Ids
         /\ \A i \in Ids : /\ InForce.nodes[i].type = doc.nodes[i].type
                           /\ InForce.controller.microgrid # None => InForce.nodes[i].plant # None
<1>1. /\ Typed(manifest) /\ DOMAIN manifest.nodes = Ids
      /\ \A i \in Ids : manifest.nodes[i].type = doc.nodes[i].type
  <2>1. doc \in Docs /\ LoadAccepts(doc) /\ manifest = Loaded(doc)
    BY DEF FieldIInv, Shapes, Stages
  <2> QED BY <2>1, ManifestIs, Zenon
<1>2. Assignable(manifest) /\ (arm # None => arm \in Arms /\ manifest.controller.microgrid # None)
  BY DEF FieldIInv, Built
<1>3. CASE arm = None
  <2>1. InForce = manifest
    BY <1>3, Zenon DEF InForce
  <2> QED BY <1>1, <1>2, <2>1, Zenon DEF Assignable
<1>4. CASE arm # None
  <2>1. InForce = ArmManifest(manifest, arm)
    BY <1>4, Zenon DEF InForce
  <2>2. Typed(InForce) /\ InForce.nodes = manifest.nodes
    BY <1>1, <1>2, <1>4, <2>1, ArmTyped, Zenon
  <2> QED BY <1>1, <1>2, <1>4, <2>2, Zenon DEF Assignable
<1> QED BY <1>3, <1>4

LEMMA FieldInitially == Init => FieldIInv
<1> SUFFICES ASSUME Init PROVE FieldIInv
  OBVIOUS
<1>1. doc \in Docs /\ stage = "read" /\ arm = None /\ period = None /\ told = [i \in Ids |-> "none"]
      /\ board \in {[i \in Ids |-> b] : b \in Boards}
  BY Zenon DEF Init
<1>2. PICK b \in Boards : board = [i \in Ids |-> b]
  BY <1>1, Zenon
<1>3. Shaped(b)
  <2>1. DOMAIN b = DOMAIN BootParams
    BY ManifestsAssumption, Zenon
  <2>2. DOMAIN BootParams = {"law", "blocks", "enabled", "node_id", "neighbors", "algorithm",
                             "disturbance", "plant", "virtual", "interface", "radio", "start"}
    BY DEF BootParams
  <2> QED BY <2>1, <2>2 DEF Shaped
<1>4. Shapes
  BY <1>1, <1>2, <1>3 DEF Shapes
<1>5. \A i \in Ids : told[i] = "none"
  BY <1>1
<1>6. Stages /\ Built /\ Accepted
  BY <1>1, <1>5 DEF Stages, Built, Accepted
<1> QED BY <1>4, <1>6 DEF FieldIInv

LEMMA LoadKeeps == FieldIInv /\ LoadManifest => FieldIInv'
<1> SUFFICES ASSUME FieldIInv, LoadManifest PROVE FieldIInv'
  OBVIOUS
<1>1. /\ UNCHANGED <<doc, period, arm, assigned, board, told>> /\ stage = "read"
      /\ \/ stage' = "refused"
         \/ LoadAccepts(doc) /\ stage' = "loaded" /\ manifest' = Loaded(doc)
  BY Zenon DEF LoadManifest, Loaded
<1>2. Ids' = Ids /\ \A i \in Ids : told[i] = "none"
  BY <1>1 DEF Ids, FieldIInv, Stages
<1>3. Shapes' /\ Accepted'
  BY <1>1, <1>2 DEF FieldIInv, Shapes, Accepted
<1>4. arm = None /\ period = None
  BY <1>1 DEF FieldIInv, Stages
<1>5. Stages' /\ Built'
  BY <1>1, <1>2, <1>4 DEF Stages, Built
<1> QED BY <1>3, <1>5 DEF FieldIInv

LEMMA CheckKeeps == FieldIInv /\ CheckManifest => FieldIInv'
<1> SUFFICES ASSUME FieldIInv, CheckManifest PROVE FieldIInv'
  OBVIOUS
<1>1. /\ UNCHANGED <<doc, manifest, period, arm, board, told>> /\ stage = "loaded" /\ altered' = {}
      /\ \/ stage' = "refused"
         \/ Assignable(manifest) /\ stage' = "ready" /\ assigned' = Assignments(manifest)
  BY Zenon DEF CheckManifest
<1>2. /\ Ids' = Ids /\ \A i \in Ids : told[i] = "none"
      /\ arm = None /\ period = None
      /\ LoadAccepts(doc) /\ manifest = Loaded(doc) /\ doc \in Docs
  BY <1>1 DEF Ids, FieldIInv, Stages, Shapes
<1>3. Shapes' /\ Accepted'
  BY <1>1, <1>2 DEF FieldIInv, Shapes, Accepted
<1>4. Stages'
  BY <1>1, <1>2 DEF Stages
<1>5. Built'
  <2> SUFFICES ASSUME stage' \in {"ready", "running"} PROVE Built'
    BY DEF Built
  <2>1. Assignable(manifest) /\ assigned' = Assignments(manifest)
    BY <1>1
  <2>2. Typed(manifest) /\ DOMAIN manifest.nodes = Ids
    BY <1>2, ManifestIs, Zenon
  <2>3. InForce' = manifest
    BY <1>1, <1>2, Zenon DEF InForce
  <2>4. assigned' = [i \in Ids |-> Assignment(manifest, i)]
    BY <2>1, <2>2, Zenon DEF Assignments
  <2>5. DOMAIN assigned' = Ids /\ \A i \in Ids : assigned'[i] = Assignment(manifest, i)
    BY <2>4
  <2>6. \A i \in Ids : /\ AssignedBy(assigned'[i], manifest, i)
                        /\ assigned'[i].enabled = manifest.nodes[i].enabled
                        /\ assigned'[i].publish = manifest.nodes[i].publish
    BY <2>2, <2>5, AssignmentIs, Zenon
  <2>8. ASSUME NEW i \in Ids PROVE AsOpted(i)'
    <3>1. i \notin altered' /\ period' = None
      BY <1>1, <1>2
    <3> QED BY <1>1, <2>6, <3>1, Zenon DEF AsOpted, SwitchOf, PeriodOf
  <2>7. Assignable(manifest')
    BY <1>1, <2>1, Zenon
  <2> QED BY <1>1, <1>2, <2>3, <2>5, <2>6, <2>7, <2>8, Zenon DEF Built
<1> QED BY <1>3, <1>4, <1>5 DEF FieldIInv

LEMMA PeriodKeeps == ASSUME FieldIInv, NEW p \in Periods, OverridePeriod(p) PROVE FieldIInv'
<1>1. /\ UNCHANGED <<doc, manifest, arm, board, told, altered>> /\ stage = "ready" /\ arm = None
      /\ \A i \in Ids : told[i] = "none"
      /\ \/ stage' = "refused" /\ assigned' = assigned
         \/ /\ stage' = stage /\ period' = p
            /\ assigned' = [i \in Ids |-> [assigned[i] EXCEPT !.publish = p]]
  BY Zenon DEF OverridePeriod, events
<1>2. Ids' = Ids
  BY <1>1 DEF Ids
<1>3. Shapes' /\ Accepted'
  BY <1>1, <1>2 DEF FieldIInv, Shapes, Accepted
<1>4. Stages'
  BY <1>1, <1>2 DEF FieldIInv, Stages
<1>5. Built'
  <2> SUFFICES ASSUME stage' \in {"ready", "running"} PROVE Built'
    BY DEF Built
  <2>1. assigned' = [i \in Ids |-> [assigned[i] EXCEPT !.publish = p]] /\ period' = p
    BY <1>1
  <2>2. /\ arm # None => arm \in Arms /\ manifest.controller.microgrid # None
        /\ Assignable(manifest) /\ \A i \in Ids : AssignedBy(assigned[i], InForce, i) /\ AsOpted(i)
    BY <1>1 DEF FieldIInv, Built
  <2>3. InForce' = InForce /\ Assignable(manifest')
    BY <1>1, <2>2, Zenon DEF InForce
  <2>4. \A i \in Ids : /\ AssignedBy(Republished(assigned[i], p), InForce, i)
                        /\ Republished(assigned[i], p).publish = p
                        /\ Republished(assigned[i], p).enabled = assigned[i].enabled
    <3> SUFFICES ASSUME NEW i \in Ids
                 PROVE  IsRepublished(Republished(assigned[i], p), assigned[i], InForce, i, p)
      BY DEF IsRepublished
    <3>1. AssignedBy(assigned[i], InForce, i)
      BY <2>2
    <3> QED BY <3>1, RepublishedKeeps
  <2>5. DOMAIN assigned' = Ids /\ \A i \in Ids : assigned'[i] = Republished(assigned[i], p)
    BY <2>1 DEF Republished
  <2>6. ASSUME NEW i \in Ids PROVE AsOpted(i)'
    <3>1. assigned[i].enabled = SwitchOf(i) /\ SwitchOf(i)' = SwitchOf(i)
      BY <1>1, <2>2, Zenon DEF AsOpted, SwitchOf
    <3>2. PeriodOf(i)' = p
      BY <1>1, <2>1, NoArm, Zenon DEF PeriodOf
    <3> QED BY <2>4, <2>5, <3>1, <3>2, Zenon DEF AsOpted
  <2> QED BY <1>1, <1>2, <2>2, <2>3, <2>4, <2>5, <2>6, Zenon DEF Built
<1> QED BY <1>3, <1>4, <1>5 DEF FieldIInv

LEMMA ArmKeeps == ASSUME FieldIInv, NEW a \in Arms, SetArm(a) PROVE FieldIInv'
<1>1. /\ UNCHANGED <<doc, stage, manifest, board, told>> /\ stage = "ready"
      /\ \A i \in Ids : told[i] = "none"
      /\ manifest.controller.microgrid # None
      /\ arm' = a /\ altered' = {} /\ assigned' = Assignments(ArmManifest(manifest, a))
  BY Zenon DEF SetArm
<1>2. Ids' = Ids
  BY <1>1 DEF Ids
<1>3. Shapes' /\ Accepted'
  BY <1>1, <1>2 DEF FieldIInv, Shapes, Accepted
<1>4. Stages'
  BY <1>1, <1>2 DEF FieldIInv, Stages
<1>5. Built'
  <2> DEFINE m == ArmManifest(manifest, a)
  <2>1. doc \in Docs /\ LoadAccepts(doc) /\ manifest = Loaded(doc) /\ Assignable(manifest)
    BY <1>1 DEF FieldIInv, Shapes, Stages, Built
  <2>2. Typed(m) /\ DOMAIN m.nodes = Ids /\ m.nodes = manifest.nodes
    BY <1>1, <2>1, ManifestIs, ArmTyped, Zenon
  <2>3. InForce' = m
    BY <1>1, NoArm, Zenon DEF InForce
  <2>4. assigned' = [i \in Ids |-> Assignment(m, i)]
    BY <1>1, <2>2, Zenon DEF Assignments
  <2> HIDE DEF m
  <2>5. DOMAIN assigned' = Ids /\ \A i \in Ids : assigned'[i] = Assignment(m, i)
    BY <2>4
  <2>6. \A i \in Ids : /\ AssignedBy(assigned'[i], m, i)
                        /\ assigned'[i].enabled = manifest.nodes[i].enabled
                        /\ assigned'[i].publish = manifest.nodes[i].publish
    BY <2>2, <2>5, AssignmentIs, Zenon
  <2>8. ASSUME NEW i \in Ids PROVE AsOpted(i)'
    <3>1. i \notin altered' /\ arm' # None
      BY <1>1, NoArm
    <3> QED BY <1>1, <2>6, <3>1, Zenon DEF AsOpted, SwitchOf, PeriodOf
  <2>7. Assignable(manifest') /\ manifest'.controller.microgrid # None /\ arm' \in Arms
    BY <1>1, <2>1, Zenon
  <2> QED BY <1>2, <2>3, <2>5, <2>6, <2>7, <2>8, Zenon DEF Built
<1> QED BY <1>3, <1>4, <1>5 DEF FieldIInv

\* A relay's configure changes its own board, and is told ok only when that
\* board holds what it was sent.
LEMMA RelayConfigured ==
  ASSUME Shapes, NEW i \in Ids, NEW a, Framable(a), ConfigureBoard(i, a)
  PROVE  /\ DOMAIN board' = Ids /\ DOMAIN told' = Ids
         /\ \A j \in Ids : Shaped(board'[j])
         /\ \A j \in Ids \ {i} : board'[j] = board[j] /\ told'[j] = told[j]
         /\ told'[i] = "ok" => HoldsWhatSent(board'[i], a)
<1> DEFINE r == Configured(board[i], Frames(a))
<1>1. DOMAIN board = Ids /\ DOMAIN told = Ids /\ \A j \in Ids : Shaped(board[j])
  BY DEF Shapes
<1>2. Shaped(r.board) /\ (r.ok => HoldsWhatSent(r.board, a))
  BY <1>1, BoardConfigured, Zenon
<1>3. \/ board' = board /\ told' = [told EXCEPT ![i] = "raised"]
      \/ /\ board' = [board EXCEPT ![i] = r.board]
         /\ told' = [told EXCEPT ![i] = IF r.ok THEN "ok" ELSE "rejected"]
  BY Zenon DEF ConfigureBoard
<1> HIDE DEF r
<1>4. CASE board' = board /\ told' = [told EXCEPT ![i] = "raised"]
  <2>1. DOMAIN told' = Ids /\ told'[i] = "raised" /\ \A j \in Ids \ {i} : told'[j] = told[j]
    BY <1>1, <1>4
  <2>2. told'[i] # "ok"
    BY <2>1
  <2> QED BY <1>1, <1>4, <2>1, <2>2, Zenon
<1>5. CASE /\ board' = [board EXCEPT ![i] = r.board]
           /\ told' = [told EXCEPT ![i] = IF r.ok THEN "ok" ELSE "rejected"]
  <2>1. /\ DOMAIN told' = Ids /\ told'[i] = (IF r.ok THEN "ok" ELSE "rejected")
        /\ \A j \in Ids \ {i} : told'[j] = told[j]
    BY <1>1, <1>5
  <2>2. DOMAIN board' = Ids /\ board'[i] = r.board /\ \A j \in Ids \ {i} : board'[j] = board[j]
    BY <1>1, <1>5
  <2>3. \A j \in Ids : Shaped(board'[j])
    BY <1>1, <1>2, <2>2
  <2>4. told'[i] = "ok" => r.ok
    BY <2>1
  <2> QED BY <1>2, <2>1, <2>2, <2>3, <2>4, Zenon
<1> QED BY <1>3, <1>4, <1>5

\* What holds of the assignments once the manifest was checked.
LEMMA RunningFacts ==
  ASSUME FieldIInv, stage \in {"ready", "running"}
  PROVE  /\ Assignable(manifest) /\ (arm # None => arm \in Arms /\ manifest.controller.microgrid # None)
         /\ DOMAIN assigned = Ids
         /\ \A i \in Ids : AssignedBy(assigned[i], InForce, i) /\ Framable(assigned[i])
                           /\ assigned[i].type = doc.nodes[i].type /\ AsOpted(i)
<1>1. /\ Assignable(manifest) /\ (arm # None => arm \in Arms /\ manifest.controller.microgrid # None)
      /\ DOMAIN assigned = Ids /\ \A i \in Ids : AssignedBy(assigned[i], InForce, i) /\ AsOpted(i)
  BY DEF FieldIInv, Built
<1>2. /\ Typed(InForce) /\ DOMAIN InForce.nodes = Ids
      /\ \A i \in Ids : /\ InForce.nodes[i].type = doc.nodes[i].type
                        /\ InForce.controller.microgrid # None => InForce.nodes[i].plant # None
  BY InForceIs, Zenon
<1>3. ASSUME NEW i \in Ids PROVE Framable(assigned[i]) /\ assigned[i].type = doc.nodes[i].type
  <2>1. Framable(assigned[i])
    BY <1>1, <1>2, <1>3, Frameable, Zenon
  <2> QED BY <1>1, <1>2, <2>1, Zenon DEF AssignedBy
<1> QED BY <1>1, <1>3, Zenon

LEMMA ConfigureKeeps == ASSUME FieldIInv, NEW i \in Ids, Configure(i) PROVE FieldIInv'
<1>1. /\ stage = "ready" /\ UNCHANGED <<doc, stage, manifest, period, arm, assigned, altered>>
      /\ IF assigned[i].type = "ble" THEN ConfigureBoard(i, assigned[i])
         ELSE ConfigurePi(i, assigned[i])
  BY Zenon DEF Configure, events
<1>2. Ids' = Ids /\ InForce' = InForce
  BY <1>1, Zenon DEF Ids, InForce
<1>3. /\ DOMAIN board' = Ids /\ DOMAIN told' = Ids
      /\ \A j \in Ids : Shaped(board'[j])
      /\ \A j \in Ids \ {i} : board'[j] = board[j] /\ told'[j] = told[j]
      /\ told'[i] = "ok" /\ doc.nodes[i].type = "ble" => HoldsWhatSent(board'[i], assigned[i])
  <2>1. Shapes /\ assigned[i].type = doc.nodes[i].type /\ Framable(assigned[i])
    BY <1>1, RunningFacts, Zenon DEF FieldIInv
  <2>2. CASE assigned[i].type = "ble"
    BY <1>1, <2>1, <2>2, RelayConfigured, Zenon
  <2>3. CASE assigned[i].type # "ble"
    <3>1. board' = board /\ \/ told' = [told EXCEPT ![i] = "ok"]
                            \/ told' = [told EXCEPT ![i] = "raised"]
      BY <1>1, <2>3, Zenon DEF ConfigurePi
    <3>2. DOMAIN board = Ids /\ DOMAIN told = Ids /\ \A j \in Ids : Shaped(board[j])
      BY <2>1, Zenon DEF Shapes
    <3>3. DOMAIN told' = Ids /\ \A j \in Ids \ {i} : told'[j] = told[j]
      BY <3>1, <3>2
    <3> QED BY <2>1, <2>3, <3>1, <3>2, <3>3, Zenon
  <2> QED BY <2>2, <2>3
<1>4. Shapes'
  BY <1>1, <1>2, <1>3, Zenon DEF FieldIInv, Shapes
<1>5. Accepted'
  <2> SUFFICES ASSUME NEW j \in Ids, told'[j] = "ok", doc.nodes[j].type = "ble"
               PROVE  HoldsWhatSent(board'[j], assigned[j])
    BY <1>1, <1>2 DEF Accepted
  <2>1. CASE j = i
    BY <1>3, <2>1, Zenon
  <2>2. CASE j # i
    BY <1>3, <2>2, Zenon DEF FieldIInv, Accepted
  <2> QED BY <2>1, <2>2
<1>6. Built'
  <2>1. \A j \in Ids : AsOpted(j)' = AsOpted(j)
    BY <1>1, Zenon DEF AsOpted, SwitchOf, PeriodOf
  <2> QED BY <1>1, <1>2, <2>1, Zenon DEF FieldIInv, Built
<1>7. Stages'
  <2>1. LoadAccepts(doc) /\ manifest = Loaded(doc)
    BY <1>1 DEF FieldIInv, Stages
  <2> QED BY <1>1, <2>1 DEF Stages
<1> QED BY <1>4, <1>5, <1>6, <1>7, Zenon DEF FieldIInv

LEMMA EventKeeps == ASSUME FieldIInv, NEW i \in Ids, ApplyEvent(i) PROVE FieldIInv'
<1> DEFINE a == Switched(assigned[i], doc.event.enabled)
<1> DEFINE Changed == assigned' = [assigned EXCEPT ![i] = a] /\ altered' = altered \cup {i}
<1>1. /\ stage = "running" /\ UNCHANGED <<doc, stage, manifest, period, arm>> /\ doc.event # None
      /\ IF a.type = "ble"
         THEN /\ ConfigureBoard(i, a)
              /\ IF told'[i] = "ok" THEN Changed ELSE UNCHANGED <<assigned, altered>>
         ELSE Changed /\ UNCHANGED <<board, told>>
  BY Zenon DEF ApplyEvent, Switched
<1>2. Ids' = Ids /\ InForce' = InForce
  BY <1>1, Zenon DEF Ids, InForce
<1>3. /\ Assignable(manifest) /\ (arm # None => arm \in Arms /\ manifest.controller.microgrid # None)
      /\ DOMAIN assigned = Ids
      /\ \A j \in Ids : AssignedBy(assigned[j], InForce, j) /\ Framable(assigned[j])
                        /\ assigned[j].type = doc.nodes[j].type /\ AsOpted(j)
  BY <1>1, RunningFacts
<1>4. doc.event.enabled \in BOOLEAN
  <2>1. IsDocument(doc)
    BY DocumentIs DEF FieldIInv, Shapes
  <2> QED BY <1>1, <2>1, Zenon DEF IsDocument
<1>5. AssignedBy(a, InForce, i) /\ a.publish = assigned[i].publish /\ a.enabled = doc.event.enabled
  <2>1. AssignedBy(assigned[i], InForce, i)
    BY <1>3
  <2>2. IsSwitched(Switched(assigned[i], doc.event.enabled), assigned[i], InForce, i, doc.event.enabled)
    BY <1>4, <2>1, SwitchedKeeps
  <2> QED BY <2>2 DEF IsSwitched
<1>6. Framable(a) /\ a.type = doc.nodes[i].type
  <2>1. /\ Typed(InForce) /\ DOMAIN InForce.nodes = Ids
        /\ \A j \in Ids : /\ InForce.nodes[j].type = doc.nodes[j].type
                          /\ InForce.controller.microgrid # None => InForce.nodes[j].plant # None
    BY <1>1, InForceIs
  <2> HIDE DEF a
  <2>2. Framable(a)
    BY <1>5, <2>1, Frameable, Zenon
  <2> QED BY <1>5, <2>1, <2>2, Zenon DEF AssignedBy
<1> HIDE DEF a
<1>7. /\ DOMAIN assigned' = Ids /\ \A j \in Ids \ {i} : assigned'[j] = assigned[j]
      /\ \/ assigned'[i] = a /\ altered' = altered \cup {i}
         \/ assigned'[i] = assigned[i] /\ altered' = altered
  BY <1>1, <1>3
<1>8. Built'
  <2>1. \A j \in Ids : AssignedBy(assigned'[j], InForce, j)
    <3> SUFFICES ASSUME NEW j \in Ids PROVE AssignedBy(assigned'[j], InForce, j)
      OBVIOUS
    <3>1. CASE j = i
      BY <1>3, <1>5, <1>7, <3>1, Zenon
    <3>2. CASE j # i
      BY <1>3, <1>7, <3>2, Zenon
    <3> QED BY <3>1, <3>2
  <2>2. ASSUME NEW j \in Ids PROVE AsOpted(j)'
    <3>0. AsOpted(j) /\ PeriodOf(j)' = PeriodOf(j)
      BY <1>1, <1>3, Zenon DEF PeriodOf
    <3>1. CASE assigned'[j] = assigned[j] /\ (j \in altered' <=> j \in altered)
      <4>1. SwitchOf(j)' = SwitchOf(j)
        BY <1>1, <3>1, Zenon DEF SwitchOf
      <4> QED BY <3>0, <3>1, <4>1, Zenon DEF AsOpted
    <3>2. CASE j = i /\ assigned'[i] = a /\ altered' = altered \cup {i}
      <4>1. i \in altered'
        BY <3>2
      <4>2. SwitchOf(i)' = doc.event.enabled
        BY <1>1, <4>1, Zenon DEF SwitchOf
      <4> QED BY <1>5, <3>0, <3>2, <4>2, Zenon DEF AsOpted
    <3> QED BY <1>7, <3>1, <3>2
  <2> QED BY <1>1, <1>2, <1>3, <1>7, <2>1, <2>2, Zenon DEF Built
<1>9. Stages'
  <2>1. LoadAccepts(doc) /\ manifest = Loaded(doc)
    BY <1>1 DEF FieldIInv, Stages
  <2> QED BY <1>1, <2>1 DEF Stages
<1>10. Shapes' /\ Accepted'
  <2>1. CASE a.type = "ble"
    <3>1. Shapes
      BY DEF FieldIInv
    <3>2. /\ DOMAIN board' = Ids /\ DOMAIN told' = Ids
          /\ \A j \in Ids : Shaped(board'[j])
          /\ \A j \in Ids \ {i} : board'[j] = board[j] /\ told'[j] = told[j]
          /\ told'[i] = "ok" => HoldsWhatSent(board'[i], a)
      BY <1>1, <1>6, <2>1, <3>1, RelayConfigured, Zenon
    <3>3. told'[i] = "ok" => assigned'[i] = a
      BY <1>1, <1>3, <2>1
    <3>4. Shapes'
      BY <1>1, <1>2, <3>1, <3>2, Zenon DEF Shapes
    <3>5. Accepted'
      <4> SUFFICES ASSUME NEW j \in Ids, told'[j] = "ok", doc.nodes[j].type = "ble"
                   PROVE  HoldsWhatSent(board'[j], assigned'[j])
        BY <1>1, <1>2 DEF Accepted
      <4>1. CASE j = i
        BY <3>2, <3>3, <4>1, Zenon
      <4>2. CASE j # i
        BY <1>7, <3>2, <4>2, Zenon DEF FieldIInv, Accepted
      <4> QED BY <4>1, <4>2
    <3> QED BY <3>4, <3>5
  <2>2. CASE a.type # "ble"
    <3>1. board' = board /\ told' = told
      BY <1>1, <2>2
    <3>2. Shapes'
      BY <1>1, <1>2, <3>1, Zenon DEF FieldIInv, Shapes
    <3>3. Accepted'
      <4> SUFFICES ASSUME NEW j \in Ids, told'[j] = "ok", doc.nodes[j].type = "ble"
                   PROVE  HoldsWhatSent(board'[j], assigned'[j])
        BY <1>1, <1>2 DEF Accepted
      <4>1. j # i
        BY <1>6, <2>2, Zenon
      <4> QED BY <1>7, <3>1, <4>1, Zenon DEF FieldIInv, Accepted
    <3> QED BY <3>2, <3>3
  <2> QED BY <2>1, <2>2
<1> QED BY <1>8, <1>9, <1>10, Zenon DEF FieldIInv

\* A reset moves the integrators of a board and none of its parameters.
LEMMA ResetHolds ==
  ASSUME NEW b, Shaped(b)
  PROVE  Shaped(Reset(b)) /\ \A a : HoldsWhatSent(b, a) => HoldsWhatSent(Reset(b), a)
<1> DEFINE from == Integrators(b.plant, b.virtual, b.interface)  d == Reset(b)
<1>1. d = [b EXCEPT !.start = from]
  BY Zenon DEF Reset
<1> HIDE DEF from, d
<1>2. Shaped(d) /\ d.radio = b.radio /\ SaysAs(d, b)
  BY <1>1 DEF Shaped, SaysAs
<1>3. \A a : HoldsWhatSent(b, a) => HoldsWhatSent(d, a)
  BY <1>2, Zenon DEF HoldsWhatSent, SaysAs
<1> QED BY <1>2, <1>3, Zenon DEF d

\* A step that touches neither manifest, options, arm nor assignments, and of
\* the boards their integrators only.
LEMMA RestKeeps ==
  ASSUME FieldIInv, UNCHANGED <<doc, manifest, period, arm, assigned, altered>>,
         DOMAIN board' = Ids, \A i \in Ids : board'[i] = board[i] \/ board'[i] = Reset(board[i]),
         \/ stage' = stage /\ told' = told
         \/ stage = "ready" /\ stage' = "running" /\ told' = told
         \/ stage = "running" /\ stage' = "ready" /\ told' = [i \in Ids |-> "none"]
  PROVE  FieldIInv'
<1>1. Ids' = Ids /\ InForce' = InForce
  BY Zenon DEF Ids, InForce
<1>2. /\ DOMAIN told' = Ids /\ \A i \in Ids : told'[i] = told[i] \/ told'[i] = "none"
      /\ \A i \in Ids : Shaped(board[i])
  BY DEF FieldIInv, Shapes
<1>8. ASSUME NEW i \in Ids
      PROVE  Shaped(board'[i]) /\ \A a : HoldsWhatSent(board[i], a) => HoldsWhatSent(board'[i], a)
  BY <1>2, ResetHolds, Zenon
<1>3. Shapes'
  BY <1>1, <1>2, <1>8, Zenon DEF FieldIInv, Shapes
<1>4. Accepted'
  <2>1. \A i \in Ids : told'[i] = "ok" => told[i] = "ok"
    BY <1>2
  <2> QED BY <1>1, <1>8, <2>1, Zenon DEF FieldIInv, Accepted
<1>5. \/ stage' \in {"ready", "running"} /\ stage \in {"ready", "running"}
      \/ stage' = stage /\ told' = told
  BY Zenon
<1>6. Stages'
  <2>1. CASE stage' = stage /\ told' = told
    BY <1>1, <2>1, Zenon DEF FieldIInv, Stages
  <2>2. CASE stage' \in {"ready", "running"} /\ stage \in {"ready", "running"}
    <3>1. LoadAccepts(doc) /\ manifest = Loaded(doc)
      BY <2>2 DEF FieldIInv, Stages
    <3>2. stage' \notin {"read", "loaded"}
      BY <2>2
    <3> QED BY <2>2, <3>1, <3>2, Zenon DEF Stages
  <2> QED BY <1>5, <2>1, <2>2
<1>7. Built'
  <2>1. \A i \in Ids : AsOpted(i)' = AsOpted(i)
    BY Zenon DEF AsOpted, SwitchOf, PeriodOf
  <2> QED BY <1>1, <1>5, <2>1, Zenon DEF FieldIInv, Built
<1> QED BY <1>3, <1>4, <1>6, <1>7, Zenon DEF FieldIInv

LEMMA FieldStep == FieldIInv /\ [Next]_vars => FieldIInv'
<1> SUFFICES ASSUME FieldIInv, [Next]_vars PROVE FieldIInv'
  OBVIOUS
<1>1. CASE LoadManifest
  BY <1>1, LoadKeeps, Zenon
<1>2. CASE CheckManifest
  BY <1>2, CheckKeeps, Zenon
<1>3. CASE \E p \in Periods : OverridePeriod(p)
  BY <1>3, PeriodKeeps, Zenon
<1>4. CASE \E a \in Arms : SetArm(a)
  BY <1>4, ArmKeeps, Zenon
<1>5. CASE \E i \in Ids : Configure(i)
  BY <1>5, ConfigureKeeps, Zenon
<1>0. DOMAIN board = Ids
  BY DEF FieldIInv, Shapes
<1>6. CASE Trigger
  <2>1. /\ UNCHANGED <<doc, manifest, period, arm, assigned, altered, told>>
        /\ stage = "ready" /\ stage' = "running"
        /\ board' = [i \in Ids |-> IF doc.nodes[i].type = "ble" /\ board[i].law # 0
                                   THEN Reset(board[i]) ELSE board[i]]
    BY <1>6, Zenon DEF Trigger, events
  <2>2. DOMAIN board' = Ids /\ \A i \in Ids : board'[i] = board[i] \/ board'[i] = Reset(board[i])
    BY <2>1
  <2> QED BY <2>1, <2>2, RestKeeps
<1>7. CASE \E i \in Ids : ApplyEvent(i)
  BY <1>7, EventKeeps, Zenon
<1>8. CASE \E i \in Ids : Report(i) \/ Sample(i)
  <2>1. UNCHANGED <<doc, manifest, period, arm, assigned, altered, board, stage, told>>
    BY <1>8, Zenon DEF Report, Sample, events
  <2> QED BY <1>0, <2>1, RestKeeps
<1>9. CASE Finish
  <2>1. /\ UNCHANGED <<doc, manifest, period, arm, assigned, altered, board>>
        /\ stage = "running" /\ stage' = "ready" /\ told' = [i \in Ids |-> "none"]
    BY <1>9, Zenon DEF Finish
  <2> QED BY <1>0, <2>1, RestKeeps
<1>10. CASE UNCHANGED vars
  <2>1. UNCHANGED <<doc, manifest, period, arm, assigned, altered, board, stage, told>>
    BY <1>10, Zenon DEF vars
  <2> QED BY <1>0, <2>1, RestKeeps
<1> QED BY <1>1, <1>2, <1>3, <1>4, <1>5, <1>6, <1>7, <1>8, <1>9, <1>10, Zenon DEF Next

LEMMA FieldImplies == FieldIInv => BoardHoldsTheManifest
<1> SUFFICES ASSUME FieldIInv, NEW i \in Ids, told[i] = "ok", doc.nodes[i].type = "ble"
             PROVE  HoldsTheManifest(board[i], InForce, i, SwitchOf(i), PeriodOf(i))
  BY DEF BoardHoldsTheManifest
<1>1. stage \in {"ready", "running"}
  BY DEF FieldIInv, Stages
<1>2. /\ AssignedBy(assigned[i], InForce, i)
      /\ assigned[i].enabled = SwitchOf(i) /\ assigned[i].publish = PeriodOf(i)
  BY <1>1, RunningFacts DEF AsOpted
<1>3. /\ Typed(InForce) /\ DOMAIN InForce.nodes = Ids /\ InForce.nodes[i].type = "ble"
      /\ InForce.controller.microgrid # None => InForce.nodes[i].plant # None
  BY <1>1, InForceIs
<1>4. HoldsWhatSent(board[i], assigned[i])
  BY Zenon DEF FieldIInv, Accepted
<1> QED BY <1>2, <1>3, <1>4, AssignmentSays, Zenon

\* Whatever the manifest, the arm, the options and what a board held before,
\* a relay whose configure succeeded has a board that holds what the manifest
\* says, every parameter of the law it runs and every radio setting
\* (hub/runner.py, agent/assignment.py, agent/relay.py, agent.c).
THEOREM ManifestsReachTheBoards == Spec => []BoardHoldsTheManifest
<1>1. Spec => []FieldIInv
  BY FieldInitially, FieldStep, PTL DEF Spec
<1> QED BY <1>1, FieldImplies, PTL
=============================================================================
