----------------------------- MODULE CsvProofs -----------------------------
(***************************************************************************)
(* That the cursor of csv.c reports what the definition without a cursor   *)
(* reports, for a file of every size.  The invariant, Reads, says of every *)
(* variable of the loops what it is as a function of the bytes before the  *)
(* cursor; the lemmas say how these functions grow with one more byte.     *)
(***************************************************************************)
EXTENDS Csv, FiniteSetTheorems, NaturalsInduction, SequenceTheorems, TLAPS

\* The breaks before i, and those that end a header.
Past(f, i)     == {b \in Breaks(f) : b < i}
OfHeader(f, h) == {b \in Breaks(f) : InHeader(f, h, b)}

Spans   == [from : Int, to : Int]
Records == [kind : {"header", "cell", "line"}, span : Spans, no : Nat, line : Int]

Typed ==
  /\ file \in Seq(Bytes) /\ withHeader \in BOOLEAN
  /\ phase \in {"headers", "body", "done", "exit"}
  /\ cur \in 1..Len(file) + 1
  /\ startCell \in Nat /\ startLine \in Nat
  /\ cellNo \in Nat /\ lineNo \in Nat
  /\ insideQuotes \in BOOLEAN
  /\ headers \in Seq(Spans)
  /\ out \in Seq(Records)

\* Where the cursor is, in the terms of the reference.
Reads ==
  /\ cur <= Len(file) =>
       (insideQuotes <=> Cardinality(QuoteRuns(file, cur)) % 2 = 1)
  /\ startCell = After(Past(file, cur))
  /\ startLine = After(LineEnds(file, cur))
  /\ cellNo = NumberOf(file, cur)

\* In which part of the file, and what is kept of the header.
Places ==
  /\ phase = "headers" =>
       InHeader(file, withHeader, cur) /\ lineNo = 0 /\ Len(headers) = cellNo
  /\ phase = "body" =>
       /\ ~InHeader(file, withHeader, cur)
       /\ lineNo = LineOf(file, withHeader, cur)
       /\ withHeader => Len(headers) = Cardinality(OfHeader(file, withHeader))

\* What was reported, and why the program stopped if it did.
Reports ==
  /\ \A u \in Unheaded(file, withHeader) : cur <= u
  /\ out = Told(file, withHeader)[cur - 1]
  /\ phase = "done" => cur = Len(file) + 1
  /\ phase = "exit" => cur \in Unheaded(file, withHeader)

IInv == Typed /\ Reads /\ Places /\ Reports
-----------------------------------------------------------------------------
LEMMA BreaksAre ==
  ASSUME NEW f \in Seq(Bytes)
  PROVE  /\ Breaks(f) \subseteq 1..Len(f) /\ IsFiniteSet(Breaks(f))
         /\ \A S \in SUBSET Breaks(f) : IsFiniteSet(S) /\ Cardinality(S) \in Nat
  <1>1. Len(f) \in Nat /\ DOMAIN f = 1..Len(f)
    OBVIOUS
  <1>2. Breaks(f) \subseteq 1..Len(f)
    BY <1>1 DEF Breaks
  <1>3. IsFiniteSet(1..Len(f))
    BY <1>1, FS_Interval
  <1>4. IsFiniteSet(Breaks(f))
    BY <1>2, <1>3, FS_Subset
  <1>5. ASSUME NEW S \in SUBSET Breaks(f)
        PROVE  IsFiniteSet(S) /\ Cardinality(S) \in Nat
    BY <1>4, <1>5, FS_Subset, FS_CardinalityType
  <1>. QED
    BY <1>2, <1>4, <1>5

\* One more byte is one more run of quotes exactly when the code toggles.
LEMMA RunsGrow ==
  ASSUME NEW f \in Seq(Bytes), NEW i \in 1..Len(f), i + 1 <= Len(f)
  PROVE  /\ Cardinality(QuoteRuns(f, i)) \in Nat
         /\ Cardinality(QuoteRuns(f, i + 1)) =
              Cardinality(QuoteRuns(f, i)) + (IF Toggles(f, i) THEN 1 ELSE 0)
  <1>1. Len(f) \in Nat
    OBVIOUS
  <1>2. QuoteRuns(f, i + 1) =
          IF Toggles(f, i) THEN QuoteRuns(f, i) \cup {i} ELSE QuoteRuns(f, i)
    BY <1>1 DEF QuoteRuns, Toggles
  <1>3. i \notin QuoteRuns(f, i) /\ QuoteRuns(f, i) \subseteq 1..i
    BY DEF QuoteRuns
  <1>4. IsFiniteSet(1..i)
    BY FS_Interval
  <1>5. IsFiniteSet(QuoteRuns(f, i))
    BY <1>3, <1>4, FS_Subset
  <1>6. Cardinality(QuoteRuns(f, i)) \in Nat
    BY <1>5, FS_CardinalityType
  <1>7. Cardinality(QuoteRuns(f, i) \cup {i}) = Cardinality(QuoteRuns(f, i)) + 1
    BY <1>3, <1>5, FS_AddElement
  <1>. QED
    BY <1>2, <1>6, <1>7

LEMMA Least ==
  ASSUME NEW B \in SUBSET Nat, B # {}
  PROVE  \E m \in B : \A n \in B : m <= n
  <1>1. PICK m \in B : \A n \in B : ~ (<<n, m>> \in OpToRel(<, Nat))
    BY WFMin, NatLessThanWellFounded
  <1>2. \A n \in B : ~ (n < m)
    BY <1>1 DEF OpToRel
  <1>. QED
    BY <1>2

LEMMA AfterTheLast ==
  ASSUME NEW S \in SUBSET Nat, NEW i \in Nat, \A n \in S : n <= i
  PROVE  After(S \cup {i}) = i + 1
  <1>1. i \in S \cup {i} /\ \A n \in S \cup {i} : n <= i
    OBVIOUS
  <1>2. \A m \in S \cup {i} : (\A n \in S \cup {i} : n <= m) => m = i
    OBVIOUS
  <1>3. (CHOOSE m \in S \cup {i} : \A n \in S \cup {i} : n <= m) = i
    BY <1>1, <1>2
  <1>. DEFINE c == CHOOSE m \in S \cup {i} : \A n \in S \cup {i} : n <= m
  <1>4. After(S \cup {i}) = 1 + c
    <2>1. S \cup {i} # {}
      OBVIOUS
    <2>. QED
      BY <2>1 DEF After
  <1>5. c = i
    BY <1>3
  <1>. HIDE DEF c
  <1>. QED
    BY <1>4, <1>5

LEMMA AfterIs ==
  ASSUME NEW f \in Seq(Bytes), NEW S \in SUBSET Breaks(f)
  PROVE  /\ After(S) \in Nat
         /\ \A n \in S : n < After(S)
         /\ S # {} => After(S) - 1 \in S
  <1>1. CASE S = {}
    BY <1>1 DEF After
  <1>2. CASE S # {}
    <2>1. S \subseteq 1..Len(f) /\ Len(f) \in Nat
      BY BreaksAre
    <2>2. PICK m \in S : \A n \in S : n <= m
      <3>. DEFINE B == {Len(f) - n : n \in S}
      <3>1. B \in SUBSET Nat /\ B # {}
        BY <1>2, <2>1
      <3>2. PICK b \in B : \A n \in B : b <= n
        <4>. HIDE DEF B
        <4>. QED
          BY <3>1, Least
      <3>3. PICK m \in S : b = Len(f) - m
        BY <3>2
      <3>4. \A n \in S : b <= Len(f) - n
        BY <3>2
      <3>. HIDE DEF B
      <3>. QED
        BY <2>1, <3>3, <3>4
    <2>3. \A n \in S : n <= CHOOSE k \in S : \A j \in S : j <= k
      BY <2>2
    <2>4. (CHOOSE k \in S : \A j \in S : j <= k) \in S
      BY <2>2
    <2>. DEFINE c == CHOOSE k \in S : \A j \in S : j <= k
    <2>5. After(S) = 1 + c
      BY <1>2 DEF After
    <2>6. c \in S /\ \A n \in S : n <= c
      BY <2>3, <2>4
    <2>. HIDE DEF c
    <2>. QED
      BY <2>1, <2>5, <2>6
  <1>. QED
    BY <1>1, <1>2
-----------------------------------------------------------------------------
\* Nothing but a break moves the start of the cell or of the line, or counts.
LEMMA PastByte ==
  ASSUME NEW f \in Seq(Bytes), NEW i \in 1..Len(f), i \notin Breaks(f)
  PROVE  /\ Past(f, i + 1) = Past(f, i)
         /\ LineEnds(f, i + 1) = LineEnds(f, i)
         /\ NumberOf(f, i + 1) = NumberOf(f, i)
  <1>1. Breaks(f) \subseteq 1..Len(f) /\ Len(f) \in Nat
    BY BreaksAre
  <1>2. \A b \in Breaks(f) : b < i + 1 <=> b < i
    BY <1>1
  <1>3. LineEnds(f, i + 1) = LineEnds(f, i) /\ Past(f, i + 1) = Past(f, i)
    BY <1>2 DEF LineEnds, Past
  <1>4. LineBefore(f, i + 1).from = LineBefore(f, i).from
    BY <1>3 DEF LineBefore, Span
  <1>. QED
    BY <1>2, <1>3, <1>4 DEF NumberOf

LEMMA PastBreak ==
  ASSUME NEW f \in Seq(Bytes), NEW i \in Breaks(f)
  PROVE  /\ i \in 1..Len(f)
         /\ After(Past(f, i + 1)) = i + 1
         /\ LineEnds(f, i + 1) = IF f[i] = Newline THEN LineEnds(f, i) \cup {i} ELSE LineEnds(f, i)
         /\ NumberOf(f, i) \in Nat
         /\ f[i] = Newline =>
              /\ After(LineEnds(f, i + 1)) = i + 1
              /\ NumberOf(f, i + 1) = 0
         /\ f[i] # Newline =>
              NumberOf(f, i + 1) = NumberOf(f, i) + 1
  <1>1. Breaks(f) \subseteq 1..Len(f) /\ Len(f) \in Nat
    BY BreaksAre
  <1>2. i \in 1..Len(f) /\ i \in Nat
    BY <1>1
  <1>3. \A b \in Breaks(f) : b < i + 1 <=> b < i \/ b = i
    BY <1>1
  <1>4. Past(f, i + 1) = Past(f, i) \cup {i}
    BY <1>3 DEF Past
  <1>5. LineEnds(f, i + 1) =
          IF f[i] = Newline THEN LineEnds(f, i) \cup {i} ELSE LineEnds(f, i)
    BY <1>3 DEF LineEnds
  <1>6. /\ Past(f, i) \in SUBSET Nat /\ \A n \in Past(f, i) : n <= i
        /\ LineEnds(f, i) \in SUBSET Nat /\ \A n \in LineEnds(f, i) : n <= i
    BY <1>1 DEF Past, LineEnds
  <1>7. After(Past(f, i + 1)) = i + 1
    BY <1>2, <1>4, <1>6, AfterTheLast
  <1>8. f[i] = Newline => After(LineEnds(f, i + 1)) = i + 1
    BY <1>2, <1>5, <1>6, AfterTheLast
  <1>. DEFINE s == After(LineEnds(f, i))
              T(j) == {b \in Breaks(f) : LineBefore(f, j).from <= b /\ b < j}
  <1>9. LineBefore(f, i).from = s /\ LineBefore(f, i + 1).from = After(LineEnds(f, i + 1))
    BY DEF LineBefore, Span
  <1>10. s \in Nat /\ s <= i
    <2>1. LineEnds(f, i) \in SUBSET Breaks(f) /\ \A n \in LineEnds(f, i) : n < i
      BY DEF LineEnds
    <2>2. /\ s \in Nat
          /\ LineEnds(f, i) # {} => s - 1 \in LineEnds(f, i)
      BY <2>1, AfterIs
    <2>3. LineEnds(f, i) = {} => s = 1
      BY DEF After
    <2>. HIDE DEF s
    <2>. QED
      BY <1>1, <1>2, <2>1, <2>2, <2>3
  <1>11. IsFiniteSet(T(i)) /\ Cardinality(T(i)) \in Nat
    BY BreaksAre
  <1>12. NumberOf(f, i) = Cardinality(T(i)) /\ NumberOf(f, i + 1) = Cardinality(T(i + 1))
    BY DEF NumberOf
  <1>13. ASSUME f[i] = Newline PROVE NumberOf(f, i + 1) = 0
    <2>1. T(i + 1) = {}
      BY <1>1, <1>2, <1>8, <1>9, <1>13
    <2>. QED
      BY <1>12, <2>1, FS_EmptySet
  <1>14. ASSUME f[i] # Newline PROVE NumberOf(f, i + 1) = NumberOf(f, i) + 1
    <2>1. T(i + 1) = T(i) \cup {i} /\ i \notin T(i)
      <3>1. LineBefore(f, i + 1).from = s
        BY <1>5, <1>9, <1>14
      <3>. HIDE DEF s
      <3>. QED
        BY <1>1, <1>2, <1>3, <1>9, <1>10, <3>1
    <2>. QED
      BY <1>11, <1>12, <2>1, FS_AddElement
  <1>. QED
    BY <1>2, <1>5, <1>7, <1>8, <1>11, <1>12, <1>13, <1>14

LEMMA LinesCounted ==
  ASSUME NEW f \in Seq(Bytes), NEW h \in BOOLEAN, NEW i \in Breaks(f)
  PROVE  /\ f[i] = Newline => /\ LineOf(f, h, i + 1) = LineOf(f, h, i) + 1
                              /\ ~InHeader(f, h, i + 1)
                              /\ InHeader(f, h, i) => LineOf(f, h, i + 1) = 0
         /\ f[i] # Newline => /\ LineOf(f, h, i + 1) = LineOf(f, h, i)
                              /\ InHeader(f, h, i + 1) <=> InHeader(f, h, i)
  <1>1. LineEnds(f, i) \in SUBSET Breaks(f) /\ i \notin LineEnds(f, i)
    BY BreaksAre DEF LineEnds
  <1>2. IsFiniteSet(LineEnds(f, i)) /\ Cardinality(LineEnds(f, i)) \in Nat
    BY <1>1, BreaksAre
  <1>3. /\ f[i] = Newline => LineEnds(f, i + 1) = LineEnds(f, i) \cup {i}
        /\ f[i] # Newline => LineEnds(f, i + 1) = LineEnds(f, i)
    BY PastBreak
  <1>4. Cardinality(LineEnds(f, i) \cup {i}) = Cardinality(LineEnds(f, i)) + 1
    BY <1>1, <1>2, FS_AddElement
  <1>5. LineEnds(f, i) = {} => Cardinality(LineEnds(f, i)) = 0
    BY FS_EmptySet
  <1>6. ASSUME f[i] = Newline
        PROVE  /\ LineOf(f, h, i + 1) = LineOf(f, h, i) + 1
               /\ ~InHeader(f, h, i + 1)
               /\ InHeader(f, h, i) => LineOf(f, h, i + 1) = 0
    <2>1. LineEnds(f, i + 1) # {}
      BY <1>3, <1>6
    <2>2. Cardinality(LineEnds(f, i + 1)) = Cardinality(LineEnds(f, i)) + 1
      BY <1>3, <1>4, <1>6
    <2>. QED
      BY <1>2, <1>5, <2>1, <2>2 DEF LineOf, InHeader
  <1>7. ASSUME f[i] # Newline
        PROVE  /\ LineOf(f, h, i + 1) = LineOf(f, h, i)
               /\ InHeader(f, h, i + 1) <=> InHeader(f, h, i)
    BY <1>3, <1>7 DEF LineOf, InHeader
  <1>. QED
    BY <1>6, <1>7

\* The header's breaks are counted when its line ends.
LEMMA HeaderCounted ==
  ASSUME NEW f \in Seq(Bytes), NEW h \in BOOLEAN, NEW i \in Breaks(f),
         f[i] = Newline, InHeader(f, h, i)
  PROVE  Cardinality(OfHeader(f, h)) = NumberOf(f, i) + 1
  <1>. DEFINE T == {b \in Breaks(f) : LineBefore(f, i).from <= b /\ b < i}
  <1>1. Breaks(f) \subseteq 1..Len(f) /\ Len(f) \in Nat
    BY BreaksAre
  <1>2. LineEnds(f, i) = {} /\ h
    BY DEF InHeader
  <1>3. LineBefore(f, i).from = 1
    BY <1>2 DEF LineBefore, Span, After
  <1>4. ASSUME NEW b \in Breaks(f)
        PROVE  InHeader(f, h, b) <=> b <= i
    <2>1. b <= i => LineEnds(f, b) \subseteq LineEnds(f, i)
      BY <1>1 DEF LineEnds
    <2>2. ~(b <= i) => i \in LineEnds(f, b)
      BY <1>1 DEF LineEnds
    <2>. QED
      BY <1>2, <2>1, <2>2 DEF InHeader
  <1>5. OfHeader(f, h) = T \cup {i} /\ i \notin T
    BY <1>1, <1>3, <1>4 DEF OfHeader
  <1>6. IsFiniteSet(T) /\ Cardinality(T) \in Nat
    BY BreaksAre
  <1>7. Cardinality(T \cup {i}) = Cardinality(T) + 1
    BY <1>5, <1>6, FS_AddElement
  <1>. QED
    BY <1>5, <1>7 DEF NumberOf

\* Told is the recursive function its definition says.
LEMMA ToldGrows ==
  ASSUME NEW f \in Seq(Bytes), NEW h \in BOOLEAN
  PROVE  /\ Told(f, h)[0] = <<>>
         /\ \A n \in 1..Len(f) :
              Told(f, h)[n] =
                Told(f, h)[n - 1] \o (IF n \in Breaks(f) THEN ReportsAt(f, h, n) ELSE <<>>)
  <1>. DEFINE N == Len(f)
              More(s, n) == s \o (IF n \in Breaks(f) THEN ReportsAt(f, h, n) ELSE <<>>)
              Tells(t, m) == /\ t = [n \in 0..m |-> t[n]] /\ t[0] = <<>>
                             /\ \A n \in 1..m : t[n] = More(t[n - 1], n)
              Bad == {m \in 0..N : ~ \E t : Tells(t, m)}
  <1>0. N \in Nat
    OBVIOUS
  <1>1. Bad = {}
    <2>. HIDE DEF N, More
    <2>. SUFFICES ASSUME Bad # {} PROVE FALSE
      OBVIOUS
    <2>1. PICK m \in Bad : \A n \in Bad : m =< n
      <3>1. Bad \in SUBSET Nat
        OBVIOUS
      <3>. HIDE DEF Bad
      <3>. QED
        BY <3>1, Least
    <2>2. m \in 0..N /\ m \in Nat /\ ~ \E t : Tells(t, m)
      BY <1>0
    <2>3. CASE m = 0
      <3>1. PICK t : t = [n \in 0..0 |-> <<>>]
        OBVIOUS
      <3>2. Tells(t, m)
        BY <2>3, <3>1
      <3>. QED
        BY <2>2, <3>2
    <2>4. CASE m # 0
      <3>1. m - 1 \in 0..N /\ ~ (m =< m - 1)
        BY <1>0, <2>2, <2>4
      <3>2. PICK g : Tells(g, m - 1)
        BY <2>1, <3>1
      <3>3. PICK t : t = [n \in 0..m |-> IF n = m THEN More(g[m - 1], m) ELSE g[n]]
        OBVIOUS
      <3>4. /\ t = [n \in 0..m |-> t[n]] /\ t[0] = <<>>
            /\ t[m] = More(t[m - 1], m)
        BY <2>2, <2>4, <3>2, <3>3
      <3>5. ASSUME NEW n \in 1..m PROVE t[n] = More(t[n - 1], n)
        <4>1. CASE n = m
          BY <3>4, <4>1
        <4>2. CASE n # m
          <5>1. n \in 1..m - 1 /\ n - 1 \in 0..m /\ n - 1 # m
            BY <2>2, <4>2
          <5>2. t[n] = g[n] /\ t[n - 1] = g[n - 1]
            BY <2>2, <3>3, <4>2, <5>1
          <5>. QED
            BY <3>2, <5>1, <5>2
        <4>. QED
          BY <4>1, <4>2
      <3>6. Tells(t, m)
        BY <3>4, <3>5
      <3>. QED
        BY <2>2, <3>6
    <2>. QED
      BY <2>3, <2>4
  <1>. HIDE DEF More
  <1>2. PICK t : Tells(t, N)
    BY <1>0, <1>1
  <1>. HIDE DEF N
  <1>3. t = [n \in 0..N |-> IF n = 0 THEN <<>> ELSE More(t[n - 1], n)]
    <2>1. ASSUME NEW n \in 0..N
          PROVE  t[n] = IF n = 0 THEN <<>> ELSE More(t[n - 1], n)
      <3>1. CASE n = 0
        BY <1>2, <3>1
      <3>2. CASE n # 0
        <4>1. n \in 1..N
          BY <1>0, <3>2
        <4>. QED
          BY <1>2, <3>2, <4>1
      <3>. QED
        BY <3>1, <3>2
    <2>. QED
      BY <1>2, <2>1
  <1>. DEFINE told == Told(f, h)
  <1>4. told = [n \in 0..N |-> IF n = 0 THEN <<>> ELSE More(told[n - 1], n)]
    BY <1>3 DEF Told, N, More
  <1>. HIDE DEF told
  <1>5. told[0] = <<>>
    BY <1>0, <1>4
  <1>6. ASSUME NEW n \in 1..N PROVE told[n] = More(told[n - 1], n)
    <2>1. n \in 0..N /\ n # 0
      BY <1>0
    <2>. QED
      BY <1>4, <2>1
  <1>. QED
    BY <1>5, <1>6 DEF told, N, More
-----------------------------------------------------------------------------
LEMMA InitReads ==
  ASSUME CsvInit PROVE IInv
  <1>1. PICK n \in 1..MaxBytes : file \in [1..n -> Bytes]
    BY DEF CsvInit, Files
  <1>2. n \in Nat /\ n >= 1
    BY <1>1
  <1>3. file \in Seq(Bytes) /\ Len(file) = n
    BY <1>1, <1>2
  <1>4. /\ cur = 1 /\ startCell = 1 /\ startLine = 1 /\ cellNo = 0 /\ lineNo = 0
        /\ insideQuotes = FALSE /\ out = <<>> /\ headers = <<>>
        /\ withHeader \in BOOLEAN
        /\ phase = IF withHeader THEN "headers" ELSE "body"
    BY DEF CsvInit
  <1>5. Typed
    <2>1. phase \in {"headers", "body", "done", "exit"}
      BY <1>4
    <2>2. cur \in 1..Len(file) + 1 /\ startCell \in Nat /\ startLine \in Nat
          /\ cellNo \in Nat /\ lineNo \in Nat
      BY <1>2, <1>3, <1>4
    <2>3. headers \in Seq(Spans) /\ out \in Seq(Records)
      BY <1>4
    <2>4. insideQuotes \in BOOLEAN
      BY <1>4, Zenon
    <2>. QED
      BY <1>3, <1>4, <2>1, <2>2, <2>3, <2>4 DEF Typed
  <1>6. Breaks(file) \subseteq 1..Len(file) /\ Len(file) \in Nat
    BY <1>3, BreaksAre
  <1>7. Past(file, 1) = {} /\ LineEnds(file, 1) = {} /\ QuoteRuns(file, 1) = {}
    BY <1>6 DEF Past, LineEnds, QuoteRuns
  <1>8. After({}) = 1
    BY DEF After
  <1>9. Cardinality({}) = 0
    BY FS_EmptySet
  <1>10. NumberOf(file, 1) = 0
    <2>1. {b \in Breaks(file) : LineBefore(file, 1).from <= b /\ b < 1} = {}
      BY <1>6
    <2>. QED
      BY <1>9, <2>1 DEF NumberOf
  <1>11. Reads
    <2>1. ~(0 % 2 = 1)
      OBVIOUS
    <2>. QED
      BY <1>4, <1>7, <1>8, <1>9, <1>10, <2>1 DEF Reads
  <1>12. InHeader(file, withHeader, 1) <=> withHeader
    BY <1>7 DEF InHeader
  <1>13. ~withHeader => LineOf(file, withHeader, 1) = 0
    BY <1>7, <1>9 DEF LineOf
  <1>14. Places
    BY <1>4, <1>10, <1>12, <1>13 DEF Places
  <1>15. Unheaded(file, withHeader) \subseteq Breaks(file)
    BY DEF Unheaded
  <1>16. \A u \in Unheaded(file, withHeader) : 1 <= u
    BY <1>6, <1>15
  <1>17. out = Told(file, withHeader)[cur - 1]
    <2>1. Told(file, withHeader)[0] = <<>>
      BY <1>3, <1>4, ToldGrows
    <2>. QED
      BY <1>4, <2>1
  <1>18. Reports
    BY <1>4, <1>16, <1>17 DEF Reports
  <1>. QED
    BY <1>5, <1>11, <1>14, <1>18 DEF IInv

\* The code sees a break where there is one, and its ASSERTs look for a header.
LEMMA SeesBreaks ==
  ASSUME IInv, cur <= Len(file)
  PROVE  /\ cur \in 1..Len(file)
         /\ EndsCell <=> cur \in Breaks(file)
         /\ cur \in Unheaded(file, withHeader) <=>
              /\ cur \in Breaks(file)
              /\ withHeader /\ ~InHeader(file, withHeader, cur)
              /\ cellNo >= Cardinality(OfHeader(file, withHeader))
  <1>1. cur \in 1..Len(file) /\ file \in Seq(Bytes)
    BY DEF IInv, Typed
  <1>2. insideQuotes <=> Cardinality(QuoteRuns(file, cur)) % 2 = 1
    BY DEF IInv, Reads
  <1>3. QuoteRuns(file, cur) \subseteq 1..cur
    BY <1>1 DEF QuoteRuns
  <1>4. IsFiniteSet(1..cur)
    BY <1>1, FS_Interval
  <1>5. IsFiniteSet(QuoteRuns(file, cur))
    BY <1>3, <1>4, FS_Subset
  <1>6. Cardinality(QuoteRuns(file, cur)) \in Nat
    BY <1>5, FS_CardinalityType
  <1>7. ~insideQuotes <=> Cardinality(QuoteRuns(file, cur)) % 2 = 0
    BY <1>2, <1>6
  <1>8. EndsCell <=> cur \in Breaks(file)
    BY <1>1, <1>7 DEF EndsCell, Breaks
  <1>9. cellNo = NumberOf(file, cur)
    BY DEF IInv, Reads
  <1>10. cur \in Unheaded(file, withHeader) <=>
              /\ cur \in Breaks(file)
              /\ withHeader /\ ~InHeader(file, withHeader, cur)
              /\ cellNo >= Cardinality(OfHeader(file, withHeader))
    BY <1>9 DEF Unheaded, OfHeader
  <1>. QED
    BY <1>1, <1>8, <1>10

\* A byte that ends no cell is not a break, so only the parity may change.
LEMMA PassByteReads ==
  ASSUME IInv, PassByte PROVE IInv'
  <1>1. /\ phase \in {"headers", "body"} /\ cur <= Len(file) /\ ~EndsCell
        /\ insideQuotes' = IF Toggles(file, cur) THEN ~insideQuotes ELSE insideQuotes
        /\ cur' = cur + 1
        /\ UNCHANGED <<file, withHeader, phase, startCell, startLine, cellNo, lineNo,
                       headers, out>>
    BY DEF PassByte
  <1>2. cur \in 1..Len(file) /\ cur \notin Breaks(file) /\ file \in Seq(Bytes)
    BY <1>1, SeesBreaks DEF IInv, Typed
  <1>3. Typed'
    <2>1. /\ file' = file /\ withHeader' = withHeader /\ phase' = phase
          /\ startCell' = startCell /\ startLine' = startLine /\ cellNo' = cellNo
          /\ lineNo' = lineNo /\ headers' = headers /\ out' = out
      BY <1>1
    <2>2. cur' \in 1..Len(file) + 1
      BY <1>1, <1>2
    <2>3. insideQuotes \in BOOLEAN
      BY DEF IInv, Typed
    <2>4. insideQuotes' \in BOOLEAN
      BY <1>1, <2>3, Zenon
    <2>. QED
      BY <2>1, <2>2, <2>4 DEF IInv, Typed
  <1>4. /\ Past(file, cur + 1) = Past(file, cur)
        /\ LineEnds(file, cur + 1) = LineEnds(file, cur)
        /\ NumberOf(file, cur + 1) = NumberOf(file, cur)
    BY <1>2, PastByte
  <1>5. Reads'
    <2>1. /\ startCell = After(Past(file, cur)) /\ startLine = After(LineEnds(file, cur))
          /\ cellNo = NumberOf(file, cur) /\ insideQuotes \in BOOLEAN
          /\ insideQuotes <=> Cardinality(QuoteRuns(file, cur)) % 2 = 1
      BY <1>1 DEF IInv, Typed, Reads
    <2>2. ASSUME cur + 1 <= Len(file)
          PROVE  insideQuotes' <=> Cardinality(QuoteRuns(file, cur + 1)) % 2 = 1
      <3>. DEFINE c == Cardinality(QuoteRuns(file, cur))
                  d == Cardinality(QuoteRuns(file, cur + 1))
      <3>1. /\ c \in Nat
            /\ d = c + (IF Toggles(file, cur) THEN 1 ELSE 0)
        BY <1>2, <2>2, RunsGrow
      <3>2. insideQuotes <=> c % 2 = 1
        BY <2>1
      <3>3. CASE Toggles(file, cur)
        <4>1. d = c + 1 /\ (insideQuotes' <=> ~insideQuotes)
          BY <1>1, <3>1, <3>3
        <4>. HIDE DEF c, d
        <4>2. d % 2 = 1 <=> ~(c % 2 = 1)
          BY <3>1, <4>1
        <4>. QED
          BY <3>2, <4>1, <4>2 DEF d
      <3>4. CASE ~Toggles(file, cur)
        BY <1>1, <3>1, <3>2, <3>4
      <3>. QED
        BY <3>3, <3>4
    <2>. QED
      BY <1>1, <1>4, <2>1, <2>2 DEF Reads
  <1>6. Places'
    <2>1. InHeader(file, withHeader, cur + 1) <=> InHeader(file, withHeader, cur)
      BY <1>4 DEF InHeader
    <2>2. LineOf(file, withHeader, cur + 1) = LineOf(file, withHeader, cur)
      BY <1>4 DEF LineOf
    <2>3. Places
      BY DEF IInv
    <2>. QED
      BY <1>1, <2>1, <2>2, <2>3 DEF Places
  <1>7. Reports'
    <2>1. Reports
      BY DEF IInv
    <2>2. cur \notin Unheaded(file, withHeader)
      BY <1>2 DEF Unheaded
    <2>3. Unheaded(file, withHeader) \subseteq Breaks(file) /\ Breaks(file) \subseteq 1..Len(file)
      BY <1>2, BreaksAre DEF Unheaded
    <2>4. \A u \in Unheaded(file, withHeader) : cur + 1 <= u
      BY <1>2, <2>1, <2>2, <2>3 DEF Reports
    <2>5. Told(file, withHeader)[cur] = Told(file, withHeader)[cur - 1] \o <<>>
      BY <1>2, ToldGrows DEF IInv, Typed
    <2>6. Told(file, withHeader)[cur - 1] = out
      BY <2>1 DEF Reports
    <2>7. out \o <<>> = out
      BY DEF IInv, Typed
    <2>8. (cur + 1) - 1 = cur
      BY <1>2
    <2>. QED
      BY <1>1, <2>4, <2>5, <2>6, <2>7, <2>8 DEF Reports
  <1>. QED
    BY <1>3, <1>5, <1>6, <1>7 DEF IInv

\* What the actions that meet a break do alike.
MeetsBreak ==
  /\ cur <= Len(file) /\ EndsCell
  /\ cur' = cur + 1 /\ startCell' = cur + 1
  /\ startLine' = IF file[cur] = Newline THEN cur + 1 ELSE startLine
  /\ cellNo' = IF file[cur] = Newline THEN 0 ELSE cellNo + 1
  /\ insideQuotes' = insideQuotes
  /\ file' = file /\ withHeader' = withHeader

LEMMA MeetsBreakReads ==
  ASSUME IInv, MeetsBreak PROVE Reads'
  <1>1. cur \in 1..Len(file) /\ cur \in Breaks(file) /\ file \in Seq(Bytes)
    BY SeesBreaks DEF IInv, Typed, MeetsBreak
  <1>2. /\ startLine = After(LineEnds(file, cur)) /\ cellNo = NumberOf(file, cur)
        /\ insideQuotes <=> Cardinality(QuoteRuns(file, cur)) % 2 = 1
    BY DEF IInv, Reads, MeetsBreak
  <1>3. ASSUME cur + 1 <= Len(file)
        PROVE  insideQuotes <=> Cardinality(QuoteRuns(file, cur + 1)) % 2 = 1
    <2>1. ~Toggles(file, cur)
      BY <1>1 DEF Breaks, Toggles, Quote, Newline, Sep
    <2>2. Cardinality(QuoteRuns(file, cur + 1)) = Cardinality(QuoteRuns(file, cur))
      BY <1>1, <1>3, <2>1, RunsGrow
    <2>. QED
      BY <1>2, <2>2
  <1>4. After(Past(file, cur + 1)) = cur + 1
    BY <1>1, PastBreak
  <1>5. startLine' = After(LineEnds(file, cur + 1))
    BY <1>1, <1>2, PastBreak DEF MeetsBreak
  <1>6. cellNo' = NumberOf(file, cur + 1)
    BY <1>1, <1>2, PastBreak DEF MeetsBreak
  <1>. QED
    BY <1>3, <1>4, <1>5, <1>6 DEF Reads, MeetsBreak

LEMMA MeetsBreakReports ==
  ASSUME IInv, MeetsBreak, cur \notin Unheaded(file, withHeader),
         out' = out \o ReportsAt(file, withHeader, cur),
         phase' \in {"headers", "body"}
  PROVE  Reports'
  <1>1. cur \in 1..Len(file) /\ cur \in Breaks(file) /\ file \in Seq(Bytes)
    BY SeesBreaks DEF IInv, Typed, MeetsBreak
  <1>2. Reports
    BY DEF IInv
  <1>3. Unheaded(file, withHeader) \subseteq Breaks(file) /\ Breaks(file) \subseteq 1..Len(file)
    BY <1>1, BreaksAre DEF Unheaded
  <1>4. \A u \in Unheaded(file, withHeader) : cur + 1 <= u
    BY <1>1, <1>2, <1>3 DEF Reports
  <1>5. Told(file, withHeader)[cur] =
          Told(file, withHeader)[cur - 1] \o ReportsAt(file, withHeader, cur)
    BY <1>1, ToldGrows DEF IInv, Typed
  <1>6. Told(file, withHeader)[cur] = out'
    BY <1>2, <1>5 DEF Reports
  <1>7. (cur + 1) - 1 = cur
    BY <1>1
  <1>. QED
    BY <1>4, <1>6, <1>7 DEF Reports, MeetsBreak

LEMMA TwoRecords ==
  ASSUME NEW a \in Records, NEW b \in Records
  PROVE  <<a>> \o <<b>> = <<a, b>>
  <1>1. <<a>> \in Seq(Records) /\ <<b>> \in Seq(Records) /\ <<a, b>> \in Seq(Records)
    OBVIOUS
  <1>2. /\ Len(<<a>>) = 1 /\ Len(<<b>>) = 1 /\ Len(<<a, b>>) = 2
        /\ <<a>>[1] = a /\ <<b>>[1] = b /\ <<a, b>>[1] = a /\ <<a, b>>[2] = b
    OBVIOUS
  <1>. DEFINE s == <<a>> \o <<b>>
  <1>3. /\ s \in Seq(Records) /\ Len(s) = 2
        /\ \A i \in 1..2 : s[i] = IF i <= 1 THEN <<a>>[i] ELSE <<b>>[i - 1]
    BY <1>1, <1>2, ConcatProperties
  <1>. HIDE DEF s
  <1>4. s[1] = a /\ s[2] = b
    BY <1>2, <1>3
  <1>5. s = <<a, b>>
    BY <1>1, <1>2, <1>3, <1>4
  <1>. QED
    BY <1>5 DEF s

LEMMA MeetsBreakTyped ==
  ASSUME IInv, MeetsBreak,
         phase' \in {"headers", "body"}, lineNo' \in Nat,
         headers' \in Seq(Spans), out' \in Seq(Records)
  PROVE  Typed'
  <1>1. cur \in 1..Len(file) /\ Len(file) \in Nat /\ file \in Seq(Bytes) /\ withHeader \in BOOLEAN
    BY SeesBreaks DEF IInv, Typed, MeetsBreak
  <1>2. startLine \in Nat /\ cellNo \in Nat /\ insideQuotes \in BOOLEAN
    BY DEF IInv, Typed
  <1>3. /\ cur' \in 1..Len(file) + 1 /\ startCell' \in Nat
        /\ startLine' \in Nat /\ cellNo' \in Nat
    BY <1>1, <1>2 DEF MeetsBreak
  <1>4. insideQuotes' \in BOOLEAN /\ file' = file /\ withHeader' = withHeader
    BY <1>2 DEF MeetsBreak
  <1>. QED
    BY <1>1, <1>3, <1>4 DEF Typed

\* Cell and Line are the reference's.
LEMMA SpansAre ==
  ASSUME IInv, cur <= Len(file)
  PROVE  /\ Cell = CellBefore(file, cur) /\ Line = LineBefore(file, cur)
         /\ Cell \in Spans /\ Line \in Spans
  <1>1. startCell = After({b \in Breaks(file) : b < cur}) /\ startLine = After(LineEnds(file, cur))
    BY DEF IInv, Reads, Past
  <1>2. startCell \in Nat /\ startLine \in Nat /\ cur \in 1..Len(file)
    BY SeesBreaks DEF IInv, Typed
  <1>3. Cell \in Spans /\ Line \in Spans
    BY <1>2 DEF Cell, Line, Span, Spans
  <1>. QED
    BY <1>1, <1>3 DEF Cell, Line, CellBefore, LineBefore
-----------------------------------------------------------------------------
LEMMA EndHeaderReads ==
  ASSUME IInv, EndHeader PROVE IInv'
  <1>1. /\ phase = "headers" /\ cur <= Len(file) /\ EndsCell
        /\ out' = Append(out, HeaderReport(Cell, cellNo))
        /\ headers' = Append(headers, Cell)
        /\ lineNo' = lineNo
    BY DEF EndHeader, StoreHeader
  <1>2. insideQuotes = FALSE /\ (EndsLine <=> file[cur] = Newline)
    <2>1. insideQuotes \in BOOLEAN /\ ~insideQuotes
      BY <1>1 DEF IInv, Typed, EndsCell
    <2>. QED
      BY <2>1 DEF EndsLine
  <1>3. MeetsBreak /\ phase' = IF file[cur] = Newline THEN "body" ELSE "headers"
    BY <1>1, <1>2 DEF EndHeader, MeetsBreak
  <1>4. cur \in 1..Len(file) /\ cur \in Breaks(file) /\ file \in Seq(Bytes) /\ withHeader \in BOOLEAN
    BY <1>1, SeesBreaks DEF IInv, Typed
  <1>5. /\ InHeader(file, withHeader, cur) /\ lineNo = 0 /\ Len(headers) = cellNo
    BY <1>1 DEF IInv, Places
  <1>6. cellNo \in Nat /\ lineNo \in Nat /\ headers \in Seq(Spans) /\ out \in Seq(Records)
        /\ cellNo = NumberOf(file, cur)
    BY DEF IInv, Typed, Reads
  <1>7. Cell \in Spans /\ Cell = CellBefore(file, cur)
    BY <1>1, SpansAre
  <1>8. headers' \in Seq(Spans) /\ Len(headers') = Len(headers) + 1
    BY <1>1, <1>6, <1>7
  <1>9. HeaderReport(Cell, cellNo) \in Records
    BY <1>6, <1>7 DEF HeaderReport, Records
  <1>10. out' \in Seq(Records) /\ out' = out \o <<HeaderReport(Cell, cellNo)>>
    BY <1>1, <1>6, <1>9
  <1>11. Typed'
    BY <1>1, <1>3, <1>6, <1>8, <1>10, MeetsBreakTyped
  <1>12. Reads'
    BY <1>3, MeetsBreakReads
  <1>13. out' = out \o ReportsAt(file, withHeader, cur)
    BY <1>5, <1>6, <1>7, <1>10 DEF ReportsAt
  <1>14. Reports'
    BY <1>1, <1>3, <1>5, <1>13, SeesBreaks, MeetsBreakReports
  <1>15. Places'
    <2>1. cur' = cur + 1 /\ file' = file /\ withHeader' = withHeader
          /\ cellNo' = IF file[cur] = Newline THEN 0 ELSE cellNo + 1
      BY <1>3 DEF MeetsBreak
    <2>2. CASE file[cur] = Newline
      <3>1. ~InHeader(file, withHeader, cur + 1) /\ LineOf(file, withHeader, cur + 1) = 0
        BY <1>4, <1>5, <2>2, LinesCounted
      <3>2. Cardinality(OfHeader(file, withHeader)) = NumberOf(file, cur) + 1
        BY <1>4, <1>5, <2>2, HeaderCounted
      <3>. QED
        BY <1>1, <1>3, <1>5, <1>6, <1>8, <2>1, <2>2, <3>1, <3>2 DEF Places
    <2>3. CASE file[cur] # Newline
      <3>1. InHeader(file, withHeader, cur + 1)
        BY <1>4, <1>5, <2>3, LinesCounted
      <3>. QED
        BY <1>1, <1>3, <1>5, <1>8, <2>1, <2>3, <3>1 DEF Places
    <2>. QED
      BY <2>2, <2>3
  <1>. QED
    BY <1>11, <1>12, <1>14, <1>15 DEF IInv

\* The two actions of the body.
LEMMA EndCellReads ==
  ASSUME IInv, EndCell \/ EndLine PROVE IInv'
  <1>1. /\ phase = "body" /\ phase' = "body" /\ cur <= Len(file) /\ EndsCell /\ CellAssert
        /\ headers' = headers
    BY DEF EndCell, EndLine, EndsCell, EndsLine
  <1>2. EndsLine <=> file[cur] = Newline
    BY <1>1 DEF EndsCell, EndsLine
  <1>3. MeetsBreak
    BY <1>1, <1>2 DEF EndCell, EndLine, MeetsBreak
  <1>4. /\ cur \in 1..Len(file) /\ cur \in Breaks(file)
        /\ file \in Seq(Bytes) /\ withHeader \in BOOLEAN
    BY <1>1, SeesBreaks DEF IInv, Typed
  <1>5. /\ ~InHeader(file, withHeader, cur) /\ lineNo = LineOf(file, withHeader, cur)
        /\ withHeader => Len(headers) = Cardinality(OfHeader(file, withHeader))
    BY <1>1 DEF IInv, Places
  <1>6. /\ cellNo \in Nat /\ lineNo \in Nat /\ headers \in Seq(Spans) /\ out \in Seq(Records)
        /\ cellNo = NumberOf(file, cur)
    BY DEF IInv, Typed, Reads
  <1>7. /\ Cell \in Spans /\ Cell = CellBefore(file, cur)
        /\ Line \in Spans /\ Line = LineBefore(file, cur)
    BY <1>1, SpansAre
  <1>. DEFINE c == CellReport(Cell, cellNo, lineNo)
              l == LineReport(Line, lineNo)
  <1>8. c \in Records /\ l \in Records
    BY <1>6, <1>7 DEF CellReport, LineReport, Records
  <1>9. ReportsAt(file, withHeader, cur) =
          <<c>> \o (IF file[cur] = Newline THEN <<l>> ELSE <<>>)
    BY <1>5, <1>6, <1>7 DEF ReportsAt
  <1>10. CASE file[cur] # Newline
    <2>1. EndCell
      BY <1>2, <1>10 DEF EndLine
    <2>2. out' = Append(out, c) /\ lineNo' = lineNo
      BY <2>1 DEF EndCell
    <2>. HIDE DEF c, l
    <2>3. out' \in Seq(Records) /\ out' = out \o (<<c>> \o <<>>)
      BY <1>6, <1>8, <2>2
    <2>4. /\ LineOf(file, withHeader, cur + 1) = lineNo'
          /\ ~InHeader(file, withHeader, cur + 1)
      BY <1>4, <1>5, <1>10, <2>2, LinesCounted
    <2>. QED
      <3>1. lineNo' \in Nat /\ out' = out \o ReportsAt(file, withHeader, cur)
        BY <1>6, <1>9, <1>10, <2>2, <2>3
      <3>2. Typed'
        BY <1>1, <1>3, <1>6, <2>3, <3>1, MeetsBreakTyped
      <3>3. Reads'
        BY <1>3, MeetsBreakReads
      <3>4. cur \notin Unheaded(file, withHeader)
        BY <1>1, <1>5, <1>6, SeesBreaks DEF CellAssert
      <3>5. Reports'
        BY <1>1, <1>3, <3>1, <3>4, MeetsBreakReports
      <3>6. Places'
        BY <1>1, <1>3, <1>5, <2>4 DEF Places, MeetsBreak
      <3>. QED
        BY <3>2, <3>3, <3>5, <3>6 DEF IInv
  <1>11. CASE file[cur] = Newline
    <2>1. EndLine
      BY <1>2, <1>11 DEF EndCell
    <2>2. out' = out \o <<c, l>> /\ lineNo' = lineNo + 1
      BY <2>1 DEF EndLine
    <2>. HIDE DEF c, l
    <2>3. out' \in Seq(Records) /\ out' = out \o (<<c>> \o <<l>>)
      <3>1. <<c>> \o <<l>> = <<c, l>>
        BY <1>8, TwoRecords
      <3>2. <<c, l>> \in Seq(Records)
        BY <1>8
      <3>3. out \o <<c, l>> \in Seq(Records)
        BY <1>6, <3>2
      <3>. QED
        BY <2>2, <3>1, <3>3
    <2>4. /\ LineOf(file, withHeader, cur + 1) = lineNo'
          /\ ~InHeader(file, withHeader, cur + 1)
      BY <1>4, <1>5, <1>11, <2>2, LinesCounted
    <2>. QED
      <3>1. lineNo' \in Nat /\ out' = out \o ReportsAt(file, withHeader, cur)
        BY <1>6, <1>9, <1>11, <2>2, <2>3
      <3>2. Typed'
        BY <1>1, <1>3, <1>6, <2>3, <3>1, MeetsBreakTyped
      <3>3. Reads'
        BY <1>3, MeetsBreakReads
      <3>4. cur \notin Unheaded(file, withHeader)
        BY <1>1, <1>5, <1>6, SeesBreaks DEF CellAssert
      <3>5. Reports'
        BY <1>1, <1>3, <3>1, <3>4, MeetsBreakReports
      <3>6. Places'
        BY <1>1, <1>3, <1>5, <2>4 DEF Places, MeetsBreak
      <3>. QED
        BY <3>2, <3>3, <3>5, <3>6 DEF IInv
  <1>. QED
    BY <1>10, <1>11

\* The assertion of on_header holds, so it is that of on_cell that fails, at a
\* cell without a header.
LEMMA StopsReads ==
  ASSUME IInv, AssertFails \/ EndOfFile PROVE IInv'
  <1>1. UNCHANGED <<file, withHeader, cur, startCell, startLine, cellNo, lineNo,
                    insideQuotes, headers, out>>
    BY DEF AssertFails, EndOfFile
  <1>2. phase' \in {"done", "exit"}
    BY DEF AssertFails, EndOfFile
  <1>3. Typed' /\ Reads'
    BY <1>1, <1>2 DEF IInv, Typed, Reads
  <1>4. Places'
    BY <1>2 DEF Places
  <1>5. phase' = "done" => cur = Len(file) + 1
    BY DEF AssertFails, EndOfFile, IInv, Typed
  <1>6. phase' = "exit" => cur \in Unheaded(file, withHeader)
    <2>. SUFFICES ASSUME phase' = "exit" PROVE cur \in Unheaded(file, withHeader)
      OBVIOUS
    <2>1. AssertFails
      BY DEF EndOfFile
    <2>2. phase # "headers"
      BY <2>1 DEF AssertFails, HeaderAssert, IInv, Places
    <2>3. phase = "body" /\ cur <= Len(file) /\ EndsCell /\ ~CellAssert
      BY <2>1, <2>2 DEF AssertFails
    <2>4. withHeader /\ ~(cellNo < Len(headers)) /\ withHeader \in BOOLEAN
      BY <2>3 DEF CellAssert, IInv, Typed
    <2>5. cellNo \in Nat /\ Len(headers) \in Nat
      BY DEF IInv, Typed
    <2>6. /\ ~InHeader(file, withHeader, cur)
          /\ Len(headers) = Cardinality(OfHeader(file, withHeader))
      BY <2>3, <2>4 DEF IInv, Places
    <2>7. cellNo >= Cardinality(OfHeader(file, withHeader))
      <3>1. ~(cellNo < Len(headers))
        BY <2>4
      <3>. DEFINE k == Len(headers)
      <3>2. ~(cellNo < k) /\ k \in Nat /\ cellNo \in Nat
        BY <2>5, <3>1
      <3>3. Cardinality(OfHeader(file, withHeader)) = k
        BY <2>6
      <3>. HIDE DEF k
      <3>. QED
        BY <3>2, <3>3
    <2>8. cur \in Breaks(file)
      BY <2>3, SeesBreaks
    <2>. QED
      BY <2>3, <2>4, <2>6, <2>7, <2>8, SeesBreaks
  <1>7. Reports'
    BY <1>1, <1>5, <1>6 DEF IInv, Reports
  <1>. QED
    BY <1>3, <1>4, <1>7 DEF IInv

LEMMA StepReads ==
  ASSUME IInv, [CsvNext]_csvVars PROVE IInv'
  <1>1. CASE PassByte
    BY <1>1, PassByteReads
  <1>2. CASE EndHeader
    BY <1>2, EndHeaderReads
  <1>3. CASE EndCell \/ EndLine
    BY <1>3, EndCellReads
  <1>4. CASE AssertFails \/ EndOfFile
    BY <1>4, StopsReads
  <1>5. CASE Ended \/ UNCHANGED csvVars
    BY <1>5 DEF Ended, csvVars, IInv, Typed, Reads, Places, Reports
  <1>. QED
    BY <1>1, <1>2, <1>3, <1>4, <1>5 DEF CsvNext

LEMMA ReadsTell ==
  ASSUME IInv PROVE ReportsTheCells
  <1>. SUFFICES ASSUME phase \in {"done", "exit"}
                PROVE  /\ out = Reference(file, withHeader)
                       /\ phase = "exit" <=> Unheaded(file, withHeader) # {}
    BY DEF ReportsTheCells
  <1>1. file \in Seq(Bytes) /\ Len(file) \in Nat /\ cur \in 1..Len(file) + 1
    BY DEF IInv, Typed
  <1>2. Unheaded(file, withHeader) \subseteq 1..Len(file)
    BY <1>1, BreaksAre DEF Unheaded
  <1>3. Reports
    BY DEF IInv
  <1>4. phase = "exit" <=> Unheaded(file, withHeader) # {}
    BY <1>1, <1>2, <1>3 DEF Reports
  <1>5. Stops(file, withHeader) = cur
    <2>1. CASE phase = "done"
      BY <1>3, <1>4, <2>1 DEF Reports, Stops
    <2>2. CASE phase = "exit"
      <3>. DEFINE U == Unheaded(file, withHeader)
                  m == CHOOSE u \in U : \A v \in U : u <= v
      <3>1. cur \in U /\ \A v \in U : cur <= v
        BY <1>3, <2>2 DEF Reports
      <3>2. Stops(file, withHeader) = m
        BY <3>1 DEF Stops
      <3>3. m = cur
        BY <1>2, <3>1
      <3>. QED
        BY <3>2, <3>3
    <2>. QED
      BY <2>1, <2>2
  <1>6. out = Reference(file, withHeader)
    BY <1>3, <1>5 DEF Reports, Reference
  <1>. QED
    BY <1>4, <1>6

\* csv.c reports exactly the cells and lines of the reference, in their order and
\* with their numbers, and ends early exactly for a row longer than the header,
\* whatever the size of the file.
THEOREM CellsReported == CsvSpec => []ReportsTheCells
  <1>1. CsvInit => IInv
    BY InitReads
  <1>2. IInv /\ [CsvNext]_csvVars => IInv'
    BY StepReads
  <1>3. IInv => ReportsTheCells
    BY ReadsTell
  <1>. QED
    BY <1>1, <1>2, <1>3, PTL DEF CsvSpec
=============================================================================
