--------------------------- MODULE ProgramsProofs ---------------------------
(***************************************************************************)
(* Theorems about the small programs: that the polymer of aoc5.c is        *)
(* reduced in its buffer to what a stack would hold, for any number of     *)
(* letters, and when memmove runs wild; and which distances the two        *)
(* searches of house.c find among any number of points.                    *)
(***************************************************************************)
EXTENDS Polymer, ClosestPair, SequenceTheorems, WellFoundedInduction, TLAPS

LEMMA Least ==
  ASSUME NEW B \in SUBSET Nat, B # {}
  PROVE  \E m \in B : \A n \in B : m <= n
  <1>1. PICK m \in B : \A n \in B : ~ (<<n, m>> \in OpToRel(<, Nat))
    BY WFMin, NatLessThanWellFounded
  <1>2. \A n \in B : ~ (n < m)
    BY <1>1 DEF OpToRel
  <1>. QED
    BY <1>2
-----------------------------------------------------------------------------
(* What is left of the first letters.                                      *)

Bytes == Letters \union {0}

\* What is left when x comes after what was left.
After(s, x) == IF s # <<>> /\ Reacts(Last(s), x) THEN Front(s) ELSE Append(s, x)

\* The two cases of it, letter by letter.
Taken(s, x, t) ==
  /\ Len(s) > 0 /\ Reacts(s[Len(s)], x)
  /\ Len(t) = Len(s) - 1
  /\ \A i \in 1..Len(t) : t[i] = s[i]
Kept(s, x, t) ==
  /\ Len(s) > 0 => ~Reacts(s[Len(s)], x)
  /\ Len(t) = Len(s) + 1 /\ t[Len(t)] = x
  /\ \A i \in 1..Len(s) : t[i] = s[i]

\* No two neighbours react.
Still(s) == \A i \in 1..Len(s) - 1 : ~Reacts(s[i], s[i + 1])

LEMMA LettersAre == Letters \subseteq Int /\ Bytes \subseteq Int /\ 0 \notin Letters
  BY UnitsAssumption DEF Letters, Bytes

LEMMA AfterOne ==
  ASSUME NEW s \in Seq(Letters), NEW x \in Letters
  PROVE  /\ After(s, x) \in Seq(Letters)
         /\ Taken(s, x, After(s, x)) \/ Kept(s, x, After(s, x))
  <1>1. Len(s) \in Nat /\ (s # <<>> <=> Len(s) > 0)
    BY EmptySeq, LenProperties
  <1>2. CASE s # <<>> /\ Reacts(s[Len(s)], x)
    <2>1. \A i \in 1..Len(s) - 1 : s[i] \in Letters
      BY <1>1, ElementOfSeq
    <2>2. PICK m \in Nat : m = Len(s) - 1 /\ \A i \in 1..m : s[i] \in Letters
      BY <1>1, <1>2, <2>1
    <2>4. /\ SubSeq(s, 1, m) \in Seq(Letters)
          /\ Len(SubSeq(s, 1, m)) = IF 1 <= m THEN m - 1 + 1 ELSE 0
          /\ \A i \in 1..m - 1 + 1 : SubSeq(s, 1, m)[i] = s[1 + i - 1]
      BY <2>2, SubSeqProperties
    <2>5. /\ Len(SubSeq(s, 1, m)) = m
          /\ \A i \in 1..m : SubSeq(s, 1, m)[i] = s[i]
      BY <2>2, <2>4
    <2>3. After(s, x) = SubSeq(s, 1, Len(s) - 1)
      BY <1>2 DEF After, Front, Last
    <2>. QED
      BY <1>1, <1>2, <2>2, <2>3, <2>4, <2>5 DEF Taken
  <1>3. CASE ~(s # <<>> /\ Reacts(s[Len(s)], x))
    <2>1. After(s, x) = Append(s, x)
      BY <1>3 DEF After, Last
    <2>. QED
      BY <1>1, <1>3, <2>1, AppendProperties DEF Kept
  <1>. QED
    BY <1>2, <1>3

LEMMA AfterIsStill ==
  ASSUME NEW s \in Seq(Letters), NEW x \in Letters, Still(s)
  PROVE  Still(After(s, x))
  <1>0. PICK t \in Seq(Letters) :
          t = After(s, x) /\ (Taken(s, x, t) \/ Kept(s, x, t))
    BY AfterOne
  <1>1. Len(s) \in Nat /\ Len(t) \in Nat
    BY LenProperties
  <1>. SUFFICES Still(t)
    BY <1>0
  <1>2. CASE Taken(s, x, t)
    <2>1. ASSUME NEW i \in 1..Len(t) - 1 PROVE ~Reacts(t[i], t[i + 1])
      <3>1. /\ i \in 1..Len(t) /\ i + 1 \in 1..Len(t) /\ i \in 1..Len(s) - 1
        BY <1>1, <1>2 DEF Taken
      <3>2. t[i] = s[i] /\ t[i + 1] = s[i + 1]
        BY <1>2, <3>1 DEF Taken
      <3>. QED
        BY <3>1, <3>2 DEF Still
    <2>. QED
      BY <2>1 DEF Still
  <1>3. CASE Kept(s, x, t)
    <2>1. ASSUME NEW i \in 1..Len(t) - 1 PROVE ~Reacts(t[i], t[i + 1])
      <3>1. i \in 1..Len(s) /\ t[i] = s[i]
        BY <1>1, <1>3 DEF Kept
      <3>2. CASE i = Len(s)
        <4>1. t[i + 1] = x
          BY <1>1, <1>3, <3>2 DEF Kept
        <4>. QED
          BY <1>1, <1>3, <3>1, <3>2, <4>1 DEF Kept
      <3>3. CASE i # Len(s)
        <4>1. i + 1 \in 1..Len(s) /\ i \in 1..Len(s) - 1
          BY <1>0, <3>1, <3>3
        <4>2. t[i + 1] = s[i + 1]
          BY <1>3, <4>1 DEF Kept
        <4>. QED
          BY <3>1, <4>1, <4>2 DEF Still
      <3>. QED
        BY <3>2, <3>3
    <2>. QED
      BY <2>1 DEF Still
  <1>. QED
    BY <1>0, <1>2, <1>3

\* Left is the recursive function that its definition says.
LEMMA LeftGrows ==
  ASSUME NEW p \in Seq(Letters)
  PROVE  /\ Left(p)[0] = <<>>
         /\ \A k \in 1..Len(p) : Left(p)[k] = After(Left(p)[k - 1], p[k])
  <1>. DEFINE N == Len(p)
              More(s, k) == IF s # <<>> /\ Reacts(Last(s), p[k]) THEN Front(s)
                            ELSE Append(s, p[k])
              Leaves(t, m) == /\ t = [k \in 0..m |-> t[k]] /\ t[0] = <<>>
                              /\ \A k \in 1..m : t[k] = More(t[k - 1], k)
              Bad == {m \in 0..N : ~ \E t : Leaves(t, m)}
  <1>0. N \in Nat
    BY LenProperties
  <1>1. Bad = {}
    <2>. HIDE DEF N, More
    <2>. SUFFICES ASSUME Bad # {} PROVE FALSE
      OBVIOUS
    <2>1. PICK m \in Bad : \A n \in Bad : m =< n
      <3>1. Bad \in SUBSET Nat
        OBVIOUS
      <3>. HIDE DEF Bad
      <3>. QED
        BY <3>1, Least
    <2>2. m \in 0..N /\ m \in Nat /\ ~ \E t : Leaves(t, m)
      BY <1>0
    <2>3. CASE m = 0
      <3>1. PICK t : t = [k \in 0..0 |-> <<>>]
        OBVIOUS
      <3>2. Leaves(t, m)
        BY <2>3, <3>1
      <3>. QED
        BY <2>2, <3>2
    <2>4. CASE m # 0
      <3>1. m - 1 \in 0..N /\ ~ (m =< m - 1)
        BY <1>0, <2>2, <2>4
      <3>2. PICK g : Leaves(g, m - 1)
        BY <2>1, <3>1
      <3>3. PICK t : t = [k \in 0..m |-> IF k = m THEN More(g[m - 1], m) ELSE g[k]]
        OBVIOUS
      <3>4. /\ t = [k \in 0..m |-> t[k]] /\ t[0] = <<>>
            /\ t[m] = More(t[m - 1], m)
        BY <2>2, <2>4, <3>2, <3>3
      <3>5. ASSUME NEW k \in 1..m PROVE t[k] = More(t[k - 1], k)
        <4>1. CASE k = m
          BY <3>4, <4>1
        <4>2. CASE k # m
          <5>1. k \in 1..m - 1 /\ k - 1 \in 0..m /\ k - 1 # m
            BY <2>2, <4>2
          <5>2. t[k] = g[k] /\ t[k - 1] = g[k - 1]
            BY <2>2, <3>3, <4>2, <5>1
          <5>. QED
            BY <3>2, <5>1, <5>2
        <4>. QED
          BY <4>1, <4>2
      <3>6. Leaves(t, m)
        BY <3>4, <3>5
      <3>. QED
        BY <2>2, <3>6
    <2>. QED
      BY <2>3, <2>4
  <1>. HIDE DEF More
  <1>2. PICK t : Leaves(t, N)
    BY <1>0, <1>1
  <1>. HIDE DEF N
  <1>3. t = [k \in 0..N |-> IF k = 0 THEN <<>> ELSE More(t[k - 1], k)]
    <2>0. /\ \A k \in 0..N : k # 0 => k \in 1..N
          /\ \A k \in 1..N : t[k] = More(t[k - 1], k)
      <3>1. \A k \in 1..N : t[k] = More(t[k - 1], k)
        BY <1>2, Zenon
      <3>2. \A k \in 0..N : k # 0 => k \in 1..N
        BY <1>0
      <3>. QED
        BY <3>1, <3>2
    <2>1. ASSUME NEW k \in 0..N
          PROVE  t[k] = IF k = 0 THEN <<>> ELSE More(t[k - 1], k)
      <3>1. CASE k = 0
        BY <1>2, <3>1
      <3>2. CASE k # 0
        <4>1. k \in 1..N
          BY <2>0, <3>2, Zenon
        <4>. QED
          BY <2>0, <3>2, <4>1
      <3>. QED
        BY <3>1, <3>2
    <2>. QED
      BY <1>2, <2>1
  <1>. DEFINE left == Left(p)
  <1>4. left = [k \in 0..N |-> IF k = 0 THEN <<>> ELSE More(left[k - 1], k)]
    <2>1. \A s, k : More(s, k) = IF s # <<>> /\ Reacts(Last(s), p[k]) THEN Front(s)
                                 ELSE Append(s, p[k])
      BY DEF More
    <2>. QED
      BY <1>3, <2>1, Zenon DEF Left, N, More
  <1>. HIDE DEF left
  <1>5. left[0] = <<>>
    BY <1>0, <1>4
  <1>6. ASSUME NEW k \in 1..N PROVE left[k] = More(left[k - 1], k)
    <2>1. k \in 0..N /\ k # 0
      BY <1>0
    <2>. QED
      BY <1>4, <2>1
  <1>. QED
    BY <1>5, <1>6 DEF left, N, More, After

\* What is left is letters of which no neighbours react.
LEMMA LeftIs ==
  ASSUME NEW p \in Seq(Letters)
  PROVE  \A k \in 0..Len(p) : /\ Left(p)[k] \in Seq(Letters)
                              /\ Len(Left(p)[k]) <= k
                              /\ Still(Left(p)[k])
  <1>. DEFINE L == Left(p)
              Good(k) == L[k] \in Seq(Letters) /\ Len(L[k]) <= k /\ Still(L[k])
              Bad == {k \in 0..Len(p) : ~Good(k)}
  <1>1. Len(p) \in Nat /\ p \in [1..Len(p) -> Letters]
    BY LenProperties
  <1>2. L[0] = <<>> /\ \A k \in 1..Len(p) : L[k] = After(L[k - 1], p[k])
    BY LeftGrows
  <1>. HIDE DEF L
  <1>3. Good(0)
    BY <1>2, EmptySeq DEF Still
  <1>4. Bad = {}
    <2>. SUFFICES ASSUME Bad # {} PROVE FALSE
      OBVIOUS
    <2>1. PICK k \in Bad : \A j \in Bad : k =< j
      <3>1. Bad \in SUBSET Nat
        BY <1>1
      <3>. HIDE DEF Bad
      <3>. QED
        BY <3>1, Least
    <2>2. k \in 1..Len(p) /\ k - 1 \in 0..Len(p) /\ ~(k <= k - 1)
      BY <1>1, <1>3
    <2>3. Good(k - 1)
      BY <2>1, <2>2
    <2>4. PICK s \in Seq(Letters) : s = L[k - 1]
      BY <2>3
    <2>5. PICK x \in Letters : x = p[k]
      BY <1>1, <2>2
    <2>6. PICK t \in Seq(Letters) : t = After(s, x) /\ (Taken(s, x, t) \/ Kept(s, x, t))
      BY AfterOne
    <2>7. Still(t)
      BY <2>3, <2>4, <2>6, AfterIsStill
    <2>8. L[k] = t
      BY <1>2, <2>2, <2>4, <2>5, <2>6
    <2>9. Len(t) <= k
      <3>1. Len(s) \in Nat /\ Len(s) <= k - 1
        BY <2>3, <2>4, LenProperties
      <3>. QED
        BY <2>2, <2>6, <3>1 DEF Taken, Kept
    <2>. QED
      BY <2>1, <2>7, <2>8, <2>9
  <1>. QED
    BY <1>4 DEF L

LEMMA LeftSteps ==
  ASSUME NEW p \in Seq(Letters), NEW k \in 1..Len(p)
  PROVE  \/ Taken(Left(p)[k - 1], p[k], Left(p)[k])
         \/ Kept(Left(p)[k - 1], p[k], Left(p)[k])
  <1>1. k - 1 \in 0..Len(p) /\ p[k] \in Letters
    BY LenProperties
  <1>2. Left(p)[k - 1] \in Seq(Letters)
    BY <1>1, LeftIs
  <1>. QED
    BY <1>1, <1>2, AfterOne, LeftGrows

LEMMA NextStep ==
  ASSUME NEW p \in Seq(Letters), NEW m \in Nat, m + 1 \in 1..Len(p)
  PROVE  \/ Taken(Left(p)[m], p[m + 1], Left(p)[m + 1])
         \/ Kept(Left(p)[m], p[m + 1], Left(p)[m + 1])
  <1>1. PICK k \in 1..Len(p) : k = m + 1 /\ k - 1 = m
    OBVIOUS
  <1>. QED
    BY <1>1, LeftSteps

LEMMA Symmetric ==
  ASSUME NEW x \in Bytes, NEW y \in Bytes
  PROVE  Reacts(x, y) <=> Reacts(y, x)
  BY LettersAre DEF Reacts

\* The torn pair in the terms of what is left: its first letter has reacted, and
\* its second could not, with what was before the letter that the first took.
LEMMA TornIs ==
  ASSUME NEW p \in Seq(Letters), Len(p) > 2
  PROVE  TornPair(p) <=>
           /\ Reacts(p[Len(p)], p[Len(p) - 1])
           /\ Taken(Left(p)[Len(p) - 2], p[Len(p) - 1], Left(p)[Len(p) - 1])
  <1>1. PICK n \in Nat : n = Len(p) /\ n > 2
    BY LenProperties
  <1>2. PICK b \in Seq(Letters) : b = Left(p)[n - 2]
    <2>1. n - 2 \in 0..Len(p)
      BY <1>1
    <2>. QED
      BY <2>1, LeftIs
  <1>3. PICK a \in Letters, z \in Letters : a = p[n - 1] /\ z = p[n]
    BY <1>1, LenProperties
  <1>4. Len(b) \in Nat /\ (b # <<>> <=> Len(b) > 0)
    BY EmptySeq, LenProperties
  <1>5. a \in Int /\ z \in Int /\ a # 0 /\ z # 0 /\ (Len(b) > 0 => b[Len(b)] \in Int)
    <2>1. Len(b) > 0 => Len(b) \in 1..Len(b)
      BY <1>4
    <2>2. Len(b) > 0 => b[Len(b)] \in Letters
      BY <2>1, ElementOfSeq
    <2>. QED
      BY <2>2, LettersAre
  <1>6. TornPair(p) <=> Reacts(a, z) /\ b # <<>> /\ b[Len(b)] = z
    BY <1>1, <1>2, <1>3 DEF TornPair, Last
  <1>7. n - 1 \in 1..Len(p) /\ n - 1 - 1 = n - 2
    BY <1>1
  <1>8. Taken(b, a, Left(p)[n - 1]) \/ Kept(b, a, Left(p)[n - 1])
    BY <1>2, <1>3, <1>7, LeftSteps
  <1>9. Taken(b, a, Left(p)[n - 1]) => Len(b) > 0 /\ Reacts(b[Len(b)], a)
    BY DEF Taken
  <1>10. Kept(b, a, Left(p)[n - 1]) => (Len(b) > 0 => ~Reacts(b[Len(b)], a))
    BY DEF Kept
  <1>11. TornPair(p) <=> Reacts(z, a) /\ Taken(b, a, Left(p)[n - 1])
    BY <1>4, <1>5, <1>6, <1>8, <1>9, <1>10 DEF Reacts
  <1>. QED
    BY <1>1, <1>2, <1>3, <1>11

\* A torn pair's second letter stays, for it does not react with what was before it.
LEMMA TornStays ==
  ASSUME NEW p \in Seq(Letters), TornPair(p)
  PROVE  /\ Len(p) > 2 /\ Reacts(p[Len(p)], p[Len(p) - 1])
         /\ Kept(Left(p)[Len(p) - 1], p[Len(p)], Left(p)[Len(p)])
         /\ Len(Left(p)[Len(p)]) \in 1..Len(p) - 1
  <1>1. PICK n \in Nat : n = Len(p) /\ n > 2
    BY LenProperties DEF TornPair
  <1>2. PICK b \in Seq(Letters) : b = Left(p)[n - 2] /\ Len(b) <= n - 2 /\ Still(b)
    <2>1. n - 2 \in 0..Len(p)
      BY <1>1
    <2>. QED
      BY <2>1, LeftIs
  <1>3. PICK c \in Seq(Letters) : c = Left(p)[n - 1]
    BY <1>1, LeftIs
  <1>4. PICK a \in Letters, z \in Letters : a = p[n - 1] /\ z = p[n]
    BY <1>1, LenProperties
  <1>5. Reacts(z, a) /\ Taken(b, a, c)
    BY <1>1, <1>2, <1>3, <1>4, TornIs
  <1>6. b # <<>> /\ b[Len(b)] = z
    BY <1>1, <1>2, <1>4 DEF TornPair, Last
  <1>7. Len(b) \in Nat /\ Len(c) \in Nat /\ Len(b) > 0 /\ Len(c) = Len(b) - 1
    BY <1>5, LenProperties DEF Taken
  <1>8. ~(Len(c) > 0 /\ Reacts(c[Len(c)], z))
    <2>. SUFFICES ASSUME Len(c) > 0 PROVE ~Reacts(c[Len(c)], z)
      OBVIOUS
    <2>1. c[Len(c)] = b[Len(c)]
      BY <1>5, <1>7 DEF Taken
    <2>2. Len(c) \in 1..Len(b) - 1 /\ Len(c) + 1 = Len(b)
      BY <1>7
    <2>. QED
      BY <1>2, <1>6, <2>1, <2>2 DEF Still
  <1>9. Kept(c, z, Left(p)[n])
    <2>1. n \in 1..Len(p)
      BY <1>1
    <2>2. Taken(c, z, Left(p)[n]) \/ Kept(c, z, Left(p)[n])
      BY <1>3, <1>4, <2>1, LeftSteps
    <2>. QED
      BY <1>8, <2>2 DEF Taken
  <1>10. Len(Left(p)[n]) = Len(c) + 1
    BY <1>9 DEF Kept
  <1>. QED
    BY <1>1, <1>2, <1>3, <1>4, <1>5, <1>7, <1>9, <1>10
-----------------------------------------------------------------------------
(* The loop.                                                               *)

\* The letters that the cursor has reached: the one under it is the last of them.
Met(p, z, i) == i + 1 + Len(p) - z

Fits(p, s, z, i) ==
  /\ s \in Seq(Bytes) /\ Len(s) = Len(p) + 1
  /\ z \in 0..Len(p) /\ i \in 0..z

\* Up to the cursor the buffer holds what is left of the letters reached, and
\* behind it the others.
Holds(p, s, z, i) ==
  /\ i < z => /\ Met(p, z, i) \in 1..Len(p)
              /\ Len(Left(p)[Met(p, z, i)]) = i + 1
              /\ \A k \in 1..i + 1 : s[k] = Left(p)[Met(p, z, i)][k]
              /\ \A k \in i + 2..z : s[k] = p[k + Len(p) - z]
  /\ i = z => /\ Len(Left(p)[Len(p)]) = z
              /\ \A k \in 1..z : s[k] = Left(p)[Len(p)][k]

\* The byte behind the buffer is the one behind the file as long as nothing has
\* reacted.  Later it is the last but one of the letters, unless this was the last
\* to be reached when the last letter took it away.
Stale(p, byte, s, z, i) ==
  LET n == Len(p)
  IN  /\ z = n => s[n + 1] = byte /\ \A k \in 1..n : s[k] = p[k]
      /\ i < z /\ z < n =>
           \/ /\ n > 2 /\ s[z + 1] = p[n - 1]
              /\ Met(p, z, i) = n => Kept(Left(p)[n - 1], p[n], Left(p)[n])
           \/ /\ Met(p, z, i) = n
              /\ Taken(Left(p)[n - 1], p[n], Left(p)[n])
              /\ s[z + 1] = Left(p)[n - 1][Len(Left(p)[n - 1])]

LEMMA Starts ==
  ASSUME NEW p \in Seq(Letters), Len(p) > 0, NEW byte \in Bytes
  PROVE  /\ Fits(p, Append(p, byte), Len(p), 0)
         /\ Holds(p, Append(p, byte), Len(p), 0)
         /\ Stale(p, byte, Append(p, byte), Len(p), 0)
  <1>1. PICK n \in Nat : n = Len(p) /\ n > 0
    BY LenProperties
  <1>2. p \in Seq(Bytes)
    BY DEF Bytes
  <1>3. PICK s : s = Append(p, byte)
    OBVIOUS
  <1>4. /\ s \in Seq(Bytes) /\ Len(s) = n + 1 /\ s[n + 1] = byte
        /\ \A k \in 1..n : s[k] = p[k]
    BY <1>1, <1>2, <1>3, AppendProperties
  <1>5. Fits(p, s, n, 0)
    BY <1>1, <1>4 DEF Fits
  <1>6. Stale(p, byte, s, n, 0)
    BY <1>1, <1>4 DEF Stale
  <1>7. Holds(p, s, n, 0)
    <2>1. PICK x \in Letters : x = p[1]
      BY <1>1, LenProperties
    <2>2. Left(p)[0] = <<>> /\ 1 \in 1..Len(p)
      BY <1>1, LeftGrows
    <2>3. Taken(<<>>, x, Left(p)[1]) \/ Kept(<<>>, x, Left(p)[1])
      BY <2>1, <2>2, LeftSteps
    <2>4. Len(<<>>) = 0
      OBVIOUS
    <2>5. Len(Left(p)[1]) = 1 /\ Left(p)[1][1] = x
      BY <2>3, <2>4 DEF Taken, Kept
    <2>6. Met(p, n, 0) = 1
      BY <1>1 DEF Met
    <2>7. \A k \in 0 + 2..n : s[k] = p[k + n - n]
      BY <1>1, <1>4
    <2>. QED
      BY <1>1, <1>4, <2>1, <2>2, <2>5, <2>6, <2>7 DEF Holds
  <1>. QED
    BY <1>1, <1>3, <1>5, <1>6, <1>7

PairAt(s, i) == Reacts(s[i + 1], s[i + 2])

\* l is what is left of the first m letters, which the cursor has reached, and the
\* letter after them is behind it.
Reached(p, s, z, i, m, l) ==
  /\ m = Met(p, z, i)
  /\ l = Left(p)[m] /\ Len(l) = i + 1
  /\ \A k \in 1..i + 1 : s[k] = l[k]
  /\ i + 1 < z => s[i + 2] = p[m + 1]

LEMMA HasReached ==
  ASSUME NEW p \in Seq(Letters), NEW s, NEW z \in Nat, NEW i \in Nat,
         Fits(p, s, z, i), Holds(p, s, z, i), i < z
  PROVE  \E m \in 1..Len(p), l \in Seq(Letters) :
           m = i + 1 + Len(p) - z /\ Reached(p, s, z, i, m, l)
  <1>1. PICK n \in Nat : n = Len(p)
    BY LenProperties
  <1>2. z <= n
    BY <1>1 DEF Fits
  <1>3. PICK m \in 1..n : m = Met(p, z, i) /\ m = i + 1 + n - z
    BY <1>1 DEF Holds, Met
  <1>4. PICK l : l = Left(p)[m]
    OBVIOUS
  <1>5. l \in Seq(Letters)
    <2>1. m \in 0..Len(p)
      BY <1>1, <1>3
    <2>. QED
      BY <1>4, <2>1, LeftIs
  <1>6. Len(l) = i + 1 /\ \A k \in 1..i + 1 : s[k] = l[k]
    BY <1>3, <1>4 DEF Holds
  <1>7. i + 1 < z => s[i + 2] = p[m + 1]
    <2>1. i + 1 < z => i + 2 \in i + 2..z /\ i + 2 + n - z = m + 1
      BY <1>3
    <2>2. \A k \in i + 2..z : s[k] = p[k + n - z]
      BY <1>1 DEF Holds
    <2>. QED
      BY <2>1, <2>2
  <1>8. Reached(p, s, z, i, m, l)
    BY <1>3, <1>4, <1>6, <1>7 DEF Reached
  <1>. QED
    BY <1>1, <1>3, <1>5, <1>8

\* A pair that does not react is passed.
LEMMA Passes ==
  ASSUME NEW p \in Seq(Letters), NEW byte \in Bytes, NEW s, NEW z \in Nat, NEW i \in Nat
  PROVE  /\ Fits(p, s, z, i)
         /\ Holds(p, s, z, i)
         /\ Stale(p, byte, s, z, i)
         /\ i < z
         /\ ~PairAt(s, i)
         => /\ Fits(p, s, z, i + 1)
            /\ Holds(p, s, z, i + 1)
            /\ Stale(p, byte, s, z, i + 1)
            /\ i + 1 = z => ~TornPair(p) /\ ~MeetsNext(p, byte)
  <1>0. SUFFICES ASSUME Fits(p, s, z, i),
                        Holds(p, s, z, i),
                        Stale(p, byte, s, z, i),
                        i < z,
                        ~PairAt(s, i)
        PROVE  /\ Fits(p, s, z, i + 1)
               /\ Holds(p, s, z, i + 1)
               /\ Stale(p, byte, s, z, i + 1)
               /\ i + 1 = z => ~TornPair(p) /\ ~MeetsNext(p, byte)
    OBVIOUS
  <1>1. PICK n \in Nat : n = Len(p)
    BY LenProperties
  <1>2. i \in Nat /\ z \in 0..n /\ i + 1 \in 0..z /\ Len(s) = n + 1 /\ s \in Seq(Bytes)
    BY <1>0, <1>1 DEF Fits
  <1>3. PICK m \in 1..n, l \in Seq(Letters) :
          m = i + 1 + n - z /\ Reached(p, s, z, i, m, l)
    BY <1>0, <1>1, HasReached
  <1>4. /\ m = Met(p, z, i) /\ l = Left(p)[m] /\ Len(l) = i + 1
        /\ \A k \in 1..i + 1 : s[k] = l[k]
    BY <1>3 DEF Reached
  <1>5. Fits(p, s, z, i + 1)
    BY <1>0, <1>1, <1>2 DEF Fits
  <1>6. CASE i + 1 < z
    <2>1. m + 1 \in 1..n /\ s[i + 2] = p[m + 1]
      <3>1. m + 1 \in 1..n
        BY <1>2, <1>3, <1>6
      <3>. QED
        BY <1>3, <1>6, <3>1 DEF Reached
    <2>2. Kept(l, p[m + 1], Left(p)[m + 1])
      <3>1. m \in Nat
        OBVIOUS
      <3>2. Taken(l, p[m + 1], Left(p)[m + 1]) \/ Kept(l, p[m + 1], Left(p)[m + 1])
        BY <1>1, <1>4, <2>1, <3>1, NextStep
      <3>3. s[i + 1] = l[i + 1]
        BY <1>2, <1>4
      <3>. QED
        BY <1>0, <1>4, <2>1, <3>2, <3>3 DEF Taken, PairAt
    <2>3. Met(p, z, i + 1) = m + 1
      BY <1>1, <1>2, <1>3 DEF Met
    <2>4. PICK t : t = Left(p)[m + 1]
      OBVIOUS
    <2>5. Len(t) = i + 2 /\ \A k \in 1..i + 2 : s[k] = t[k]
      <3>1. /\ Len(t) = i + 1 + 1 /\ t[i + 1 + 1] = p[m + 1]
            /\ \A k \in 1..i + 1 : t[k] = l[k]
        BY <1>4, <2>2, <2>4 DEF Kept
      <3>2. i + 1 + 1 = i + 2 /\ \A k \in 1..i + 2 : k = i + 2 \/ k \in 1..i + 1
        BY <1>2
      <3>. QED
        BY <1>4, <2>1, <3>1, <3>2
    <2>6. \A k \in i + 3..z : s[k] = p[k + n - z]
      BY <1>0, <1>1, <1>2, <1>6 DEF Holds
    <2>7. Holds(p, s, z, i + 1)
      <3>1. i + 1 + 1 = i + 2 /\ i + 1 + 2 = i + 3 /\ ~(i + 1 = z)
        BY <1>2, <1>6
      <3>. QED
        BY <1>0, <1>1, <2>1, <2>3, <2>4, <2>5, <2>6, <3>1 DEF Holds
    <2>8. Stale(p, byte, s, z, i + 1)
      <3>1. m # n
        BY <2>1
      <3>2. z < n => n > 2 /\ s[z + 1] = p[n - 1]
        BY <1>0, <1>1, <1>4, <3>1 DEF Stale
      <3>3. m + 1 = n => Kept(Left(p)[n - 1], p[n], Left(p)[n])
        <4>1. m + 1 = n => m = n - 1
          BY <1>3
        <4>. QED
          BY <1>4, <2>2, <4>1
      <3>4. z = n => s[n + 1] = byte /\ \A k \in 1..n : s[k] = p[k]
        BY <1>0, <1>1 DEF Stale
      <3>. QED
        BY <1>0, <1>1, <2>3, <3>2, <3>3, <3>4 DEF Stale
    <2>. QED
      BY <1>2, <1>5, <1>6, <2>7, <2>8
  <1>7. CASE ~(i + 1 < z)
    <2>1. i + 1 = z /\ m = n
      BY <1>2, <1>3, <1>7
    <2>2. Holds(p, s, z, i + 1)
      BY <1>0, <1>1, <1>2, <1>4, <2>1 DEF Holds
    <2>3. Stale(p, byte, s, z, i + 1)
      BY <1>0, <1>2, <2>1 DEF Stale
    <2>4. ~Reacts(l[z], s[z + 1])
      <3>1. i + 2 = z + 1 /\ i + 1 \in 1..i + 1
        BY <1>2, <2>1
      <3>. QED
        BY <1>0, <1>4, <2>1, <3>1 DEF PairAt
    <2>5. ~MeetsNext(p, byte)
      <3>. SUFFICES ASSUME l = p, Reacts(p[n], byte) PROVE FALSE
        BY <1>1, <1>4, <2>1 DEF MeetsNext, Reduced, Last
      <3>1. z = n
        BY <1>1, <1>4, <2>1
      <3>2. s[n + 1] = byte
        BY <1>0, <1>1, <3>1 DEF Stale
      <3>. QED
        BY <2>4, <3>1, <3>2
    <2>6. ~TornPair(p)
      <3>. SUFFICES ASSUME TornPair(p) PROVE FALSE
        OBVIOUS
      <3>1. /\ n > 2 /\ Reacts(p[n], p[n - 1]) /\ Kept(Left(p)[n - 1], p[n], l)
            /\ Len(l) \in 1..n - 1
        BY <1>1, <1>4, <2>1, TornStays
      <3>2. z < n /\ i < z
        BY <1>2, <1>4, <2>1, <3>1
      <3>3. l[z] = p[n]
        BY <1>4, <2>1, <3>1 DEF Kept
      <3>4. s[z + 1] = p[n - 1] \/ Taken(Left(p)[n - 1], p[n], l)
        BY <1>0, <1>1, <1>3, <1>4, <2>1, <3>2 DEF Stale
      <3>5. ~Taken(Left(p)[n - 1], p[n], l)
        BY <3>1 DEF Taken, Kept
      <3>. QED
        BY <2>4, <3>1, <3>3, <3>4, <3>5
    <2>. QED
      BY <1>5, <2>2, <2>3, <2>5, <2>6
  <1>. QED
    BY <1>6, <1>7

\* A reaction with the byte behind the buffer: it is one of the two cases.
LEMMA GoesBeyond ==
  ASSUME NEW p \in Seq(Letters), NEW byte \in Bytes, NEW s, NEW z \in Nat, NEW i \in Nat
  PROVE  /\ Fits(p, s, z, i)
         /\ Holds(p, s, z, i)
         /\ Stale(p, byte, s, z, i)
         /\ i < z
         /\ PairAt(s, i)
         /\ i + 1 = z
         => TornPair(p) \/ MeetsNext(p, byte)
  <1>0. SUFFICES ASSUME Fits(p, s, z, i),
                        Holds(p, s, z, i),
                        Stale(p, byte, s, z, i),
                        i < z,
                        PairAt(s, i),
                        i + 1 = z
        PROVE  TornPair(p) \/ MeetsNext(p, byte)
    OBVIOUS
  <1>1. PICK n \in Nat : n = Len(p)
    BY LenProperties
  <1>2. i \in Nat /\ z \in 0..n /\ Len(s) = n + 1 /\ s \in Seq(Bytes) /\ i + 1 = z /\ i + 2 = z + 1
    BY <1>0, <1>1 DEF Fits
  <1>3. PICK m \in 1..n, l \in Seq(Letters) :
          m = i + 1 + n - z /\ Reached(p, s, z, i, m, l)
    BY <1>0, <1>1, HasReached
  <1>4. m = n /\ n = Met(p, z, i) /\ l = Left(p)[n] /\ Len(l) = z
        /\ \A k \in 1..z : s[k] = l[k]
    <2>1. m = n
      BY <1>2, <1>3
    <2>. QED
      BY <1>2, <1>3, <2>1 DEF Reached
  <1>5. Reacts(l[z], s[z + 1]) /\ z \in 1..z
    <2>1. z \in 1..z
      BY <1>2
    <2>2. Reacts(s[z], s[z + 1])
      BY <1>0, <1>2 DEF PairAt
    <2>. QED
      BY <1>4, <2>1, <2>2
  <1>6. CASE z = n
    <2>1. s[n + 1] = byte /\ \A k \in 1..n : s[k] = p[k]
      BY <1>0, <1>1, <1>6 DEF Stale
    <2>2. \A k \in 1..n : l[k] = p[k]
      BY <1>4, <1>6, <2>1
    <2>3. l = p
      <3>1. Len(l) = Len(p) /\ \A k \in 1..Len(l) : l[k] = p[k]
        BY <1>1, <1>4, <1>6, <2>2
      <3>. QED
        BY <3>1, SeqEqual
    <2>. QED
      BY <1>1, <1>4, <1>5, <1>6, <2>1, <2>3 DEF MeetsNext, Reduced, Last
  <1>7. CASE z # n
    <2>1. z < n /\ i < z
      BY <1>2, <1>7
    <2>2. PICK c \in Seq(Letters) : c = Left(p)[n - 1] /\ Still(c)
      <3>1. n - 1 \in 0..Len(p)
        BY <1>1, <1>3
      <3>. QED
        BY <3>1, LeftIs
    <2>3. PICK x \in Letters : x = p[n]
      BY <1>1, <1>3, LenProperties
    <2>4. CASE n > 2 /\ s[z + 1] = p[n - 1] /\ Kept(c, x, l)
      <3>1. PICK a \in Letters : a = p[n - 1]
        BY <1>1, <2>4, LenProperties
      <3>2. PICK b \in Seq(Letters) : b = Left(p)[n - 2]
        <4>1. n - 2 \in 0..Len(p)
          BY <1>1, <2>4
        <4>. QED
          BY <4>1, LeftIs
      <3>3. Reacts(x, a)
        BY <1>4, <1>5, <2>4, <3>1 DEF Kept
      <3>4. n - 1 \in 1..Len(p) /\ n - 1 - 1 = n - 2
        BY <1>1, <2>4
      <3>5. Taken(b, a, c) \/ Kept(b, a, c)
        BY <2>2, <3>1, <3>2, <3>4, LeftSteps
      <3>6. ~Kept(b, a, c)
        <4>. SUFFICES ASSUME Kept(b, a, c) PROVE FALSE
          OBVIOUS
        <4>1. Len(c) > 0 /\ c[Len(c)] = a
          <5>1. Len(b) \in Nat
            BY LenProperties
          <5>. QED
            BY <5>1 DEF Kept
        <4>2. ~Reacts(a, x)
          BY <2>4, <4>1 DEF Kept
        <4>. QED
          BY <3>3, <4>2, Symmetric DEF Bytes
      <3>. QED
        BY <1>1, <2>2, <2>3, <2>4, <3>1, <3>2, <3>3, <3>5, <3>6, TornIs
    <2>5. CASE Taken(c, x, l) /\ s[z + 1] = c[Len(c)]
      <3>1. Len(c) \in Nat /\ Len(c) = z + 1 /\ l[z] = c[z]
        BY <1>2, <1>4, <1>5, <2>5, LenProperties, SMTT(30) DEF Taken
      <3>2. z \in 1..Len(c) - 1
        BY <1>2, <3>1
      <3>3. ~Reacts(c[z], c[z + 1])
        BY <2>2, <3>2 DEF Still
      <3>. QED
        BY <1>5, <2>5, <3>1, <3>3
    <2>. QED
      BY <1>0, <1>1, <1>3, <1>4, <2>1, <2>2, <2>3, <2>4, <2>5 DEF Stale
  <1>. QED
    BY <1>6, <1>7
\* w is s without the pair at i, and the last but one byte stays where it is, too.
Closed(s, w, i, z) ==
  /\ w \in Seq(Bytes) /\ Len(w) = Len(s)
  /\ \A k \in 1..i : w[k] = s[k]
  /\ \A k \in i + 1..z - 2 : w[k] = s[k + 2]
  /\ w[z - 1] = s[z - 1]

LEMMA WithoutPairIs ==
  ASSUME NEW p \in Seq(Letters), NEW s, NEW z \in Nat, NEW i \in Nat,
         Fits(p, s, z, i), i + 1 < z
  PROVE  Closed(s, WithoutPair(s, i, z), i, z)
  <1>1. PICK n \in Nat : n = Len(s)
    BY DEF Fits
  <1>2. i \in Nat /\ z \in Nat /\ i + 1 < z /\ z < n
    BY <1>1, LenProperties DEF Fits
  <1>3. \A k \in 1..n : s[k] \in Bytes
    BY <1>1, ElementOfSeq DEF Fits
  <1>4. PICK a : a = SubSeq(s, 1, i)
    OBVIOUS
  <1>5. a \in Seq(Bytes) /\ Len(a) = i /\ \A k \in 1..i : a[k] = s[k]
    <2>1. \A k \in 1..i : s[k] \in Bytes
      BY <1>2, <1>3
    <2>2. /\ a \in Seq(Bytes) /\ Len(a) = IF 1 <= i THEN i - 1 + 1 ELSE 0
          /\ \A k \in 1..i - 1 + 1 : a[k] = s[1 + k - 1]
      BY <1>2, <1>4, <2>1, SubSeqProperties
    <2>. QED
      BY <1>2, <2>2
  <1>6. PICK b : b = SubSeq(s, i + 3, z)
    OBVIOUS
  <1>7. /\ b \in Seq(Bytes) /\ Len(b) = z - i - 2
        /\ \A k \in 1..z - i - 2 : b[k] = s[i + 2 + k]
    <2>1. \A k \in i + 3..z : s[k] \in Bytes
      BY <1>2, <1>3
    <2>2. i + 3 \in Int /\ z \in Int
      BY <1>2
    <2>3. /\ b \in Seq(Bytes) /\ Len(b) = IF i + 3 <= z THEN z - (i + 3) + 1 ELSE 0
          /\ \A k \in 1..z - (i + 3) + 1 : b[k] = s[i + 3 + k - 1]
      BY <1>6, <2>1, <2>2, SubSeqProperties, SMTT(30)
    <2>4. \A k \in 1..z - i - 2 : i + 3 + k - 1 = i + 2 + k
      BY <1>2
    <2>5. z - (i + 3) + 1 = z - i - 2 /\ z - i - 2 \in Nat
      BY <1>2
    <2>6. Len(b) = z - i - 2
      BY <1>2, <2>3
    <2>. QED
      BY <2>3, <2>4, <2>5, <2>6
  <1>8. PICK c : c = SubSeq(s, z - 1, n)
    OBVIOUS
  <1>9. /\ c \in Seq(Bytes) /\ Len(c) = n - z + 2
        /\ \A k \in 1..n - z + 2 : c[k] = s[z - 2 + k]
    <2>1. \A k \in z - 1..n : s[k] \in Bytes
      BY <1>2, <1>3
    <2>2. z - 1 \in Int /\ n \in Int
      BY <1>2
    <2>3. /\ c \in Seq(Bytes) /\ Len(c) = IF z - 1 <= n THEN n - (z - 1) + 1 ELSE 0
          /\ \A k \in 1..n - (z - 1) + 1 : c[k] = s[z - 1 + k - 1]
      BY <1>8, <2>1, <2>2, SubSeqProperties
    <2>. QED
      BY <1>2, <2>3
  <1>10. PICK d : d = a \o b
    OBVIOUS
  <1>11. /\ d \in Seq(Bytes) /\ Len(d) = z - 2
         /\ \A k \in 1..z - 2 : d[k] = IF k <= i THEN a[k] ELSE b[k - i]
    <2>1. Len(a) + Len(b) = z - 2
      BY <1>2, <1>5, <1>7
    <2>2. /\ d \in Seq(Bytes) /\ Len(d) = Len(a) + Len(b)
          /\ \A k \in 1..Len(a) + Len(b) :
               d[k] = IF k <= Len(a) THEN a[k] ELSE b[k - Len(a)]
      BY <1>5, <1>7, <1>10, ConcatProperties
    <2>. QED
      BY <1>5, <2>1, <2>2
  <1>12. PICK w : w = d \o c
    OBVIOUS
  <1>13. /\ w \in Seq(Bytes) /\ Len(w) = n
         /\ \A k \in 1..n : w[k] = IF k <= z - 2 THEN d[k] ELSE c[k - (z - 2)]
    <2>1. Len(d) + Len(c) = n
      BY <1>2, <1>9, <1>11
    <2>2. /\ w \in Seq(Bytes) /\ Len(w) = Len(d) + Len(c)
          /\ \A k \in 1..Len(d) + Len(c) :
               w[k] = IF k <= Len(d) THEN d[k] ELSE c[k - Len(d)]
      BY <1>9, <1>11, <1>12, ConcatProperties
    <2>. QED
      BY <1>11, <2>1, <2>2
  <1>14. w = WithoutPair(s, i, z)
    BY <1>1, <1>4, <1>6, <1>8, <1>10, <1>12 DEF WithoutPair
  <1>15. ASSUME NEW k \in 1..i PROVE w[k] = s[k]
    <2>1. k \in 1..n /\ k <= z - 2 /\ k \in 1..z - 2 /\ k <= i
      BY <1>2
    <2>. QED
      BY <1>5, <1>11, <1>13, <2>1
  <1>16. ASSUME NEW k \in i + 1..z - 2 PROVE w[k] = s[k + 2]
    <2>1. /\ k \in 1..n /\ k <= z - 2 /\ k \in 1..z - 2 /\ ~(k <= i)
          /\ k - i \in 1..z - i - 2 /\ i + 2 + (k - i) = k + 2
      BY <1>2
    <2>. QED
      BY <1>7, <1>11, <1>13, <2>1
  <1>17. w[z - 1] = s[z - 1]
    <2>1. /\ z - 1 \in 1..n /\ ~(z - 1 <= z - 2) /\ z - 1 - (z - 2) = 1
          /\ 1 \in 1..n - z + 2 /\ z - 2 + 1 = z - 1
      BY <1>2
    <2>. QED
      BY <1>9, <1>13, <2>1
  <1>. QED
    BY <1>1, <1>13, <1>14, <1>15, <1>16, <1>17 DEF Closed

\* With letters behind the cursor, Holds is about the stack of those reached.
HoldsStack(p, w, z, j, n, q, u) ==
  /\ q \in 1..n /\ j < z /\ Met(p, z, j) = q
  /\ u = Left(p)[q] /\ Len(u) = j + 1
  /\ \A k \in 1..j + 1 : w[k] = u[k]
  /\ \A k \in j + 2..z : w[k] = p[k + n - z]

LEMMA HoldsWithin ==
  ASSUME NEW p, NEW w, NEW z \in Nat, NEW j \in Nat, NEW n \in Nat, NEW q, NEW u, n = Len(p)
  PROVE  HoldsStack(p, w, z, j, n, q, u) => Holds(p, w, z, j)
  BY DEF Holds, HoldsStack

\* A pair that reacts before the end of the buffer is taken out, and the cursor
\* steps back to the last letter left, or on to the next one if none is.
LEMMA Removes ==
  ASSUME NEW p \in Seq(Letters), NEW byte \in Bytes, NEW s, NEW z \in Nat, NEW i \in Nat, NEW w, NEW j
  PROVE  /\ Fits(p, s, z, i)
         /\ Holds(p, s, z, i)
         /\ Stale(p, byte, s, z, i)
         /\ i < z
         /\ i + 1 < z
         /\ PairAt(s, i)
         /\ Closed(s, w, i, z)
         /\ j = IF i > 0 THEN i - 1 ELSE 0
         => /\ Fits(p, w, z - 2, j)
            /\ Holds(p, w, z - 2, j)
            /\ Stale(p, byte, w, z - 2, j)
            /\ j = z - 2 => ~TornPair(p) /\ ~MeetsNext(p, byte)
  <1>0. SUFFICES ASSUME Fits(p, s, z, i),
                        Holds(p, s, z, i),
                        Stale(p, byte, s, z, i),
                        i < z,
                        i + 1 < z,
                        PairAt(s, i),
                        Closed(s, w, i, z),
                        j = IF i > 0 THEN i - 1 ELSE 0
        PROVE  /\ Fits(p, w, z - 2, j)
               /\ Holds(p, w, z - 2, j)
               /\ Stale(p, byte, w, z - 2, j)
               /\ j = z - 2 => ~TornPair(p) /\ ~MeetsNext(p, byte)
    OBVIOUS
  <1>1. PICK n \in Nat : n = Len(p)
    BY LenProperties
  <1>2. /\ i \in Nat /\ z \in 0..n /\ i + 1 < z /\ z - 2 \in 0..n /\ j \in 0..z - 2
        /\ Len(s) = n + 1
    BY <1>0, <1>1 DEF Fits
  <1>3. PICK m \in 1..n, l \in Seq(Letters) :
          m = i + 1 + n - z /\ Reached(p, s, z, i, m, l)
    BY <1>0, <1>1, HasReached
  <1>4. /\ m = Met(p, z, i) /\ l = Left(p)[m] /\ Len(l) = i + 1
        /\ \A k \in 1..i + 1 : s[k] = l[k]
    BY <1>3 DEF Reached
  <1>5. m + 1 \in 1..n /\ s[i + 2] = p[m + 1]
    <2>1. m + 1 \in 1..n
      BY <1>2, <1>3
    <2>. QED
      BY <1>2, <1>3, <2>1 DEF Reached
  <1>6. PICK t \in Seq(Letters) : t = Left(p)[m + 1]
    <2>1. m + 1 \in 0..Len(p)
      BY <1>1, <1>5
    <2>. QED
      BY <2>1, LeftIs
  <1>7. Taken(l, p[m + 1], t)
    <2>1. m \in Nat
      OBVIOUS
    <2>2. Taken(l, p[m + 1], t) \/ Kept(l, p[m + 1], t)
      BY <1>1, <1>4, <1>5, <1>6, <2>1, NextStep
    <2>. QED
      BY <1>0, <1>2, <1>4, <1>5, <2>2 DEF Kept, PairAt
  <1>8. /\ w \in Seq(Bytes) /\ Len(w) = n + 1 /\ w[z - 1] = s[z - 1]
        /\ \A k \in 1..i : w[k] = s[k]
        /\ \A k \in i + 1..z - 2 : w[k] = s[k + 2]
    BY <1>0, <1>2 DEF Closed
  <1>9. Len(t) = i /\ \A k \in 1..i : w[k] = t[k]
    <2>1. Len(t) = i /\ \A k \in 1..i : t[k] = l[k]
      BY <1>2, <1>4, <1>7, SMTT(30) DEF Taken
    <2>2. \A k \in 1..i : k \in 1..i + 1
      BY <1>2
    <2>. QED
      BY <1>4, <1>8, <2>1, <2>2
  <1>10. \A k \in i + 1..z - 2 : w[k] = p[k + n - (z - 2)]
    <2>1. ASSUME NEW k \in i + 1..z - 2 PROVE w[k] = p[k + n - (z - 2)]
      <3>1. k + 2 \in i + 2..z /\ k + 2 + n - z = k + n - (z - 2)
        BY <1>2
      <3>. QED
        BY <1>0, <1>1, <1>2, <1>8, <3>1 DEF Holds
    <2>. QED
      BY <2>1
  <1>11. Fits(p, w, z - 2, j)
    BY <1>0, <1>1, <1>2, <1>8 DEF Fits
  <1>12. /\ z - 2 # n /\ z - 2 + 1 = z - 1
    BY <1>2
  <1>13. m < n - 1 => n > 2 /\ w[z - 1] = p[n - 1]
    <2>. SUFFICES ASSUME m < n - 1 PROVE n > 2 /\ s[z - 1] = p[n - 1]
      BY <1>8
    <2>1. z - 1 \in i + 2..z /\ z - 1 + n - z = n - 1 /\ n > 2
      BY <1>2, <1>3
    <2>. QED
      BY <1>0, <1>1, <1>2, <2>1 DEF Holds
  <1>14. CASE i > 0
    <2>1. j = i - 1 /\ j + 1 = i /\ j + 2 = i + 1 /\ j < z - 2
      BY <1>0, <1>2, <1>14
    <2>2. Met(p, z - 2, j) = m + 1
      BY <1>1, <1>2, <1>3, <2>1 DEF Met
    <2>3. Holds(p, w, z - 2, j)
      <3>1. z - 2 \in Nat /\ j \in Nat
        BY <1>2
      <3>2. \A k \in 1..j + 1 : w[k] = t[k]
        BY <1>9, <2>1
      <3>3. \A k \in j + 2..z - 2 : w[k] = p[k + n - (z - 2)]
        BY <1>10, <2>1
      <3>. QED
        <4>1. HoldsStack(p, w, z - 2, j, n, m + 1, t)
          BY <1>5, <1>6, <1>9, <2>1, <2>2, <3>2, <3>3 DEF HoldsStack
        <4>. QED
          BY <1>1, <3>1, <4>1, HoldsWithin
    <2>4. Stale(p, byte, w, z - 2, j)
      <3>1. CASE m < n - 1
        BY <1>0, <1>1, <1>3, <1>12, <1>13, <2>1, <2>2, <3>1 DEF Stale
      <3>2. CASE ~(m < n - 1)
        <4>1. m = n - 1 /\ m + 1 = n /\ z - 1 = i + 1
          BY <1>2, <1>3, <1>5, <3>2
        <4>2. Taken(Left(p)[n - 1], p[n], Left(p)[n])
          BY <1>4, <1>6, <1>7, <4>1
        <4>3. w[z - 1] = Left(p)[n - 1][Len(Left(p)[n - 1])]
          BY <1>4, <1>8, <4>1
        <4>. QED
          BY <1>0, <1>1, <1>12, <2>1, <2>2, <4>1, <4>2, <4>3 DEF Stale
      <3>. QED
        BY <3>1, <3>2
    <2>. QED
      BY <1>2, <1>11, <2>1, <2>3, <2>4
  <1>15. CASE i = 0 /\ z = 2
    <2>1. j = 0 /\ z - 2 = 0 /\ m + 1 = n
      BY <1>2, <1>3, <1>15
    <2>2. Len(Left(p)[n]) = 0
      BY <1>6, <1>9, <1>15, <2>1
    <2>3. Holds(p, w, z - 2, j)
      BY <1>0, <1>1, <2>1, <2>2 DEF Holds
    <2>4. Stale(p, byte, w, z - 2, j)
      BY <1>0, <1>1, <1>12, <2>1 DEF Stale
    <2>5. ~TornPair(p)
      BY <1>1, <2>2, TornStays
    <2>6. ~MeetsNext(p, byte)
      BY <1>1, <1>5, <2>2 DEF MeetsNext, Reduced
    <2>. QED
      BY <1>11, <2>3, <2>4, <2>5, <2>6
  <1>16. CASE i = 0 /\ z # 2
    <2>1. j = 0 /\ 0 < z - 2 /\ m + 2 \in 1..n /\ m + 2 - 1 = m + 1 /\ m + 2 = 1 + n - (z - 2)
      BY <1>0, <1>2, <1>3, <1>16
    <2>2. Met(p, z - 2, j) = m + 2
      BY <1>1, <1>2, <1>3, <1>16, <2>1 DEF Met
    <2>3. PICK u \in Seq(Letters) : u = Left(p)[m + 2]
      <3>1. m + 2 \in 0..Len(p)
        BY <1>1, <2>1
      <3>. QED
        BY <3>1, LeftIs
    <2>4. Kept(t, p[m + 2], u)
      <3>1. Taken(t, p[m + 2], u) \/ Kept(t, p[m + 2], u)
        BY <1>1, <1>6, <2>1, <2>3, LeftSteps
      <3>. QED
        BY <1>9, <1>16, <3>1 DEF Taken
    <2>5. Len(u) = 1 /\ u[1] = p[m + 2]
      BY <1>9, <1>16, <2>4 DEF Kept
    <2>6. w[1] = p[m + 2]
      <3>1. 1 \in i + 1..z - 2
        BY <1>2, <1>16, <2>1
      <3>. QED
        BY <1>10, <2>1, <3>1
    <2>7. \A k \in 0 + 2..z - 2 : w[k] = p[k + n - (z - 2)]
      BY <1>2, <1>10, <1>16
    <2>8. \A k \in 1..0 + 1 : w[k] = u[k]
      BY <2>5, <2>6
    <2>9. Holds(p, w, z - 2, j)
      <3>1. z - 2 \in Nat /\ j \in Nat /\ j + 1 = 0 + 1 /\ j + 2 = 0 + 2 /\ j < z - 2
        BY <1>2, <2>1
      <3>2. /\ \A k \in 1..j + 1 : w[k] = u[k]
            /\ \A k \in j + 2..z - 2 : w[k] = p[k + n - (z - 2)]
        BY <2>7, <2>8, <3>1
      <3>3. m + 2 \in 1..n /\ Len(u) = j + 1
        BY <2>1, <2>5, <3>1
      <3>. QED
        <4>1. HoldsStack(p, w, z - 2, j, n, m + 2, u)
          BY <2>2, <2>3, <3>1, <3>2, <3>3 DEF HoldsStack
        <4>. QED
          BY <1>1, <3>1, <4>1, HoldsWithin
    <2>10. Stale(p, byte, w, z - 2, j)
      <3>1. m < n - 1
        BY <1>3, <2>1
      <3>2. m + 2 = n => Kept(Left(p)[n - 1], p[n], Left(p)[n])
        <4>1. m + 2 = n => m + 1 = n - 1
          BY <1>3
        <4>. QED
          BY <1>6, <2>3, <2>4, <4>1
      <3>. QED
        BY <1>0, <1>1, <1>12, <1>13, <2>2, <3>1, <3>2 DEF Stale
    <2>. QED
      BY <1>11, <2>1, <2>9, <2>10
  <1>. QED
    BY <1>2, <1>14, <1>15, <1>16
-----------------------------------------------------------------------------
(* The theorem.                                                            *)

\* The loop ends with no reaction missed, and memmove runs wild only in one of
\* the two cases.
Ends ==
  /\ state \in {"reducing", "printed", "wild"}
  /\ state # "wild" /\ pos = string_size => ~TornPair(polymer) /\ ~MeetsNext(polymer, next)
  /\ state = "wild" => TornPair(polymer) \/ MeetsNext(polymer, next)
  /\ state = "printed" => pos = string_size

IInv ==
  /\ polymer \in Seq(Letters) /\ Len(polymer) > 0 /\ next \in Bytes
  /\ Fits(polymer, string, string_size, pos)
  /\ Holds(polymer, string, string_size, pos)
  /\ Stale(polymer, next, string, string_size, pos)
  /\ Ends

LEMMA InitReduces ==
  ASSUME PolymerInit PROVE IInv
  <1>1. PICK n \in 1..MaxUnits : polymer \in [1..n -> Letters]
    BY DEF PolymerInit, Polymers
  <1>2. polymer \in Seq(Letters) /\ Len(polymer) = n /\ n > 0
    BY <1>1
  <1>3. next \in Bytes /\ string = Append(polymer, next) /\ string_size = Len(polymer)
        /\ pos = 0 /\ state = "reducing"
    BY DEF PolymerInit, Bytes
  <1>4. Ends
    BY <1>2, <1>3 DEF Ends
  <1>. QED
    BY <1>2, <1>3, <1>4, Starts DEF IInv

LEMMA NextReduces ==
  ASSUME IInv, [PolymerNext]_polymerVars PROVE IInv'
  <1>. USE DEF IInv
  <1>1. polymer \in Seq(Letters) /\ next \in Bytes /\ string_size \in Nat /\ pos \in Nat
        /\ pos <= string_size
    BY LenProperties DEF Fits
  <1>2. CASE PassUnit
    <2>1. /\ pos < string_size /\ ~PairAt(string, pos) /\ pos' = pos + 1
          /\ state = "reducing"
          /\ UNCHANGED <<polymer, next, string, string_size, state>>
      BY <1>2 DEF PassUnit, Pair, PairAt
    <2>2. /\ Fits(polymer, string, string_size, pos + 1)
          /\ Holds(polymer, string, string_size, pos + 1)
          /\ Stale(polymer, next, string, string_size, pos + 1)
          /\ pos + 1 = string_size => ~TornPair(polymer) /\ ~MeetsNext(polymer, next)
      BY <1>1, <2>1, Passes
    <2>3. Ends'
      BY <2>1, <2>2 DEF Ends
    <2>. QED
      BY <2>1, <2>2, <2>3
  <1>3. CASE RemovePair
    <2>1. /\ pos < string_size /\ PairAt(string, pos) /\ pos # string_size - 1
          /\ string' = WithoutPair(string, pos, string_size)
          /\ string_size' = string_size - 2 /\ pos' = StepBack(pos)
          /\ state = "reducing"
          /\ UNCHANGED <<polymer, next, state>>
      BY <1>3 DEF RemovePair, Pair, PairAt
    <2>2. pos + 1 < string_size
      BY <1>1, <2>1
    <2>3. Closed(string, string', pos, string_size)
      BY <1>1, <2>1, <2>2, WithoutPairIs
    <2>4. pos' = IF pos > 0 THEN pos - 1 ELSE 0
      BY <2>1 DEF StepBack
    <2>5. /\ Fits(polymer, string', string_size - 2, pos')
          /\ Holds(polymer, string', string_size - 2, pos')
          /\ Stale(polymer, next, string', string_size - 2, pos')
          /\ pos' = string_size - 2 => ~TornPair(polymer) /\ ~MeetsNext(polymer, next)
      BY <1>1, <2>1, <2>2, <2>3, <2>4, Removes
    <2>6. Ends'
      BY <2>1, <2>5 DEF Ends
    <2>. QED
      BY <2>1, <2>5, <2>6
  <1>4. CASE RemoveBeyond
    <2>1. /\ pos < string_size /\ PairAt(string, pos) /\ pos = string_size - 1
          /\ state' = "wild"
          /\ UNCHANGED <<polymer, next, string, string_size, pos>>
      BY <1>4 DEF RemoveBeyond, Pair, PairAt
    <2>2. pos + 1 = string_size
      BY <1>1, <2>1
    <2>3. TornPair(polymer) \/ MeetsNext(polymer, next)
      BY <1>1, <2>1, <2>2, GoesBeyond
    <2>4. Ends'
      BY <2>1, <2>3 DEF Ends
    <2>. QED
      BY <2>1, <2>4
  <1>5. CASE PrintSize
    <2>1. /\ pos >= string_size /\ state = "reducing" /\ state' = "printed"
          /\ UNCHANGED <<polymer, next, string, string_size, pos>>
      BY <1>5 DEF PrintSize
    <2>2. pos = string_size
      BY <1>1, <2>1
    <2>3. Ends'
      BY <2>1, <2>2 DEF Ends
    <2>. QED
      BY <2>1, <2>3
  <1>6. CASE UNCHANGED polymerVars
    BY <1>6 DEF polymerVars, Ends
  <1>. QED
    BY <1>2, <1>3, <1>4, <1>5, <1>6 DEF PolymerNext, Reacted

LEMMA ReducesInv ==
  ASSUME IInv PROVE PolymerReduced
  <1>1. ASSUME state = "printed"
        PROVE  SubSeq(string, 1, string_size) = Reduced(polymer)
    <2>1. PICK n \in Nat : n = Len(polymer)
      BY LenProperties DEF IInv
    <2>2. PICK l \in Seq(Letters) : l = Left(polymer)[n]
      BY <2>1, LeftIs DEF IInv
    <2>3. pos = string_size /\ string_size \in 0..n
      BY <1>1, <2>1 DEF IInv, Ends, Fits
    <2>4. Len(l) = string_size /\ \A k \in 1..string_size : string[k] = l[k]
      BY <2>1, <2>2, <2>3 DEF IInv, Holds
    <2>5. PICK z \in Nat : z = string_size
      BY <2>3
    <2>6. \A k \in 1..z : string[k] \in Letters
      BY <2>4, <2>5, ElementOfSeq
    <2>7. PICK t : t = SubSeq(string, 1, z)
      OBVIOUS
    <2>8. /\ t \in Seq(Letters) /\ Len(t) = IF 1 <= z THEN z - 1 + 1 ELSE 0
          /\ \A k \in 1..z - 1 + 1 : t[k] = string[1 + k - 1]
      BY <2>5, <2>6, <2>7, SubSeqProperties
    <2>9. Len(t) = z /\ \A k \in 1..z : t[k] = string[k]
      BY <2>5, <2>8
    <2>10. Len(t) = Len(l) /\ \A k \in 1..Len(t) : t[k] = l[k]
      BY <2>4, <2>5, <2>9
    <2>11. t = l
      BY <2>8, <2>10, SeqEqual
    <2>. QED
      BY <2>1, <2>2, <2>5, <2>7, <2>11 DEF Reduced
  <1>2. state # "reducing" =>
          (state = "wild" <=> TornPair(polymer) \/ MeetsNext(polymer, next))
    BY DEF IInv, Ends
  <1>. QED
    BY <1>1, <1>2 DEF PolymerReduced

\* What aoc5.c prints is the length of what a stack would leave of the polymer, for
\* polymers of any length over any alphabet, and memmove is called with a number of
\* bytes below zero in exactly the two cases.
THEOREM BufferIsReduced == PolymerSpec => []PolymerReduced
  <1>1. PolymerInit => IInv
    BY InitReduces
  <1>2. IInv /\ [PolymerNext]_polymerVars => IInv'
    BY NextReduces
  <1>3. IInv => PolymerReduced
    BY ReducesInv
  <1>. QED
    BY <1>1, <1>2, <1>3, PTL DEF PolymerSpec
-----------------------------------------------------------------------------
(* The closest pair: what a call of divide_conquer is known to return.     *)

\* The calls, with a best distance that is a number
Calls == [from : Nat, count : Nat, at : {"enter", "compare", "left", "right", "split"}, best : Nat]

\* d is not less than the distance of two of the points.
Sound(o, d) ==
  d = DblMax \/ \E k, l \in 1..Len(o) : k # l /\ d = Dist(o[k], o[l])

\* The pair is not nearer than d, unless one of its points may be overwritten or
\* they are in one place.
Below(o, d, k, l) ==
  (IF Len(o) <= 3 THEN 1 ELSE 3) <= k /\ 0 < Dist(o[k], o[l]) => d <= Dist(o[k], o[l])

\* Nothing among the points from a place on is nearer than d.
Covers(o, d, from, count) ==
  \A k, l \in from..from + count - 1 : k < l => Below(o, d, k, l)

\* What a call on count points returns.
Returned(o, d, from, count) ==
  d \in Nat /\ Sound(o, d) /\ Covers(o, d, from, count) /\ (count >= 2 => d < DblMax)

\* The part of the points a call is on, and what it knows of its halves
CallFits(o, c) ==
  /\ c \in Calls
  /\ 1 <= c.from /\ 1 <= c.count /\ Beyond(c) <= Len(o) + 1
  /\ c.from = 2 => c.count = 2
  /\ c.at \in {"left", "right", "split"} => 3 <= c.count
  /\ c.at = "right" => Returned(o, c.best, c.from, Half(c))
  /\ c.at = "split" => /\ Sound(o, c.best) /\ c.best < DblMax
                       /\ Covers(o, c.best, c.from, Half(c))
                       /\ Covers(o, c.best, c.from + Half(c), c.count - Half(c))

\* b is the half of c that c has called for.
InHalf(c, b) ==
  \/ c.at = "left" /\ b.from = c.from /\ b.count = Half(c)
  \/ c.at = "right" /\ b.from = c.from + Half(c) /\ b.count = c.count - Half(c)

\* Each call is of the half its caller has asked for, the first of all points.
Nested(o, s) ==
  /\ s \in Seq(Calls)
  /\ \A k \in 1..Len(s) : CallFits(o, s[k])
  /\ \A k \in 1..Len(s) - 1 : InHalf(s[k], s[k + 1])
  /\ Len(s) > 0 => s[1].from = 1 /\ s[1].count = Len(o)

\* The loops of brute_force and of the split
Searching(o, c, r, m, d) ==
  /\ r \in c.from..Beyond(c) - 1 /\ m \in r + 1..Beyond(c)
  /\ m = Beyond(c) => r = Beyond(c) - 1
  /\ d \in Nat /\ Sound(o, d)
  /\ \A k, l \in c.from..Beyond(c) - 1 :
       k < l /\ (k < r \/ (k = r /\ l < m)) => d <= Dist(o[k], o[l])

\* The last call is replaced.
TopBecomes(s, c, t) == t = [s EXCEPT ![Len(s)] = c]

\* The next pair of the loops
NextPair(c, r, m, rr, mm) ==
  IF m + 1 < Beyond(c) THEN rr = r /\ mm = m + 1 ELSE rr = r + 1 /\ mm = r + 2

NextAcross(c, r, m, rr, mm) ==
  IF m + 1 < Beyond(c) THEN rr = r /\ mm = m + 1 ELSE rr = r + 1 /\ mm = c.from + Half(c)

\* The loops over the pairs across the middle
Splitting(o, c, r, m, d) ==
  /\ r \in c.from..c.from + Half(c) /\ m \in c.from + Half(c)..Beyond(c) - 1
  /\ d \in Nat /\ 0 < d /\ Sound(o, d)
  /\ \A k \in c.from..c.from + Half(c) - 1, l \in c.from + Half(c)..Beyond(c) - 1 :
       k < r \/ (k = r /\ l < m) => Below(o, d, k, l)

\* Which points nothing has overwritten yet.
Fresh(o, p, c, r, m) ==
  /\ c.at \in {"enter", "compare"} /\ c.from <= 2 => p = o
  /\ c.at \in {"left", "right"} /\ c.from = 1 /\ c.count = 3 => p = o
  /\ c.at = "split" /\ c.from = 1 /\ c.count = 3 => p[1] = o[1] /\ (r = 1 /\ m = 2 => p = o)

\* What the loops and the variable hold for the call on top
TopFits(o, p, c, r, m, d) ==
  /\ c.at = "compare" => Searching(o, c, r, m, d)
  /\ c.at = "left" => Returned(o, d, c.from, Half(c))
  /\ c.at = "right" => Returned(o, d, c.from + Half(c), c.count - Half(c))
  /\ c.at = "split" => Splitting(o, c, r, m, d)
  /\ Fresh(o, p, c, r, m)

\* Only the first two places are written, with points there are.
Overwritten(o, p) ==
  /\ p \in [1..Len(o) -> Points]
  /\ \A k \in 3..Len(o) : p[k] = o[k]
  /\ \A k \in 1..Len(o) : \E l \in 1..Len(o) : p[k] = o[l]

\* qsort
Rearranged(h, o) ==
  /\ h \in [1..Len(o) -> Points]
  /\ \E f \in [1..Len(o) -> 1..Len(o)] :
       IsInjective(f) /\ \A k \in 1..Len(o) : o[k] = h[f[k]]

\* The inductive invariant
HouseInv ==
  /\ order \in Seq(Points) /\ Len(order) >= 2
  /\ Rearranged(houses, order)
  /\ Overwritten(order, points)
  /\ Nested(order, calls)
  /\ stage \in {"naive", "dividing", "done"}
  /\ stage = "naive" => /\ points = order /\ houses = order
                        /\ calls = <<Level(1, Len(order), "compare")>>
  /\ stage # "naive" /\ SearchesAll => IsClosest(naive, houses)
  /\ stage = "done" => Returned(order, distance, 1, Len(order))
  /\ stage # "done" => /\ Len(calls) > 0
                       /\ TopFits(order, points, Top, row, column, distance)
-----------------------------------------------------------------------------
LEMMA DistIs ==
  ASSUME NEW p \in Points, NEW q \in Points
  PROVE  /\ Dist(p, q) \in Nat /\ Dist(p, q) < DblMax
         /\ Dist(p, q) = Dist(q, p) /\ Dist(p, p) = 0
  <1>1. p \in [x : Int, y : Int] /\ q \in [x : Int, y : Int]
    BY HousesAssumption
  <1>2. PICK x \in Int, y \in Int :
          x = p.x - q.x /\ y = p.y - q.y /\ -x = q.x - p.x /\ -y = q.y - p.y
    BY <1>1
  <1>3. x * x >= 0 /\ y * y >= 0 /\ (-x) * (-x) = x * x /\ (-y) * (-y) = y * y
    BY <1>2
  <1>4. Dist(p, q) = x * x + y * y /\ Dist(q, p) = (-x) * (-x) + (-y) * (-y)
    BY <1>2 DEF Dist
  <1>5. Dist(p, p) = 0
    BY <1>1 DEF Dist
  <1>6. x * x \in Int /\ y * y \in Int
    BY <1>2
  <1>. QED
    BY <1>3, <1>4, <1>5, <1>6, HousesAssumption

\* The distances of the points in the order of x
LEMMA PlacesAre ==
  ASSUME NEW o \in Seq(Points)
  PROVE  \A k, l \in 1..Len(o) :
           /\ o[k] \in Points /\ o[l] \in Points
           /\ Dist(o[k], o[l]) \in Nat /\ Dist(o[k], o[l]) < DblMax
           /\ Dist(o[k], o[l]) = Dist(o[l], o[k]) /\ Dist(o[k], o[k]) = 0
  <1>1. ASSUME NEW k \in 1..Len(o), NEW l \in 1..Len(o)
        PROVE  /\ o[k] \in Points /\ o[l] \in Points
               /\ Dist(o[k], o[l]) \in Nat /\ Dist(o[k], o[l]) < DblMax
               /\ Dist(o[k], o[l]) = Dist(o[l], o[k]) /\ Dist(o[k], o[k]) = 0
    <2>1. o[k] \in Points /\ o[l] \in Points
      BY ElementOfSeq
    <2>. QED
      BY <2>1, DistIs
  <1>. QED
    BY <1>1

\* Each half of three points or more has a point, the right one two.
LEMMA HalfIs ==
  ASSUME NEW c \in Calls, 3 <= c.count
  PROVE  /\ c.from \in Nat /\ c.count \in Nat /\ Half(c) \in Nat
         /\ 1 <= Half(c) /\ c.count - Half(c) \in Nat /\ 2 <= c.count - Half(c)
         /\ Half(c) = 1 <=> c.count = 3
  BY DEF Calls, Half

-----------------------------------------------------------------------------
(* The loops.                                                              *)

\* No pair is compared before the loops begin.
LEMMA SearchStarts ==
  ASSUME NEW o \in Seq(Points), NEW c, CallFits(o, c)
  PROVE  Searching(o, c, c.from, c.from + 1, DblMax)
  <1>1. c.from \in Nat /\ c.count \in Nat /\ 1 <= c.count
    BY DEF CallFits, Calls
  <1>2. DblMax \in Nat
    BY HousesAssumption
  <1>. QED
    BY <1>1, <1>2 DEF Searching, Beyond, Sound

\* Comparing the pair they are at keeps what is known of the loops.
LEMMA SearchGoes ==
  ASSUME NEW o \in Seq(Points), NEW c, NEW r, NEW m, NEW d, NEW e, NEW x, NEW rr, NEW mm
  PROVE  /\ CallFits(o, c)
         /\ Searching(o, c, r, m, d)
         /\ m < Beyond(c)
         /\ e = Dist(o[r], o[m]) /\ x = (IF e < d THEN e ELSE d)
         /\ NextPair(c, r, m, rr, mm)
         => Searching(o, c, rr, mm, x)
  <1>0. SUFFICES ASSUME CallFits(o, c),
                        Searching(o, c, r, m, d),
                        m < Beyond(c),
                        e = Dist(o[r], o[m]), x = (IF e < d THEN e ELSE d),
                        NextPair(c, r, m, rr, mm)
        PROVE  Searching(o, c, rr, mm, x)
    OBVIOUS
  <1>1. PICK f \in Nat, b \in Nat, n \in Nat :
          f = c.from /\ b = Beyond(c) /\ n = Len(o) /\ 1 <= f /\ f < b /\ b <= n + 1
    BY <1>0, LenProperties DEF CallFits, Calls, Beyond
  <1>2. r \in f..b - 1 /\ m \in r + 1..b - 1 /\ d \in Nat /\ Sound(o, d)
    BY <1>0, <1>1 DEF Searching
  <1>3. r \in 1..n /\ m \in 1..n /\ r # m
    BY <1>1, <1>2
  <1>4. e \in Nat /\ Sound(o, e)
    BY <1>0, <1>1, <1>3, PlacesAre DEF Sound
  <1>5. x \in Nat /\ x <= d /\ x <= e /\ Sound(o, x)
    BY <1>0, <1>2, <1>4
  <1>A. 1 <= f /\ f < b /\ b <= n + 1
    BY <1>1
  <1>B. m < b /\ IF m + 1 < b THEN rr = r /\ mm = m + 1 ELSE rr = r + 1 /\ mm = r + 2
    BY <1>0, <1>1 DEF NextPair
  <1>6. rr \in f..b - 1 /\ mm \in rr + 1..b /\ (mm = b => rr = b - 1)
    BY <1>2, <1>A, <1>B
  <1>7. ASSUME NEW k \in f..b - 1, NEW l \in f..b - 1, k < l, k < rr \/ (k = rr /\ l < mm)
        PROVE  x <= Dist(o[k], o[l])
    <2>1. Dist(o[k], o[l]) \in Nat
      <3>1. k \in 1..Len(o) /\ l \in 1..Len(o)
        <4>1. k \in 1..n /\ l \in 1..n
          BY <1>A
        <4>. QED
          BY <1>1, <4>1
      <3>. QED
        BY <3>1, PlacesAre
    <2>2. CASE k = r /\ l = m
      BY <1>0, <1>5, <2>2
    <2>3. CASE ~(k = r /\ l = m)
      <3>1. k < r \/ (k = r /\ l < m)
        BY <1>2, <1>7, <1>A, <1>B, <2>3
      <3>2. d <= Dist(o[k], o[l])
        BY <1>0, <1>1, <1>7, <3>1 DEF Searching
      <3>. QED
        BY <1>2, <1>5, <2>1, <3>2
    <2>. QED
      BY <2>2, <2>3
  <1>. QED
    BY <1>1, <1>5, <1>6, <1>7 DEF Searching

\* When the loops end all pairs are compared.
LEMMA SearchEnds ==
  ASSUME NEW o \in Seq(Points), NEW c, NEW r, NEW m, NEW d
  PROVE  /\ CallFits(o, c)
         /\ Searching(o, c, r, m, d)
         /\ ~(m < Beyond(c))
         => /\ \A k, l \in c.from..Beyond(c) - 1 : k < l => d <= Dist(o[k], o[l])
            /\ Returned(o, d, c.from, c.count)
  <1>0. SUFFICES ASSUME CallFits(o, c),
                        Searching(o, c, r, m, d),
                        ~(m < Beyond(c))
        PROVE  /\ \A k, l \in c.from..Beyond(c) - 1 : k < l => d <= Dist(o[k], o[l])
               /\ Returned(o, d, c.from, c.count)
    OBVIOUS
  <1>1. PICK f \in Nat, b \in Nat, n \in Nat :
          /\ f = c.from /\ b = Beyond(c) /\ n = Len(o) /\ 1 <= f /\ f < b /\ b <= n + 1
          /\ b = f + c.count /\ b - 1 = c.from + c.count - 1
    BY <1>0, LenProperties DEF CallFits, Calls, Beyond
  <1>2. r \in f..b - 1 /\ m = b /\ r = b - 1 /\ d \in Nat /\ Sound(o, d)
    BY <1>0, <1>1 DEF Searching
  <1>3. ASSUME NEW k \in f..b - 1, NEW l \in f..b - 1, k < l PROVE d <= Dist(o[k], o[l])
    <2>1. k < r
      BY <1>1, <1>2, <1>3
    <2>. QED
      BY <1>0, <1>1, <1>3, <2>1 DEF Searching
  <1>4. Covers(o, d, c.from, c.count)
    <2>2. \A k, l \in f..b - 1 : k < l => Below(o, d, k, l)
      BY <1>3 DEF Below
    <2>. QED
      BY <1>1, <2>2 DEF Covers
  <1>5. ASSUME c.count >= 2 PROVE d < DblMax
    <2>0. PICK q \in Nat : q = c.count
      BY <1>0 DEF CallFits, Calls
    <2>1. 1 <= f /\ 2 <= q /\ b = f + q /\ b <= n + 1
      BY <1>1, <1>5, <2>0
    <2>2. f \in f..b - 1 /\ f + 1 \in f..b - 1 /\ f < f + 1 /\ f \in 1..n /\ f + 1 \in 1..n
      BY <2>1
    <2>3. d <= Dist(o[f], o[f + 1])
      BY <1>3, <2>2
    <2>4. Dist(o[f], o[f + 1]) \in Nat /\ Dist(o[f], o[f + 1]) < DblMax
      BY <1>1, <2>2, PlacesAre
    <2>. QED
      BY <1>2, <2>3, <2>4, HousesAssumption
  <1>. QED
    BY <1>1, <1>2, <1>3, <1>4, <1>5 DEF Returned

\* The loops over the pairs across the middle: what is below d stays so.
LEMMA SplitStarts ==
  ASSUME NEW o \in Seq(Points), Len(o) >= 2, NEW c, CallFits(o, c), c.count >= 3
  PROVE  Splitting(o, c, c.from, c.from + Half(c), DblMax)
  <1>1. c \in Calls /\ c.from \in Nat /\ c.count \in Nat
    BY DEF CallFits, Calls
  <1>2. PICK f \in Nat, h \in Nat, b \in Nat :
          /\ f = c.from /\ h = Half(c) /\ b = Beyond(c) /\ 1 <= f /\ 1 <= h /\ f + h <= b - 1
    BY <1>1, HalfIs DEF CallFits, Beyond
  <1>3. DblMax \in Nat /\ 0 < DblMax
    <2>1. 1 \in 1..Len(o)
      BY LenProperties
    <2>. QED
      BY <2>1, PlacesAre, HousesAssumption
  <1>4. f \in f..f + h /\ f + h \in f + h..b - 1
    BY <1>2
  <1>5. ASSUME NEW k \in f..f + h - 1, NEW l \in f + h..b - 1, k < f \/ (k = f /\ l < f + h)
        PROVE FALSE
    BY <1>5
  <1>. QED
    BY <1>2, <1>3, <1>4, <1>5 DEF Splitting, Sound

\* A pair that the split compares, of points that may have been overwritten
LEMMA AcrossSound ==
  ASSUME NEW o \in Seq(Points), NEW p, Overwritten(o, p), NEW r \in 1..Len(o), NEW m \in 1..Len(o)
  PROVE  /\ Dist(p[r], p[m]) \in Nat
         /\ 0 < Dist(p[r], p[m]) => Sound(o, Dist(p[r], p[m]))
  <1>1. PICK k \in 1..Len(o), l \in 1..Len(o) : p[r] = o[k] /\ p[m] = o[l]
    BY DEF Overwritten
  <1>2. Dist(o[k], o[l]) \in Nat /\ Dist(o[k], o[k]) = 0
    BY PlacesAre
  <1>. QED
    BY <1>1, <1>2 DEF Sound

\* Comparing a pair across the middle keeps what is known of the loops, although it
\* may write on the points.
LEMMA SplitGoes ==
  ASSUME NEW o \in Seq(Points), NEW p, NEW c, NEW r, NEW m, NEW d, NEW e, NEW x, NEW rr, NEW mm
  PROVE  /\ Overwritten(o, p)
         /\ CallFits(o, c)
         /\ c.at = "split"
         /\ Splitting(o, c, r, m, d)
         /\ Fresh(o, p, c, r, m)
         /\ r < c.from + Half(c)
         /\ e = Dist(p[r], p[m]) /\ x = (IF Nearer(e, d) THEN e ELSE d)
         /\ NextAcross(c, r, m, rr, mm)
         => Splitting(o, c, rr, mm, x)
  <1>0. SUFFICES ASSUME Overwritten(o, p),
                        CallFits(o, c),
                        c.at = "split",
                        Splitting(o, c, r, m, d),
                        Fresh(o, p, c, r, m),
                        r < c.from + Half(c),
                        e = Dist(p[r], p[m]), x = (IF Nearer(e, d) THEN e ELSE d),
                        NextAcross(c, r, m, rr, mm)
        PROVE  Splitting(o, c, rr, mm, x)
    OBVIOUS
  <1>1. c \in Calls /\ c.from \in Nat /\ c.count \in Nat /\ c.count >= 3
    BY <1>0 DEF CallFits, Calls
  <1>2. PICK f \in Nat, h \in Nat, b \in Nat, n \in Nat :
          /\ f = c.from /\ h = Half(c) /\ b = Beyond(c) /\ n = Len(o)
          /\ 1 <= f /\ 1 <= h /\ f + h <= b - 1 /\ b <= n + 1
          /\ f = 1 /\ b = 4 => h = 1 /\ c.count = 3
          /\ 3 <= b - f
    <2>1. /\ Half(c) \in Nat /\ 1 <= Half(c) /\ c.count - Half(c) \in Nat
          /\ 2 <= c.count - Half(c) /\ (c.count = 3 => Half(c) = 1) /\ Len(o) \in Nat
      BY <1>1, HalfIs, LenProperties
    <2>2. 1 <= c.from /\ c.from + c.count <= Len(o) + 1
      BY <1>0 DEF CallFits, Beyond
    <2>3. \A i, j, q \in Nat :
            /\ 3 <= j /\ j - q \in Nat /\ 2 <= j - q
            => /\ i + j \in Nat /\ i + q <= (i + j) - 1 /\ 3 <= (i + j) - i
               /\ i = 1 /\ i + j = 4 => j = 3
      OBVIOUS
    <2>. QED
      BY <1>1, <2>1, <2>2, <2>3 DEF Beyond
  <1>A. 1 <= f /\ 1 <= h /\ f + h <= b - 1 /\ b <= n + 1
    BY <1>2
  <1>B. IF m + 1 < b THEN rr = r /\ mm = m + 1 ELSE rr = r + 1 /\ mm = f + h
    BY <1>0, <1>2 DEF NextAcross
  <1>3. r \in f..f + h - 1 /\ m \in f + h..b - 1 /\ d \in Nat /\ 0 < d /\ Sound(o, d)
    <2>1. /\ r \in f..f + h /\ r < f + h
          /\ m \in f + h..b - 1 /\ d \in Nat /\ 0 < d /\ Sound(o, d)
      BY <1>0, <1>2 DEF Splitting
    <2>. QED
      BY <1>A, <2>1
  <1>4. r \in 1..n /\ m \in 1..n /\ r < m
    BY <1>3, <1>A
  <1>5. e \in Nat /\ (0 < e => Sound(o, e))
    BY <1>0, <1>2, <1>4, AcrossSound
  <1>6. x \in Nat /\ x <= d /\ 0 < x /\ Sound(o, x) /\ (0 < e => x <= e)
    BY <1>0, <1>3, <1>5 DEF Nearer
  <1>7. rr \in f..f + h /\ mm \in f + h..b - 1
    BY <1>3, <1>A, <1>B
  <1>8. Below(o, x, r, m)
    <2>. SUFFICES ASSUME (IF n <= 3 THEN 1 ELSE 3) <= r PROVE p[r] = o[r] /\ p[m] = o[m]
      BY <1>0, <1>2, <1>5, <1>6 DEF Below
    <2>1. CASE n <= 3
      <3>0. 1 <= f /\ b <= n + 1 /\ 3 <= b - f
        BY <1>2
      <3>1. f = 1 /\ b = 4 /\ n = 3
        BY <2>1, <3>0
      <3>2. c.count = 3 /\ c.from = 1 /\ r = 1 /\ (m = 2 \/ m = 3)
        <4>1. h = 1 /\ c.count = 3 /\ c.from = 1
          BY <1>2, <3>1
        <4>. QED
          BY <1>3, <3>1, <4>1
      <3>. QED
        BY <1>0, <1>2, <3>1, <3>2 DEF Fresh, Overwritten
    <2>2. CASE ~(n <= 3)
      <3>1. r \in 3..n /\ m \in 3..n
        BY <1>4, <2>2
      <3>. QED
        BY <1>0, <1>2, <3>1 DEF Overwritten
    <2>. QED
      BY <2>1, <2>2
  <1>9. ASSUME NEW k \in f..f + h - 1, NEW l \in f + h..b - 1, k < rr \/ (k = rr /\ l < mm)
        PROVE  Below(o, x, k, l)
    <2>1. CASE k = r /\ l = m
      BY <1>8, <2>1
    <2>2. CASE ~(k = r /\ l = m)
      <3>1. k < r \/ (k = r /\ l < m)
        BY <1>3, <1>9, <1>A, <1>B, <2>2
      <3>2. Below(o, d, k, l)
        BY <1>0, <1>2, <1>9, <3>1 DEF Splitting
      <3>3. k \in 1..Len(o) /\ l \in 1..Len(o)
        <4>1. k \in 1..n /\ l \in 1..n
          BY <1>A
        <4>. QED
          BY <1>2, <4>1
      <3>4. Dist(o[k], o[l]) \in Nat
        BY <3>3, PlacesAre
      <3>. QED
        BY <1>3, <1>6, <3>2, <3>4 DEF Below
    <2>. QED
      BY <2>1, <2>2
  <1>. QED
    BY <1>2, <1>6, <1>7, <1>9 DEF Splitting

\* What a call returns when its loop has ended
LEMMA SplitEnds ==
  ASSUME NEW o \in Seq(Points), NEW c, NEW r, NEW m, NEW d, NEW x
  PROVE  /\ CallFits(o, c)
         /\ c.at = "split"
         /\ Splitting(o, c, r, m, d)
         /\ ~(r < c.from + Half(c)) /\ x = (IF Nearer(d, c.best) THEN d ELSE c.best)
         => Returned(o, x, c.from, c.count)
  <1>0. SUFFICES ASSUME CallFits(o, c),
                        c.at = "split",
                        Splitting(o, c, r, m, d),
                        ~(r < c.from + Half(c)), x = (IF Nearer(d, c.best) THEN d ELSE c.best)
        PROVE  Returned(o, x, c.from, c.count)
    OBVIOUS
  <1>1. c \in Calls /\ c.from \in Nat /\ c.count \in Nat /\ c.best \in Nat /\ c.count >= 3
        /\ 1 <= c.from /\ c.from + c.count <= Len(o) + 1
    BY <1>0 DEF CallFits, Calls, Beyond
  <1>2. PICK f \in Nat, h \in Nat, b \in Nat, n \in Nat :
          /\ f = c.from /\ h = Half(c) /\ b = Beyond(c) /\ n = Len(o)
          /\ 1 <= f /\ 1 <= h /\ f + h <= b - 1 /\ b <= n + 1
          /\ b - 1 = c.from + c.count - 1
    <2>1. /\ Half(c) \in Nat /\ 1 <= Half(c)
          /\ c.count - Half(c) \in Nat /\ 2 <= c.count - Half(c)
      <3>1. 3 <= c.count
        BY <1>1
      <3>. QED
        BY <1>1, <3>1, HalfIs
    <2>2. Len(o) \in Nat /\ Beyond(c) = c.from + c.count /\ c.from + c.count \in Nat
      BY <1>1, LenProperties DEF Beyond
    <2>4. /\ c.from \in Nat /\ Half(c) \in Nat /\ Beyond(c) \in Nat /\ Len(o) \in Nat
          /\ 1 <= c.from /\ 1 <= Half(c) /\ c.from + Half(c) <= Beyond(c) - 1
          /\ Beyond(c) <= Len(o) + 1 /\ Beyond(c) - 1 = c.from + c.count - 1
      <3>1. c.from \in Nat /\ Half(c) \in Nat /\ Beyond(c) \in Nat /\ Len(o) \in Nat
        BY <1>1, <2>1, <2>2, Zenon
      <3>2. c.from + Half(c) <= Beyond(c) - 1 /\ Beyond(c) - 1 = c.from + c.count - 1
        <4>1. \A i, j, q \in Nat :
                j - q \in Nat /\ 2 <= j - q
                => i + q <= (i + j) - 1 /\ (i + j) - 1 = i + j - 1
          OBVIOUS
        <4>. QED
          BY <1>1, <2>1, <4>1 DEF Beyond
      <3>3. Beyond(c) <= Len(o) + 1
        BY <1>1, <2>2
      <3>. QED
        BY <1>1, <2>1, <3>1, <3>2, <3>3, Zenon
    <2>. QED
      BY <2>4, Zenon
  <1>A. 1 <= f /\ 1 <= h /\ f + h <= b - 1 /\ b <= n + 1
    BY <1>2
  <1>3. r = f + h /\ d \in Nat /\ 0 < d /\ Sound(o, d)
    <2>1. r \in f..f + h /\ d \in Nat /\ 0 < d /\ Sound(o, d) /\ ~(r < f + h)
      BY <1>0, <1>2 DEF Splitting
    <2>. QED
      BY <2>1
  <1>4. PICK z \in Nat : z = c.best /\ Sound(o, z) /\ z < DblMax
    BY <1>0, <1>1 DEF CallFits
  <1>5. x \in Nat /\ x <= d /\ x <= z /\ Sound(o, x) /\ x < DblMax
    <2>1. DblMax \in Nat
      BY HousesAssumption
    <2>2. CASE d < z
      BY <1>0, <1>3, <1>4, <2>1, <2>2 DEF Nearer
    <2>3. CASE ~(d < z)
      BY <1>0, <1>3, <1>4, <2>1, <2>3 DEF Nearer
    <2>. QED
      BY <2>2, <2>3
  <1>6. ASSUME NEW k \in f..b - 1, NEW l \in f..b - 1, k < l PROVE Below(o, x, k, l)
    <2>1. k \in 1..Len(o) /\ l \in 1..Len(o)
      <3>1. k \in 1..n /\ l \in 1..n
        BY <1>A
      <3>. QED
        BY <1>2, <3>1
    <2>2. Dist(o[k], o[l]) \in Nat
      BY <2>1, PlacesAre
    <2>3. Below(o, d, k, l) \/ Below(o, z, k, l)
      <3>1. CASE l \in f..f + h - 1
        <4>1. k \in f..f + h - 1
          BY <1>6, <1>A, <3>1
        <4>2. Covers(o, z, f, h)
          BY <1>0, <1>2, <1>4 DEF CallFits
        <4>. QED
          BY <1>6, <3>1, <4>1, <4>2 DEF Covers
      <3>2. CASE k \in f + h..b - 1
        <4>1. l \in f + h..b - 1
          BY <1>6, <1>A, <3>2
        <4>2. f + h + (c.count - h) - 1 = b - 1
          <5>1. PICK q \in Nat : q = c.count /\ b - 1 = f + q - 1
            BY <1>1, <1>2
          <5>2. \A y \in Nat : f + h + (y - h) - 1 = f + y - 1
            OBVIOUS
          <5>. QED
            BY <5>1, <5>2
        <4>. QED
          <5>1. Covers(o, z, f + h, c.count - h)
            BY <1>0, <1>2, <1>4 DEF CallFits
          <5>. QED
            BY <1>6, <3>2, <4>1, <4>2, <5>1 DEF Covers
      <3>3. CASE k \in f..f + h - 1 /\ l \in f + h..b - 1
        <4>1. k < r
          BY <1>3, <1>A, <3>3
        <4>. QED
          BY <1>0, <1>2, <3>3, <4>1 DEF Splitting
      <3>. QED
        BY <1>A, <3>1, <3>2, <3>3
    <2>. QED
      BY <1>3, <1>4, <1>5, <2>2, <2>3 DEF Below
  <1>7. Covers(o, x, c.from, c.count)
    BY <1>2, <1>6 DEF Covers
  <1>. QED
    BY <1>5, <1>7 DEF Returned

-----------------------------------------------------------------------------
(* The calls.                                                              *)

\* The calls are halves of one another when the last one changes,
LEMMA NestedReplaced ==
  ASSUME NEW o, NEW s, NEW c, NEW t
  PROVE  /\ Nested(o, s) /\ Len(s) > 0
         /\ CallFits(o, c) /\ c.from = s[Len(s)].from /\ c.count = s[Len(s)].count
         /\ TopBecomes(s, c, t)
         => Nested(o, t) /\ Len(t) = Len(s) /\ t[Len(t)] = c
  <1>0. SUFFICES ASSUME Nested(o, s), Len(s) > 0, CallFits(o, c),
                        c.from = s[Len(s)].from, c.count = s[Len(s)].count,
                        t = [s EXCEPT ![Len(s)] = c]
        PROVE  Nested(o, t) /\ Len(t) = Len(s) /\ t[Len(t)] = c
    BY DEF TopBecomes
  <1>1. PICK m \in Nat : m = Len(s) /\ 1 <= m /\ m \in 1..m
    BY <1>0, LenProperties DEF Nested
  <1>2. s \in [1..m -> Calls] /\ c \in Calls
    BY <1>0, <1>1, LenProperties DEF Nested, CallFits
  <1>3. t \in [1..m -> Calls] /\ t[m] = c /\ \A k \in 1..m : k # m => t[k] = s[k]
    BY <1>0, <1>1, <1>2
  <1>4. t \in Seq(Calls) /\ Len(t) = m
    BY <1>3, LenProperties, IsASeq
  <1>5. \A k \in 1..m : CallFits(o, t[k])
    BY <1>0, <1>1, <1>3 DEF Nested
  <1>6. ASSUME NEW k \in 1..m - 1 PROVE InHalf(t[k], t[k + 1])
    <2>1. k \in 1..m /\ k + 1 \in 1..m /\ k # m
      BY <1>1
    <2>2. t[k] = s[k] /\ t[k + 1].from = s[k + 1].from /\ t[k + 1].count = s[k + 1].count
      BY <1>0, <1>1, <1>3, <2>1
    <2>3. InHalf(s[k], s[k + 1])
      BY <1>0, <1>1 DEF Nested
    <2>. QED
      BY <2>2, <2>3 DEF InHalf
  <1>7. t[1].from = 1 /\ t[1].count = Len(o)
    <2>1. 1 \in 1..m
      BY <1>1
    <2>2. t[1].from = s[1].from /\ t[1].count = s[1].count
      BY <1>0, <1>1, <1>3, <2>1
    <2>. QED
      BY <1>0, <2>2 DEF Nested
  <1>. QED
    BY <1>1, <1>3, <1>4, <1>5, <1>6, <1>7 DEF Nested

\* when it makes another,
LEMMA NestedPushed ==
  ASSUME NEW o, NEW s, NEW c
  PROVE  /\ Nested(o, s) /\ Len(s) > 0
         /\ CallFits(o, c) /\ InHalf(s[Len(s)], c)
         => LET t == Append(s, c)
            IN  Nested(o, t) /\ Len(t) > 0 /\ t[Len(t)] = c
  <1>0. SUFFICES ASSUME Nested(o, s), Len(s) > 0, CallFits(o, c), InHalf(s[Len(s)], c),
                        NEW t, t = Append(s, c)
        PROVE  Nested(o, t) /\ Len(t) > 0 /\ t[Len(t)] = c
    OBVIOUS
  <1>1. PICK m \in Nat : m = Len(s) /\ 1 <= m
    BY <1>0, LenProperties DEF Nested
  <1>2. s \in Seq(Calls) /\ c \in Calls
    BY <1>0 DEF Nested, CallFits
  <1>3. /\ t \in Seq(Calls) /\ Len(t) = Len(s) + 1 /\ t[Len(s) + 1] = c
        /\ \A k \in 1..Len(s) : t[k] = s[k]
    BY <1>0, <1>2, AppendProperties
  <1>4. Len(t) = m + 1 /\ t[m + 1] = c /\ \A k \in 1..m : t[k] = s[k]
    BY <1>1, <1>3
  <1>5. \A k \in 1..m + 1 : k \in 1..m \/ k = m + 1
    BY <1>1
  <1>6. \A k \in 1..m + 1 : CallFits(o, t[k])
    BY <1>0, <1>1, <1>4, <1>5 DEF Nested
  <1>7. ASSUME NEW k \in 1..m + 1 - 1 PROVE InHalf(t[k], t[k + 1])
    <2>1. k \in 1..m /\ (k = m \/ (k \in 1..m - 1 /\ k + 1 \in 1..m))
      BY <1>1
    <2>2. k \in 1..m - 1 => InHalf(s[k], s[k + 1])
      BY <1>0, <1>1 DEF Nested
    <2>. QED
      BY <1>0, <1>1, <1>4, <2>1, <2>2
  <1>8. t[1].from = 1 /\ t[1].count = Len(o)
    <2>1. 1 \in 1..m
      BY <1>1
    <2>2. t[1] = s[1]
      BY <1>4, <2>1
    <2>. QED
      BY <1>0, <2>2 DEF Nested
  <1>. QED
    BY <1>1, <1>3, <1>4, <1>6, <1>7, <1>8 DEF Nested

\* and when it returns.
LEMMA NestedPopped ==
  ASSUME NEW o, NEW s
  PROVE  Nested(o, s) /\ Len(s) > 0
         => LET t == Front(s)
            IN  /\ Nested(o, t) /\ Len(t) = Len(s) - 1
                /\ Len(s) = 1 => s[Len(s)].from = 1 /\ s[Len(s)].count = Len(o)
                /\ Len(s) # 1 => Len(t) > 0 /\ InHalf(t[Len(t)], s[Len(s)])
  <1>0. SUFFICES ASSUME Nested(o, s), Len(s) > 0, NEW t, t = Front(s)
        PROVE  /\ Nested(o, t) /\ Len(t) = Len(s) - 1
               /\ Len(s) = 1 => s[Len(s)].from = 1 /\ s[Len(s)].count = Len(o)
               /\ Len(s) # 1 => Len(t) > 0 /\ InHalf(t[Len(t)], s[Len(s)])
    OBVIOUS
  <1>1. PICK m \in Nat : m = Len(s) /\ 1 <= m
    BY <1>0, LenProperties DEF Nested
  <1>2. PICK n \in Nat : n = m - 1 /\ m = n + 1
    BY <1>1
  <1>3. s \in Seq(Calls) /\ \A k \in 1..m : s[k] \in Calls
    BY <1>0, <1>1, ElementOfSeq DEF Nested
  <1>4. t = [k \in 1..n |-> s[k]]
    <2>1. t = [k \in 1..n - 1 + 1 |-> s[1 + k - 1]]
      BY <1>0, <1>1, <1>2 DEF Front, SubSeq
    <2>2. 1..n - 1 + 1 = 1..n /\ \A k \in 1..n : 1 + k - 1 = k
      BY <1>2
    <2>. QED
      BY <2>1, <2>2
  <1>5. t \in Seq(Calls) /\ Len(t) = n /\ \A k \in 1..n : t[k] = s[k]
    <2>1. t \in [1..n -> Calls]
      BY <1>2, <1>3, <1>4
    <2>. QED
      BY <1>4, <2>1, LenProperties, IsASeq
  <1>6. \A k \in 1..n : CallFits(o, t[k])
    <2>1. \A k \in 1..n : k \in 1..m
      BY <1>2
    <2>. QED
      BY <1>0, <1>1, <1>5, <2>1 DEF Nested
  <1>7. ASSUME NEW k \in 1..n - 1 PROVE InHalf(t[k], t[k + 1])
    <2>1. k \in 1..n /\ k + 1 \in 1..n /\ k \in 1..m - 1
      BY <1>2
    <2>2. InHalf(s[k], s[k + 1])
      BY <1>0, <1>1, <2>1 DEF Nested
    <2>. QED
      BY <1>5, <2>1, <2>2
  <1>8. n > 0 => t[1].from = 1 /\ t[1].count = Len(o)
    <2>1. n > 0 => 1 \in 1..n
      BY <1>2
    <2>2. n > 0 => t[1] = s[1]
      BY <1>5, <2>1
    <2>. QED
      BY <1>0, <2>2 DEF Nested
  <1>9. m # 1 => n > 0 /\ InHalf(t[n], s[m])
    <2>1. m # 1 => n \in 1..m - 1 /\ n \in 1..n /\ n + 1 = m
      BY <1>2
    <2>2. m # 1 => InHalf(s[n], s[n + 1])
      BY <1>0, <1>1, <2>1 DEF Nested
    <2>. QED
      BY <1>2, <1>5, <2>1, <2>2
  <1>10. Nested(o, t)
    BY <1>5, <1>6, <1>7, <1>8 DEF Nested
  <1>11. m = 1 => s[m].from = 1 /\ s[m].count = Len(o)
    BY <1>0, <1>1 DEF Nested
  <1>. QED
    BY <1>1, <1>2, <1>5, <1>9, <1>10, <1>11

-----------------------------------------------------------------------------
(* The invariant.                                                          *)

\* The call that main makes
LEMMA FirstCall ==
  ASSUME NEW o \in Seq(Points), Len(o) >= 2, NEW at \in {"enter", "compare"}
  PROVE  LET s == <<Level(1, Len(o), at)>>
         IN  /\ Nested(o, s) /\ Len(s) > 0
             /\ s[Len(s)] = Level(1, Len(o), at)
             /\ CallFits(o, s[Len(s)])
  <1>1. Len(o) \in Nat /\ DblMax \in Nat
    BY LenProperties, HousesAssumption
  <1>2. PICK c : c = Level(1, Len(o), at)
    OBVIOUS
  <1>3. c \in Calls /\ c.from = 1 /\ c.count = Len(o) /\ c.at = at
    BY <1>1, <1>2 DEF Level, Calls
  <1>4. CallFits(o, c)
    BY <1>1, <1>3 DEF CallFits, Beyond
  <1>5. <<c>> \in Seq(Calls) /\ Len(<<c>>) = 1 /\ <<c>>[1] = c
    BY <1>3
  <1>6. Nested(o, <<c>>)
    BY <1>3, <1>4, <1>5 DEF Nested
  <1>. QED
    BY <1>2, <1>4, <1>5, <1>6

\* The invariant holds at first.
LEMMA InitHouse ==
  ASSUME HouseInit PROVE HouseInv
  <1>1. PICK n \in 2..MaxHouses : houses \in [1..n -> Points]
    BY DEF HouseInit
  <1>2. n \in Nat /\ n >= 2 /\ MaxHouses \in Nat
    BY HousesAssumption
  <1>3. houses \in Seq(Points) /\ Len(houses) = n
    BY <1>1, <1>2, LenProperties, IsASeq
  <1>4. points = houses /\ order = houses
    BY DEF HouseInit
  <1>5. Rearranged(houses, order)
    <2>1. PICK f \in [1..n -> 1..n] : f = [k \in 1..n |-> k]
      OBVIOUS
    <2>2. IsInjective(f) /\ \A k \in 1..n : houses[k] = houses[f[k]]
      BY <2>1 DEF IsInjective
    <2>. QED
      BY <1>1, <1>3, <1>4, <2>2 DEF Rearranged
  <1>6. Overwritten(order, points)
    BY <1>1, <1>3, <1>4 DEF Overwritten
  <1>7. PICK c : c = Level(1, Len(order), "compare")
    OBVIOUS
  <1>8. calls = <<c>> /\ Nested(order, calls) /\ Len(calls) > 0 /\ Top = c /\ CallFits(order, c)
    BY <1>2, <1>3, <1>4, <1>7, FirstCall DEF HouseInit, Top
  <1>9. c.from = 1 /\ c.at = "compare"
    BY <1>7 DEF Level
  <1>10. Searching(order, c, row, column, distance)
    BY <1>3, <1>4, <1>8, <1>9, SearchStarts DEF HouseInit
  <1>11. TopFits(order, points, Top, row, column, distance)
    BY <1>4, <1>8, <1>9, <1>10 DEF TopFits, Fresh
  <1>. QED
    BY <1>2, <1>3, <1>4, <1>5, <1>6, <1>7, <1>8, <1>11 DEF HouseInit, HouseInv

\* What an action of a call has to show.
LEMMA Divided ==
  ASSUME HouseInv, stage # "naive",
         houses' = houses /\ order' = order /\ naive' = naive,
         Overwritten(order, points'), Nested(order, calls'), stage' \in {"dividing", "done"},
         stage' = "done" => Returned(order, distance', 1, Len(order)),
         stage' # "done" =>
           /\ Len(calls') > 0
           /\ TopFits(order, points', calls'[Len(calls')], row', column', distance')
  PROVE  HouseInv'
  BY DEF HouseInv, Top, SearchesAll

\* What the call on top of the others is known to be.
LEMMA TopIs ==
  ASSUME HouseInv, stage # "done"
  PROVE  /\ Len(calls) > 0 /\ Top = calls[Len(calls)]
         /\ CallFits(order, Top)
         /\ TopFits(order, points, Top, row, column, distance)
         /\ Top.at # "compare" => stage = "dividing"
         /\ stage = "naive" => Top.from = 1 /\ Top.count = Len(order)
         /\ order \in Seq(Points) /\ Len(order) >= 2 /\ Overwritten(order, points)
         /\ Nested(order, calls)
  <1>1. Len(calls) \in 1..Len(calls)
    BY LenProperties DEF HouseInv, Nested
  <1>2. CallFits(order, Top)
    BY <1>1 DEF HouseInv, Nested, Top
  <1>3. stage = "naive" => Top = Level(1, Len(order), "compare")
    <2>1. PICK c : c = Level(1, Len(order), "compare")
      OBVIOUS
    <2>2. stage = "naive" => calls = <<c>>
      BY <2>1 DEF HouseInv
    <2>3. stage = "naive" => Len(calls) = 1 /\ calls[1] = c
      BY <2>2
    <2>. QED
      BY <2>1, <2>3 DEF Top
  <1>. QED
    BY <1>2, <1>3 DEF HouseInv, Level, Top

\* The set of distances, by places
LEMMA DistancesAre ==
  ASSUME NEW o \in Seq(Points)
  PROVE  /\ \A k, l \in 1..Len(o) : k # l => Dist(o[k], o[l]) \in Distances(o)
         /\ \A e \in Distances(o) : \E k, l \in 1..Len(o) : k < l /\ e = Dist(o[k], o[l])
  <1>1. ASSUME NEW k \in 1..Len(o), NEW l \in 1..Len(o), k < l
        PROVE  Dist(o[k], o[l]) \in Distances(o)
    <2>1. PICK q \in (1..Len(o)) \X (1..Len(o)) : q = <<k, l>>
      OBVIOUS
    <2>2. q[1] = k /\ q[2] = l
      BY <2>1
    <2>. QED
      BY <1>1, <2>2 DEF Distances
  <1>2. ASSUME NEW k \in 1..Len(o), NEW l \in 1..Len(o), k # l
        PROVE  Dist(o[k], o[l]) \in Distances(o)
    <2>1. k < l \/ l < k
      BY <1>2, LenProperties
    <2>2. Dist(o[k], o[l]) = Dist(o[l], o[k])
      BY PlacesAre
    <2>. QED
      BY <1>1, <2>1, <2>2
  <1>3. ASSUME NEW e \in Distances(o)
        PROVE  \E k, l \in 1..Len(o) : k < l /\ e = Dist(o[k], o[l])
    BY DEF Distances
  <1>. QED
    BY <1>2, <1>3

\* The pair that brute_force is at is of points that nothing has overwritten.
LEMMA PairIsThere ==
  ASSUME NEW o \in Seq(Points), NEW p, NEW c, NEW r, NEW m, NEW d
  PROVE  /\ Overwritten(o, p) /\ CallFits(o, c) /\ c.at = "compare"
         /\ Searching(o, c, r, m, d) /\ Fresh(o, p, c, r, m) /\ m < Beyond(c)
         => p[r] = o[r] /\ p[m] = o[m]
  <1>0. SUFFICES ASSUME Overwritten(o, p), CallFits(o, c), c.at = "compare",
                        Searching(o, c, r, m, d), Fresh(o, p, c, r, m), m < Beyond(c)
        PROVE  p[r] = o[r] /\ p[m] = o[m]
    OBVIOUS
  <1>1. CASE c.from <= 2
    BY <1>0, <1>1 DEF Fresh
  <1>2. CASE ~(c.from <= 2)
    <2>1. PICK f \in Nat, b \in Nat, n \in Nat :
            f = c.from /\ b = Beyond(c) /\ n = Len(o) /\ 3 <= f /\ b <= n + 1
      BY <1>0, <1>2, LenProperties DEF CallFits, Calls, Beyond
    <2>2. r \in f..b - 1 /\ m \in r + 1..b /\ m < b
      BY <1>0, <2>1 DEF Searching
    <2>3. 3 <= f /\ b <= n + 1
      BY <2>1
    <2>4. r \in 3..n /\ m \in 3..n
      BY <2>2, <2>3
    <2>. QED
      BY <1>0, <2>1, <2>4 DEF Overwritten
  <1>. QED
    BY <1>1, <1>2

\* brute_force: nothing has written on the points it compares.
LEMMA ComparePairKeeps ==
  ASSUME HouseInv, ComparePair PROVE HouseInv'
  <1>1. /\ CallFits(order, Top) /\ TopFits(order, points, Top, row, column, distance)
        /\ order \in Seq(Points) /\ Overwritten(order, points)
        /\ Top.at = "compare" /\ stage # "done"
    BY TopIs DEF ComparePair, At
  <1>2. PICK c : c = Top /\ c.at = "compare" /\ CallFits(order, c)
    BY <1>1
  <1>3. Searching(order, c, row, column, distance) /\ Fresh(order, points, c, row, column)
    BY <1>1, <1>2 DEF TopFits
  <1>4. column < Beyond(c)
    BY <1>2 DEF ComparePair
  <1>5. points[row] = order[row] /\ points[column] = order[column]
    BY <1>1, <1>2, <1>3, <1>4, PairIsThere
  <1>6. PICK e : e = Dist(order[row], order[column])
    OBVIOUS
  <1>7. distance' = IF e < distance THEN e ELSE distance
    BY <1>5, <1>6 DEF ComparePair
  <1>8. NextPair(c, row, column, row', column')
    BY <1>2 DEF ComparePair, NextPair
  <1>9. Searching(order, c, row', column', distance')
    BY <1>1, <1>2, <1>3, <1>4, <1>6, <1>7, <1>8, SearchGoes
  <1>10. TopFits(order, points, c, row', column', distance')
    BY <1>2, <1>3, <1>9 DEF TopFits, Fresh
  <1>11. UNCHANGED <<houses, points, order, calls, naive, stage>>
    BY DEF ComparePair
  <1>. QED
    BY <1>1, <1>2, <1>10, <1>11 DEF HouseInv, Top, SearchesAll

\* The first search has found the smallest distance.
LEMMA SortByXKeeps ==
  ASSUME HouseInv, SortByX PROVE HouseInv'
  <1>1. /\ CallFits(order, Top) /\ TopFits(order, points, Top, row, column, distance)
        /\ order \in Seq(Points) /\ Len(order) >= 2 /\ Overwritten(order, points) /\ stage = "naive"
        /\ Top.from = 1 /\ Top.count = Len(order) /\ points = order /\ houses = order
    BY TopIs DEF SortByX, HouseInv
  <1>2. PICK n \in Nat : n = Len(order) /\ n >= 2
    BY <1>1, LenProperties
  <1>3. PICK c : c = Top /\ c.at = "compare" /\ CallFits(order, c) /\ c.from = 1 /\ c.count = n
    <2>1. Top.at = "compare"
      BY <1>1, TopIs
    <2>. QED
      BY <1>1, <1>2, <2>1
  <1>4. ASSUME SearchesAll
        PROVE  /\ \A k, l \in c.from..Beyond(c) - 1 : k < l => distance <= Dist(order[k], order[l])
               /\ Returned(order, distance, c.from, c.count)
    <2>1. Searching(order, c, row, column, distance)
      BY <1>1, <1>3 DEF TopFits
    <2>2. ~(column < Beyond(c))
      <3>1. column >= Beyond(c)
        BY <1>3, <1>4 DEF SortByX
      <3>2. column \in Int /\ Beyond(c) \in Int
        BY <1>2, <1>3, <2>1 DEF Searching, Beyond
      <3>. QED
        BY <3>1, <3>2
    <2>. QED
      BY <1>1, <1>3, <2>1, <2>2, SearchEnds
  <1>5. ASSUME SearchesAll PROVE IsClosest(naive', houses)
    <2>1. c.from..Beyond(c) - 1 = 1..n
      BY <1>2, <1>3 DEF Beyond
    <2>2. distance < DblMax /\ Sound(order, distance) /\ distance \in Nat /\ DblMax \in Nat
      BY <1>2, <1>3, <1>4, <1>5, HousesAssumption DEF Returned
    <2>3. distance \in Distances(order)
      BY <1>1, <2>2, DistancesAre DEF Sound
    <2>4. \A e \in Distances(order) : distance <= e
      <3>1. \A k, l \in 1..n : k < l => distance <= Dist(order[k], order[l])
        BY <1>4, <1>5, <2>1
      <3>2. \A e \in Distances(order) :
              \E k, l \in 1..Len(order) : k < l /\ e = Dist(order[k], order[l])
        BY <1>1, DistancesAre
      <3>. QED
        BY <1>2, <3>1, <3>2
    <2>. QED
      BY <1>1, <2>3, <2>4 DEF IsClosest, SortByX
  <1>6. PICK f \in [1..n -> 1..n] :
          IsInjective(f) /\ points' = [k \in 1..n |-> order[f[k]]]
    <2>1. Len(points) = n
      BY <1>1, <1>2
    <2>2. PICK f \in [1..n -> 1..n] :
            IsInjective(f) /\ points' = [k \in 1..n |-> points[f[k]]]
      BY <2>1, Zenon DEF SortByX
    <2>. QED
      BY <1>1, <2>2
  <1>7. points' \in [1..n -> Points] /\ order' = points'
    <2>1. \A k \in 1..n : order[f[k]] \in Points
      BY <1>1, <1>2, ElementOfSeq
    <2>. QED
      BY <1>6, <2>1 DEF SortByX
  <1>8. order' \in Seq(Points) /\ Len(order') = n
    BY <1>7, LenProperties, IsASeq
  <1>9. Rearranged(houses', order')
    <2>1. houses' = order /\ order \in [1..n -> Points]
      BY <1>1, <1>2, LenProperties DEF SortByX
    <2>. QED
      BY <1>6, <1>7, <1>8, <2>1 DEF Rearranged
  <1>10. Overwritten(order', points')
    BY <1>7, <1>8 DEF Overwritten
  <1>11. PICK s : s = <<Level(1, Len(order'), "enter")>>
    OBVIOUS
  <1>12. /\ Nested(order', s) /\ Len(s) > 0
         /\ s[Len(s)].at = "enter"
    <2>1. Nested(order', s) /\ Len(s) > 0 /\ s[Len(s)] = Level(1, Len(order'), "enter")
      BY <1>2, <1>8, <1>11, FirstCall
    <2>. QED
      BY <2>1 DEF Level
  <1>13. calls' = s
    <2>1. Len(points) = Len(order')
      BY <1>1, <1>2, <1>8
    <2>. QED
      BY <1>11, <2>1 DEF SortByX
  <1>14. TopFits(order', points', Top', row', column', distance')
    BY <1>7, <1>12, <1>13 DEF TopFits, Fresh, Top
  <1>15. naive' = distance /\ stage' = "dividing" /\ houses' = houses
    BY DEF SortByX
  <1>. QED
    BY <1>2, <1>5, <1>8, <1>9, <1>10, <1>12, <1>13, <1>14, <1>15 DEF HouseInv, SearchesAll

\* The call on top changes, or calls another.
LEMMA TopReplaced ==
  ASSUME HouseInv, stage # "done", NEW c, NEW t
  PROVE  /\ CallFits(order, c) /\ c.from = Top.from /\ c.count = Top.count
         /\ TopBecomes(calls, c, t)
         => Nested(order, t) /\ Len(t) = Len(calls) /\ Len(t) > 0 /\ t[Len(t)] = c
  <1>1. Len(calls) > 0 /\ Top = calls[Len(calls)] /\ Nested(order, calls)
    BY TopIs
  <1>. QED
    BY <1>1, NestedReplaced

\* divide_conquer calls brute_force,
LEMMA LeafKeeps ==
  ASSUME HouseInv, Leaf PROVE HouseInv'
  <1>1. /\ CallFits(order, Top) /\ TopFits(order, points, Top, row, column, distance)
        /\ order \in Seq(Points) /\ Overwritten(order, points)
        /\ stage = "dividing" /\ Top.at = "enter"
        /\ Top = calls[Len(calls)] /\ Len(calls) \in Nat /\ Nested(order, calls)
    BY TopIs, LenProperties DEF Leaf, At, Nested
  <1>2. PICK c : c = [Top EXCEPT !.at = "compare", !.best = Top.best]
    OBVIOUS
  <1>3. /\ c \in Calls /\ c.from = Top.from /\ c.count = Top.count /\ c.at = "compare"
        /\ c = [Top EXCEPT !.at = "compare"]
    BY <1>1, <1>2 DEF CallFits, Calls
  <1>4. CallFits(order, c)
    BY <1>1, <1>3 DEF CallFits, Beyond
  <1>5. TopBecomes(calls, c, calls')
    BY <1>1, <1>3 DEF Leaf, TopBecomes
  <1>6. Nested(order, calls') /\ Len(calls') > 0 /\ calls'[Len(calls')] = c
    <2>1. stage # "done" /\ c.from = Top.from /\ c.count = Top.count
      BY <1>1, <1>3
    <2>. QED
      BY <1>4, <1>5, <2>1, TopReplaced, Zenon
  <1>7. Searching(order, c, row', column', distance')
    <2>1. row' = c.from /\ column' = c.from + 1 /\ distance' = DblMax
      BY <1>3 DEF Leaf
    <2>. QED
      BY <1>1, <1>4, <2>1, SearchStarts
  <1>8. TopFits(order, points, c, row', column', distance')
    BY <1>1, <1>3, <1>7 DEF TopFits, Fresh
  <1>9. UNCHANGED <<houses, points, order, naive, stage>>
    BY DEF Leaf
  <1>. QED
    BY <1>1, <1>6, <1>8, <1>9, Divided

\* or itself on the left half,
LEMMA DivideLeftKeeps ==
  ASSUME HouseInv, DivideLeft PROVE HouseInv'
  <1>1. /\ CallFits(order, Top) /\ TopFits(order, points, Top, row, column, distance)
        /\ order \in Seq(Points) /\ Overwritten(order, points)
        /\ stage = "dividing" /\ Top.at = "enter"
        /\ Top = calls[Len(calls)] /\ Len(calls) \in Nat /\ Nested(order, calls)
        /\ Top \in Calls /\ 3 <= Top.count
    <2>1. Top.count >= 3 /\ stage # "done" /\ Top.at = "enter"
      BY DEF DivideLeft, At
    <2>2. CallFits(order, Top)
      BY <2>1, TopIs
    <2>3. Top \in Calls /\ 3 <= Top.count
      BY <2>1, <2>2 DEF CallFits, Calls
    <2>. QED
      BY <2>1, <2>2, <2>3, TopIs, LenProperties DEF Nested
  <1>2. PICK c : c = [Top EXCEPT !.at = "left", !.best = Top.best]
    OBVIOUS
  <1>3. /\ c \in Calls /\ c.from = Top.from /\ c.count = Top.count /\ c.at = "left"
        /\ c = [Top EXCEPT !.at = "left"] /\ Half(c) = Half(Top)
    BY <1>1, <1>2 DEF Calls, Half
  <1>4. CallFits(order, c)
    BY <1>1, <1>3 DEF CallFits, Beyond
  <1>5. PICK t : t = [calls EXCEPT ![Len(calls)] = c]
    OBVIOUS
  <1>6. Nested(order, t) /\ Len(t) > 0 /\ t[Len(t)] = c
    <2>1. TopBecomes(calls, c, t)
      BY <1>5 DEF TopBecomes
    <2>2. stage # "done" /\ c.from = Top.from /\ c.count = Top.count
      BY <1>1, <1>3
    <2>. QED
      BY <1>4, <2>1, <2>2, TopReplaced, Zenon
  <1>7. PICK b : b = LeftCall(Top)
    OBVIOUS
  <1>8. b.from = Top.from /\ b.count = Half(Top) /\ b.at = "enter" /\ b.best = DblMax
        /\ (Half(Top) \in Nat => b \in Calls)
    BY <1>1, <1>7, HousesAssumption DEF LeftCall, Level, Calls
  <1>9. /\ Half(Top) \in Nat /\ 1 <= Half(Top) /\ Top.count - Half(Top) \in Nat
        /\ Top.from \in Nat /\ Top.count \in Nat
    BY <1>1, HalfIs
  <1>10. CallFits(order, b)
    <2>1. 1 <= Top.from /\ Top.from # 2 /\ Beyond(Top) <= Len(order) + 1
      BY <1>1 DEF CallFits
    <2>2. b.from + b.count <= Len(order) + 1
      <3>1. \A x, y, z \in Nat, n \in Nat :
              x + y <= n + 1 /\ y - z \in Nat => x + z <= n + 1
        OBVIOUS
      <3>2. Len(order) \in Nat
        BY <1>1, LenProperties
      <3>. QED
        BY <1>8, <1>9, <2>1, <3>1, <3>2 DEF Beyond
    <2>. QED
      BY <1>8, <1>9, <2>1, <2>2 DEF CallFits, Beyond
  <1>11. calls' = Append(t, b)
    BY <1>1, <1>3, <1>5, <1>7 DEF DivideLeft
  <1>12. Nested(order, calls') /\ Len(calls') > 0 /\ calls'[Len(calls')] = b
    <2>1. InHalf(c, b)
      BY <1>3, <1>8 DEF InHalf
    <2>. QED
      BY <1>6, <1>10, <1>11, <2>1, NestedPushed
  <1>13. TopFits(order, points, b, row, column, distance)
    BY <1>1, <1>8 DEF TopFits, Fresh
  <1>14. UNCHANGED <<houses, points, order, row, column, distance, naive, stage>>
    BY DEF DivideLeft
  <1>. QED
    BY <1>1, <1>12, <1>13, <1>14, Divided

\* and, when that has returned, on the right half.
LEMMA DivideRightKeeps ==
  ASSUME HouseInv, DivideRight PROVE HouseInv'
  <1>1. /\ CallFits(order, Top) /\ TopFits(order, points, Top, row, column, distance)
        /\ order \in Seq(Points) /\ Overwritten(order, points)
        /\ stage = "dividing" /\ Top.at = "left"
        /\ Top = calls[Len(calls)] /\ Len(calls) \in Nat /\ Nested(order, calls)
        /\ Top \in Calls /\ 3 <= Top.count
    <2>1. stage # "done" /\ Top.at = "left"
      BY DEF DivideRight, At
    <2>2. CallFits(order, Top)
      BY <2>1, TopIs
    <2>3. Top \in Calls /\ 3 <= Top.count
      BY <2>1, <2>2 DEF CallFits
    <2>. QED
      BY <2>1, <2>2, <2>3, TopIs, LenProperties DEF Nested
  <1>2. PICK c : c = [Top EXCEPT !.at = "right", !.best = distance]
    OBVIOUS
  <1>3. Returned(order, distance, Top.from, Half(Top)) /\ distance \in Nat
    BY <1>1 DEF TopFits, Returned
  <1>4. /\ c \in Calls /\ c.from = Top.from /\ c.count = Top.count /\ c.at = "right"
        /\ c.best = distance /\ Half(c) = Half(Top)
    BY <1>1, <1>2, <1>3 DEF Calls, Half
  <1>5. CallFits(order, c)
    BY <1>1, <1>3, <1>4 DEF CallFits, Beyond
  <1>6. PICK t : t = [calls EXCEPT ![Len(calls)] = c]
    OBVIOUS
  <1>7. Nested(order, t) /\ Len(t) > 0 /\ t[Len(t)] = c
    <2>1. TopBecomes(calls, c, t)
      BY <1>6 DEF TopBecomes
    <2>2. stage # "done" /\ c.from = Top.from /\ c.count = Top.count
      BY <1>1, <1>4
    <2>. QED
      BY <1>5, <2>1, <2>2, TopReplaced, Zenon
  <1>8. PICK b : b = RightCall(Top)
    OBVIOUS
  <1>9. /\ Half(Top) \in Nat /\ 1 <= Half(Top) /\ Top.count - Half(Top) \in Nat
        /\ 2 <= Top.count - Half(Top) /\ (Half(Top) = 1 <=> Top.count = 3)
        /\ Top.from \in Nat /\ Top.count \in Nat
    BY <1>1, HalfIs
  <1>10. /\ b.from = Top.from + Half(Top) /\ b.count = Top.count - Half(Top)
         /\ b.at = "enter" /\ b.best = DblMax /\ b \in Calls
    BY <1>8, <1>9, HousesAssumption DEF RightCall, Level, Calls
  <1>11. /\ 1 <= Top.from /\ Beyond(Top) <= Len(order) + 1
         /\ b.from <= 2 => Top.from = 1 /\ Top.count = 3 /\ b.from = 2 /\ b.count = 2
    <2>1. 1 <= Top.from /\ Beyond(Top) <= Len(order) + 1
      BY <1>1 DEF CallFits
    <2>2. \A x, y, z \in Nat :
            1 <= x /\ 1 <= z /\ (z = 1 <=> y = 3) /\ x + z <= 2
            => x = 1 /\ y = 3 /\ x + z = 2 /\ y - z = 2
      OBVIOUS
    <2>. QED
      BY <1>9, <1>10, <2>1, <2>2
  <1>12. CallFits(order, b)
    <2>1. \A x, y, z \in Nat : y - z \in Nat => (x + z) + (y - z) = x + y
      OBVIOUS
    <2>2. b.from + b.count = Top.from + Top.count
      BY <1>9, <1>10, <2>1
    <2>3. 1 <= b.from /\ 1 <= b.count
      BY <1>9, <1>10, <1>11
    <2>. QED
      BY <1>10, <1>11, <2>2, <2>3 DEF CallFits, Beyond
  <1>13. calls' = Append(t, b)
    BY <1>1, <1>2, <1>6, <1>8 DEF DivideRight
  <1>14. Nested(order, calls') /\ Len(calls') > 0 /\ calls'[Len(calls')] = b
    <2>1. InHalf(c, b)
      BY <1>4, <1>10 DEF InHalf
    <2>. QED
      BY <1>7, <1>12, <1>13, <2>1, NestedPushed
  <1>15. TopFits(order, points, b, row, column, distance)
    BY <1>1, <1>10, <1>11 DEF TopFits, Fresh
  <1>16. UNCHANGED <<houses, points, order, row, column, distance, naive, stage>>
    BY DEF DivideRight
  <1>. QED
    BY <1>1, <1>14, <1>15, <1>16, Divided

\* What nothing nearer is below, is not below less.
LEMMA CoversLess ==
  ASSUME NEW o \in Seq(Points), NEW d, NEW x, NEW from, NEW count
  PROVE  /\ d \in Nat /\ x \in Nat /\ x <= d
         /\ from \in Nat /\ count \in Nat /\ 1 <= from /\ from + count <= Len(o) + 1
         /\ Covers(o, d, from, count)
         => Covers(o, x, from, count)
  <1>0. SUFFICES ASSUME d \in Nat, x \in Nat, x <= d,
                        from \in Nat, count \in Nat, 1 <= from, from + count <= Len(o) + 1,
                        Covers(o, d, from, count),
                        NEW k \in from..from + count - 1, NEW l \in from..from + count - 1, k < l
        PROVE  Below(o, x, k, l)
    BY DEF Covers
  <1>1. Below(o, d, k, l)
    BY <1>0 DEF Covers
  <1>2. k \in 1..Len(o) /\ l \in 1..Len(o)
    BY <1>0, LenProperties
  <1>3. Dist(o[k], o[l]) \in Nat
    BY <1>2, PlacesAre
  <1>. QED
    BY <1>0, <1>1, <1>3 DEF Below

\* The smaller distance of the halves covers both.
LEMMA BeginSplitKeeps ==
  ASSUME HouseInv, BeginSplit PROVE HouseInv'
  <1>1. /\ CallFits(order, Top) /\ TopFits(order, points, Top, row, column, distance)
        /\ order \in Seq(Points) /\ Overwritten(order, points)
        /\ stage = "dividing" /\ Top.at = "right"
        /\ Top = calls[Len(calls)] /\ Len(calls) \in Nat /\ Nested(order, calls)
        /\ Top \in Calls /\ 3 <= Top.count /\ Len(order) >= 2
    <2>1. stage # "done" /\ Top.at = "right"
      BY DEF BeginSplit, At
    <2>2. CallFits(order, Top)
      BY <2>1, TopIs
    <2>3. Top \in Calls /\ 3 <= Top.count
      BY <2>1, <2>2 DEF CallFits
    <2>. QED
      BY <2>1, <2>2, <2>3, TopIs, LenProperties DEF Nested
  <1>2. PICK x : x = IF Top.best < distance THEN Top.best ELSE distance
    OBVIOUS
  <1>3. PICK c : c = [Top EXCEPT !.at = "split", !.best = x]
    OBVIOUS
  <1>4. /\ Half(Top) \in Nat /\ 1 <= Half(Top) /\ Top.count - Half(Top) \in Nat
        /\ 2 <= Top.count - Half(Top) /\ Top.from \in Nat /\ Top.count \in Nat
    BY <1>1, HalfIs
  <1>5. /\ Returned(order, Top.best, Top.from, Half(Top))
        /\ Returned(order, distance, Top.from + Half(Top), Top.count - Half(Top))
        /\ 1 <= Top.from /\ Beyond(Top) <= Len(order) + 1
    BY <1>1 DEF TopFits, CallFits
  <1>6. /\ Top.best \in Nat /\ Sound(order, Top.best) /\ distance \in Nat /\ Sound(order, distance)
        /\ distance < DblMax /\ DblMax \in Nat
    BY <1>4, <1>5, HousesAssumption DEF Returned
  <1>7. x \in Nat /\ x <= Top.best /\ x <= distance /\ Sound(order, x) /\ x < DblMax
    BY <1>2, <1>6
  <1>8. /\ c \in Calls /\ c.from = Top.from /\ c.count = Top.count /\ c.at = "split"
        /\ c.best = x /\ Half(c) = Half(Top)
    BY <1>1, <1>3, <1>7 DEF Calls, Half
  <1>9. /\ Covers(order, x, Top.from, Half(Top))
        /\ Covers(order, x, Top.from + Half(Top), Top.count - Half(Top))
    <2>1. /\ Covers(order, Top.best, Top.from, Half(Top))
          /\ Covers(order, distance, Top.from + Half(Top), Top.count - Half(Top))
      BY <1>5 DEF Returned
    <2>2. /\ Top.from + Half(Top) \in Nat /\ 1 <= Top.from + Half(Top)
          /\ Top.from + Half(Top) <= Len(order) + 1
          /\ (Top.from + Half(Top)) + (Top.count - Half(Top)) <= Len(order) + 1
      <3>1. \A f, n, h, z \in Nat :
              1 <= f /\ f + n <= z + 1 /\ n - h \in Nat
              => /\ f + h \in Nat /\ 1 <= f + h /\ f + h <= z + 1
                 /\ (f + h) + (n - h) <= z + 1
        OBVIOUS
      <3>2. Len(order) \in Nat /\ Top.from + Top.count <= Len(order) + 1
        BY <1>1, <1>5, LenProperties DEF Beyond
      <3>. QED
        BY <1>4, <1>5, <3>1, <3>2
    <2>3. Covers(order, x, Top.from, Half(Top))
      BY <1>1, <1>4, <1>5, <1>6, <1>7, <2>1, <2>2, CoversLess
    <2>4. Covers(order, x, Top.from + Half(Top), Top.count - Half(Top))
      BY <1>1, <1>4, <1>6, <1>7, <2>1, <2>2, CoversLess
    <2>. QED
      BY <2>3, <2>4
  <1>10. CallFits(order, c)
    BY <1>1, <1>5, <1>7, <1>8, <1>9 DEF CallFits, Beyond
  <1>11. Nested(order, calls') /\ Len(calls') > 0 /\ calls'[Len(calls')] = c
    <2>1. TopBecomes(calls, c, calls')
      BY <1>1, <1>2, <1>3 DEF BeginSplit, TopBecomes
    <2>2. stage # "done" /\ c.from = Top.from /\ c.count = Top.count
      BY <1>1, <1>8
    <2>. QED
      BY <1>10, <2>1, <2>2, TopReplaced, Zenon
  <1>12. row' = c.from /\ column' = c.from + Half(c) /\ distance' = DblMax
    BY <1>8 DEF BeginSplit
  <1>13. Splitting(order, c, row', column', distance')
    <2>1. c.count >= 3
      BY <1>1, <1>8 DEF Calls
    <2>. QED
      BY <1>1, <1>10, <1>12, <2>1, SplitStarts
  <1>14. Fresh(order, points, c, row', column')
    <2>1. c.from = 1 /\ c.count = 3 => points = order
      BY <1>1, <1>8 DEF TopFits, Fresh
    <2>2. points = order => points[1] = order[1]
      OBVIOUS
    <2>. QED
      BY <1>8, <2>1, <2>2 DEF Fresh
  <1>15. TopFits(order, points, c, row', column', distance')
    BY <1>8, <1>13, <1>14 DEF TopFits
  <1>16. UNCHANGED <<houses, points, order, naive, stage>>
    BY DEF BeginSplit
  <1>. QED
    BY <1>1, <1>11, <1>15, <1>16, Divided

\* The split writes two points of the array on the first two of it.
LEMMA StoredKeeps ==
  ASSUME NEW o \in Seq(Points), Len(o) >= 2, Overwritten(o, points),
         row \in 1..Len(o), column \in 2..Len(o)
  PROVE  Overwritten(o, Stored) /\ Stored[1] = points[row]
  <1>1. PICK n \in Nat : n = Len(o) /\ n >= 2 /\ 1 \in 1..n /\ 2 \in 1..n
    BY LenProperties
  <1>2. points \in [1..n -> Points] /\ row \in 1..n /\ column \in 1..n /\ column # 1
    <2>1. points \in [1..n -> Points]
      BY <1>1 DEF Overwritten
    <2>2. row \in 1..n /\ column \in 2..n
      BY <1>1
    <2>. QED
      BY <2>1, <2>2
  <1>3. PICK s : s = Stored
    OBVIOUS
  <1>4. /\ s \in [1..n -> Points] /\ s[1] = points[row] /\ s[2] = points[column]
        /\ \A k \in 1..n : k # 1 /\ k # 2 => s[k] = points[k]
    <2>1. PICK one : one = [points EXCEPT ![1] = points[row]]
      OBVIOUS
    <2>2. /\ one \in [1..n -> Points] /\ one[1] = points[row]
          /\ \A k \in 1..n : k # 1 => one[k] = points[k]
      BY <1>1, <1>2, <2>1
    <2>3. s = [one EXCEPT ![2] = one[column]]
      BY <1>3, <2>1 DEF Stored
    <2>4. one[column] = points[column] /\ one[column] \in Points
      BY <1>2, <2>2
    <2>. QED
      BY <1>1, <2>2, <2>3, <2>4
  <1>5. \A k \in 3..n : k \in 1..n /\ k # 1 /\ k # 2
    OBVIOUS
  <1>6. \A k \in 3..n : s[k] = o[k]
    BY <1>1, <1>4, <1>5 DEF Overwritten
  <1>7. \A k \in 1..n : \E l \in 1..n : s[k] = points[l]
    BY <1>2, <1>4
  <1>8. \A l \in 1..n : \E k \in 1..n : points[l] = o[k]
    BY <1>1 DEF Overwritten
  <1>9. ASSUME NEW k \in 1..n PROVE \E l \in 1..n : s[k] = o[l]
    <2>1. PICK l \in 1..n : s[k] = points[l]
      BY <1>7
    <2>. QED
      BY <1>8, <2>1
  <1>. QED
    BY <1>1, <1>3, <1>4, <1>6, <1>9 DEF Overwritten

\* A pair across the middle is written on the first two points.
LEMMA CompareAcrossKeeps ==
  ASSUME HouseInv, CompareAcross PROVE HouseInv'
  <1>1. /\ CallFits(order, Top) /\ TopFits(order, points, Top, row, column, distance)
        /\ order \in Seq(Points) /\ Overwritten(order, points)
        /\ stage = "dividing" /\ Top.at = "split"
        /\ Top \in Calls /\ 3 <= Top.count /\ Len(order) >= 2 /\ Len(order) \in Nat
    <2>1. stage # "done" /\ Top.at = "split"
      BY DEF CompareAcross, At
    <2>2. CallFits(order, Top)
      BY <2>1, TopIs
    <2>3. Top \in Calls /\ 3 <= Top.count
      BY <2>1, <2>2 DEF CallFits
    <2>. QED
      BY <2>1, <2>2, <2>3, TopIs, LenProperties
  <1>2. PICK c : c = Top
    OBVIOUS
  <1>3. /\ CallFits(order, c) /\ c.at = "split" /\ c \in Calls /\ 3 <= c.count
        /\ Splitting(order, c, row, column, distance) /\ Fresh(order, points, c, row, column)
    BY <1>1, <1>2 DEF TopFits
  <1>4. /\ Half(c) \in Nat /\ 1 <= Half(c) /\ c.from \in Nat /\ c.count \in Nat
        /\ (c.count = 3 => Half(c) = 1)
    BY <1>3, HalfIs
  <1>5. row < c.from + Half(c)
    BY <1>2 DEF CompareAcross
  <1>6. NextAcross(c, row, column, row', column')
    BY <1>2 DEF CompareAcross, NextAcross
  <1>7. PICK e : e = Dist(points[row], points[column])
    OBVIOUS
  <1>8. /\ distance' = IF Nearer(e, distance) THEN e ELSE distance
        /\ points' = points \/ points' = Stored
    BY <1>7 DEF CompareAcross
  <1>9. Splitting(order, c, row', column', distance')
    BY <1>1, <1>3, <1>5, <1>6, <1>7, <1>8, SplitGoes
  <1>10. row \in c.from..c.from + Half(c) - 1 /\ column \in c.from + Half(c)..Beyond(c) - 1
    <2>1. row \in c.from..c.from + Half(c) /\ column \in c.from + Half(c)..Beyond(c) - 1
      BY <1>3 DEF Splitting
    <2>. QED
      BY <1>4, <1>5, <2>1
  <1>11. row \in 1..Len(order) /\ column \in 2..Len(order)
    <2>1. PICK f \in Nat, h \in Nat, b \in Nat, n \in Nat :
            f = c.from /\ h = Half(c) /\ b = Beyond(c) /\ n = Len(order)
      BY <1>1, <1>4 DEF Beyond
    <2>2. 1 <= f /\ 1 <= h /\ b <= n + 1
      BY <1>3, <1>4, <2>1 DEF CallFits
    <2>3. row \in f..f + h - 1 /\ column \in f + h..b - 1
      BY <1>10, <2>1
    <2>4. row \in 1..n /\ column \in 2..n
      BY <2>2, <2>3
    <2>. QED
      BY <2>1, <2>4
  <1>12. Overwritten(order, points') /\ (points' # points => points'[1] = points[row])
    BY <1>1, <1>8, <1>11, StoredKeeps
  <1>13. Fresh(order, points', c, row', column')
    <2>1. SUFFICES ASSUME c.from = 1, c.count = 3
          PROVE  points'[1] = order[1] /\ ~(row' = 1 /\ column' = 2)
      BY <1>3 DEF Fresh
    <2>2. Half(c) = 1 /\ Beyond(c) = 4
      BY <1>4, <2>1 DEF Beyond
    <2>3. row = 1 /\ column \in 2..3
      BY <1>10, <2>1, <2>2
    <2>4. points[1] = order[1]
      BY <1>3, <2>1 DEF Fresh
    <2>5. ~(row' = 1 /\ column' = 2)
      BY <1>6, <2>1, <2>2, <2>3 DEF NextAcross
    <2>. QED
      BY <1>12, <2>3, <2>4, <2>5
  <1>14. TopFits(order, points', c, row', column', distance')
    BY <1>3, <1>9, <1>13 DEF TopFits
  <1>15. UNCHANGED <<houses, order, calls, naive, stage>>
    BY DEF CompareAcross
  <1>. QED
    BY <1>1, <1>2, <1>12, <1>14, <1>15 DEF HouseInv, Top, SearchesAll

\* What a call returns is what its caller takes it for.
LEMMA ReturnKeeps ==
  ASSUME HouseInv, stage = "dividing", NEW x, Return(x),
         Returned(order, x, Top.from, Top.count),
         Top.from <= 2 /\ Top.count < 3 => points = order
  PROVE  HouseInv'
  <1>1. /\ order \in Seq(Points) /\ Overwritten(order, points)
        /\ Top = calls[Len(calls)]
        /\ Len(calls) > 0 /\ Nested(order, calls) /\ CallFits(order, Top)
    BY TopIs
  <1>2. /\ calls' = Front(calls) /\ distance' = x
        /\ stage' = IF Len(calls) = 1 THEN "done" ELSE "dividing"
        /\ UNCHANGED <<houses, points, order, row, column, naive>>
    BY DEF Return
  <1>3. /\ Nested(order, calls')
        /\ Len(calls) = 1 => Top.from = 1 /\ Top.count = Len(order)
        /\ Len(calls) # 1 => Len(calls') > 0 /\ InHalf(calls'[Len(calls')], Top)
    BY <1>1, <1>2, NestedPopped
  <1>4. ASSUME Len(calls) # 1
        PROVE  TopFits(order, points, calls'[Len(calls')], row, column, x)
    <2>1. PICK u : u = calls'[Len(calls')]
      OBVIOUS
    <2>2. InHalf(u, Top)
      BY <1>3, <1>4, <2>1
    <2>3. /\ u.at = "left" \/ u.at = "right"
          /\ u.at = "left" => Returned(order, x, u.from, Half(u))
          /\ u.at = "right" => Returned(order, x, u.from + Half(u), u.count - Half(u))
      BY <2>2 DEF InHalf
    <2>4. ASSUME u.from = 1, u.count = 3 PROVE points = order
      <3>1. Half(u) = 1
        BY <2>4 DEF Half
      <3>2. Top.from <= 2 /\ Top.count < 3
        BY <2>2, <2>4, <3>1 DEF InHalf
      <3>. QED
        BY <3>2
    <2>5. Fresh(order, points, u, row, column)
      BY <2>3, <2>4 DEF Fresh
    <2>. QED
      BY <2>1, <2>3, <2>5 DEF TopFits
  <1>5. stage' \in {"dividing", "done"}
    BY <1>2
  <1>6. stage' = "done" => Returned(order, distance', 1, Len(order))
    BY <1>2, <1>3
  <1>7. stage' # "done" =>
          /\ Len(calls') > 0
          /\ TopFits(order, points', calls'[Len(calls')], row', column', distance')
    BY <1>2, <1>3, <1>4
  <1>. QED
    BY <1>1, <1>2, <1>3, <1>5, <1>6, <1>7, Divided

\* brute_force returns,
LEMMA ComparedKeeps ==
  ASSUME HouseInv, Compared PROVE HouseInv'
  <1>1. /\ CallFits(order, Top) /\ TopFits(order, points, Top, row, column, distance)
        /\ order \in Seq(Points) /\ stage = "dividing" /\ Top.at = "compare"
    BY TopIs DEF Compared, At
  <1>2. Searching(order, Top, row, column, distance) /\ (Top.from <= 2 => points = order)
    BY <1>1 DEF TopFits, Fresh
  <1>3. ~(column < Beyond(Top))
    <2>1. column \in Int /\ Beyond(Top) \in Int
      BY <1>1, <1>2 DEF Searching, Beyond, CallFits, Calls
    <2>2. column >= Beyond(Top)
      BY DEF Compared
    <2>. QED
      BY <2>1, <2>2
  <1>4. Returned(order, distance, Top.from, Top.count)
    BY <1>1, <1>2, <1>3, SearchEnds
  <1>5. Return(distance)
    BY DEF Compared
  <1>. QED
    BY <1>1, <1>2, <1>4, <1>5, ReturnKeeps

\* and so does a call that has compared the pairs across its middle.
LEMMA CombinedKeeps ==
  ASSUME HouseInv, Combined PROVE HouseInv'
  <1>1. /\ CallFits(order, Top) /\ TopFits(order, points, Top, row, column, distance)
        /\ order \in Seq(Points) /\ stage = "dividing" /\ Top.at = "split"
    BY TopIs DEF Combined, At
  <1>2. Splitting(order, Top, row, column, distance) /\ Top \in Calls /\ 3 <= Top.count
    BY <1>1 DEF TopFits, CallFits
  <1>3. ~(row < Top.from + Half(Top)) /\ ~(Top.count < 3)
    <2>1. Top.from \in Nat /\ Half(Top) \in Nat /\ Top.count \in Nat
      BY <1>2, HalfIs
    <2>2. row \in Int
      BY <1>2, <2>1 DEF Splitting
    <2>3. row >= Top.from + Half(Top)
      BY DEF Combined
    <2>. QED
      BY <1>2, <2>1, <2>2, <2>3
  <1>4. PICK x : x = IF Nearer(distance, Top.best) THEN distance ELSE Top.best
    OBVIOUS
  <1>5. Returned(order, x, Top.from, Top.count)
    BY <1>1, <1>2, <1>3, <1>4, SplitEnds
  <1>6. Return(x)
    BY <1>4 DEF Combined
  <1>. QED
    BY <1>1, <1>3, <1>5, <1>6, ReturnKeeps

\* Every step keeps the invariant.
LEMMA NextHouse ==
  ASSUME HouseInv, [HouseNext]_houseVars PROVE HouseInv'
  <1>1. ASSUME UNCHANGED houseVars PROVE HouseInv'
    <2>1. /\ UNCHANGED houses /\ UNCHANGED points /\ UNCHANGED order /\ UNCHANGED calls
          /\ UNCHANGED row /\ UNCHANGED column /\ UNCHANGED distance
          /\ UNCHANGED naive /\ UNCHANGED stage
      BY <1>1 DEF houseVars
    <2>. QED
      BY <2>1 DEF HouseInv, Top, SearchesAll
  <1>2. CASE ComparePair
    BY <1>2, ComparePairKeeps
  <1>3. CASE SortByX
    BY <1>3, SortByXKeeps
  <1>4. CASE Leaf
    BY <1>4, LeafKeeps
  <1>5. CASE DivideLeft
    BY <1>5, DivideLeftKeeps
  <1>6. CASE DivideRight
    BY <1>6, DivideRightKeeps
  <1>7. CASE BeginSplit
    BY <1>7, BeginSplitKeeps
  <1>8. CASE CompareAcross
    BY <1>8, CompareAcrossKeeps
  <1>9. CASE Compared
    BY <1>9, ComparedKeeps
  <1>10. CASE Combined
    BY <1>10, CombinedKeeps
  <1>11. CASE Printed
    BY <1>1, <1>11 DEF Printed
  <1>. QED
    BY <1>1, <1>2, <1>3, <1>4, <1>5, <1>6, <1>7, <1>8, <1>9, <1>10, <1>11 DEF HouseNext

\* The points sorted have the distances of the points read.
LEMMA RearrangedDistances ==
  ASSUME NEW h, NEW o \in Seq(Points), Rearranged(h, o)
  PROVE  \A e \in Distances(o) : e \in Distances(h)
  <1>1. PICK n \in Nat : n = Len(o) /\ h \in [1..n -> Points]
    BY LenProperties DEF Rearranged
  <1>2. h \in Seq(Points) /\ Len(h) = n
    BY <1>1, LenProperties, IsASeq
  <1>3. PICK f \in [1..n -> 1..n] : IsInjective(f) /\ \A k \in 1..n : o[k] = h[f[k]]
    BY <1>1 DEF Rearranged
  <1>4. ASSUME NEW e \in Distances(o) PROVE e \in Distances(h)
    <2>1. PICK k \in 1..n, l \in 1..n : k < l /\ e = Dist(o[k], o[l])
      BY <1>1, DistancesAre
    <2>2. f[k] \in 1..n /\ f[l] \in 1..n /\ f[k] # f[l]
      BY <1>3, <2>1 DEF IsInjective
    <2>3. e = Dist(h[f[k]], h[f[l]])
      BY <1>3, <2>1
    <2>. QED
      BY <1>2, <2>2, <2>3, DistancesAre
  <1>. QED
    BY <1>4

\* At the end the invariant is the property.
LEMMA HouseFound ==
  ASSUME HouseInv PROVE ClosestDistance
  <1>1. order \in Seq(Points) /\ Rearranged(houses, order)
    BY DEF HouseInv
  <1>2. stage # "naive" /\ SearchesAll => IsClosest(naive, houses)
    BY DEF HouseInv
  <1>3. ASSUME stage = "done"
        PROVE  /\ distance \in Distances(houses)
               /\ \A k \in FirstKept..Len(order), l \in FirstKept..Len(order) :
                    k < l /\ 0 < Dist(order[k], order[l]) => distance <= Dist(order[k], order[l])
    <2>1. PICK n \in Nat : n = Len(order) /\ n >= 2
      BY <1>1, LenProperties DEF HouseInv
    <2>2. Returned(order, distance, 1, n)
      BY <1>3, <2>1 DEF HouseInv
    <2>3. distance \in Nat /\ distance < DblMax /\ Sound(order, distance) /\ DblMax \in Nat
      BY <2>1, <2>2, HousesAssumption DEF Returned
    <2>4. distance \in Distances(order)
      BY <1>1, <2>3, DistancesAre DEF Sound
    <2>5. distance \in Distances(houses)
      BY <1>1, <2>4, RearrangedDistances
    <2>6. ASSUME NEW k \in FirstKept..n, NEW l \in FirstKept..n,
                 k < l, 0 < Dist(order[k], order[l])
          PROVE  distance <= Dist(order[k], order[l])
      <3>1. FirstKept = IF n <= 3 THEN 1 ELSE 3
        BY <2>1 DEF FirstKept
      <3>2. k \in 1..1 + n - 1 /\ l \in 1..1 + n - 1 /\ FirstKept <= k
        BY <2>6, <3>1
      <3>3. Below(order, distance, k, l)
        <4>1. Covers(order, distance, 1, n)
          BY <2>2 DEF Returned
        <4>. QED
          BY <2>6, <3>2, <4>1 DEF Covers
      <3>. QED
        BY <2>1, <2>6, <3>1, <3>2, <3>3 DEF Below
    <2>. QED
      BY <2>1, <2>5, <2>6
  <1>. QED
    BY <1>2, <1>3 DEF ClosestDistance

\* house.c: what both searches report.
THEOREM DistanceIsFound == HouseSpec => []ClosestDistance
  <1>1. HouseInit => HouseInv
    BY InitHouse
  <1>2. HouseInv /\ [HouseNext]_houseVars => HouseInv'
    BY NextHouse
  <1>3. HouseInv => ClosestDistance
    BY HouseFound
  <1>. QED
    BY <1>1, <1>2, <1>3, PTL DEF HouseSpec
=============================================================================
