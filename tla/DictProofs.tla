----------------------------- MODULE DictProofs -----------------------------
(***************************************************************************)
(* Theorems about the dictionary search, for word lists of any length: it  *)
(* ends, what it returns is a word that was sought, unless it comes from   *)
(* memory that has been given back; and with an index that realloc has not *)
(* moved and differences that fit int8_t, the word too many of a right     *)
(* half costs only words near the end of the list.                         *)
(***************************************************************************)
EXTENDS Dict, WellFoundedInduction, TLAPS

\* The arithmetic of word_find_divide: the middle of a window that is divided lies
\* in the window, and both halves are smaller than it, the right one too.
LEMMA HalvesShrink ==
  ASSUME NEW n \in Nat, ~Small(n)
  PROVE  /\ Middle(n) \in Nat /\ Middle(n) < n
         /\ LeftSize(Middle(n)) \in Nat /\ LeftSize(Middle(n)) < n
         /\ RightSize(n, Middle(n)) \in Nat /\ RightSize(n, Middle(n)) < n
BY DEF Small, Middle, LeftSize, RightSize

\* What a match returns is a word of the index or the pointer from beyond it.
LEMMA PointerToType ==
  ASSUME TypeOK, NEW at \in Nat
  PROVE  PointerTo(at) \in {Missing, Wild} \union 0..count - 1
BY DEF PointerTo, Gone, TypeOK

\* The window is counted in words of the index throughout: neither its place nor
\* its size wraps, and what is returned is a word of the index unless it comes
\* from beyond it.
THEOREM TypeCorrect == Spec => []TypeOK
<1>1. Init => TypeOK
  BY MaxCountAssumption DEF Init, TypeOK, Missing, Wild
<1>2. TypeOK /\ [Next]_vars => TypeOK'
  <2> SUFFICES ASSUME TypeOK, [Next]_vars
               PROVE  TypeOK'
    OBVIOUS
  <2>1. CASE WordFindNaive
    BY <2>1 DEF WordFindNaive, TypeOK, text
  <2>2. CASE HitMiddle
    <3>1. lo + Middle(size) \in Nat
      BY <2>2, HalvesShrink DEF HitMiddle, TypeOK
    <3>2. found' \in {Missing, Wild} \union 0..count' - 1
      BY <2>2, <3>1, PointerToType DEF HitMiddle, text
    <3> QED
      BY <2>2, <3>2 DEF HitMiddle, TypeOK, text
  <2>3. CASE GoLeft
    BY <2>3, HalvesShrink DEF GoLeft, Call, TypeOK, text
  <2>4. CASE GoRight
    BY <2>4, HalvesShrink DEF GoRight, Call, TypeOK, text
  <2>5. CASE Match
    <3>1. found' \in {Missing, Wild} \union 0..count' - 1
      BY <2>5, PointerToType DEF Match, TypeOK, text
    <3> QED
      BY <2>5, <3>1 DEF Match, TypeOK, text
  <2>6. CASE Pass
    BY <2>6 DEF Pass, TypeOK, text
  <2>7. CASE NoMatch
    BY <2>7 DEF NoMatch, TypeOK, text
  <2>8. CASE Fault
    BY <2>8 DEF Fault, TypeOK, text
  <2>9. CASE UNCHANGED vars
    BY <2>9 DEF vars, text, TypeOK
  <2> QED
    BY <2>1, <2>2, <2>3, <2>4, <2>5, <2>6, <2>7, <2>8, <2>9 DEF Next, Terminated
<1> QED
  BY <1>1, <1>2, PTL DEF Spec

\* What the search returns starts with the word sought or is made from memory that
\* has been given back, which without a moving realloc only a window that reaches
\* beyond the index does: for every list, every word and wherever cmp sends it.
THEOREM HitsAreTrue == Spec => []NoFalseHit
<1>1. Init => NoFalseHit
  BY DEF Init, NoFalseHit
<1>2. TypeOK /\ NoFalseHit /\ (pc = "done" \/ found = Missing) /\ [Next]_vars => NoFalseHit'
  <2> SUFFICES ASSUME TypeOK, NoFalseHit, pc = "done" \/ found = Missing, [Next]_vars
               PROVE  NoFalseHit'
    OBVIOUS
  <2>1. CASE HitMiddle
    <3> DEFINE at == lo + Middle(size)
    <3>1. at \in Nat /\ at < lo + size
      BY <2>1, HalvesShrink DEF HitMiddle, TypeOK
    <3>2. "equal" \in Compare(at) /\ found' = PointerTo(at) /\ UNCHANGED <<text, lo, size>>
      BY <2>1 DEF HitMiddle
    <3> HIDE DEF at
    <3>3. ~Gone(at) => at = rank /\ starting > 0
      BY <3>1, <3>2 DEF Compare, Narrowed, TypeOK
    <3> QED
      BY <3>1, <3>2, <3>3 DEF PointerTo, Gone, NoFalseHit, TypeOK, text
  <2>2. CASE Match
    <3>1. ~Gone(i) => i \in rank..rank + starting - 1
      BY <2>2 DEF Match, Starts, TypeOK
    <3> QED
      BY <2>2, <3>1 DEF Match, PointerTo, Gone, NoFalseHit, TypeOK, text
  <2>3. CASE NoMatch
    BY <2>3 DEF NoMatch, NoFalseHit
  <2>4. CASE WordFindNaive \/ GoLeft \/ GoRight \/ Pass
    BY <2>4 DEF WordFindNaive, GoLeft, GoRight, Pass, NoFalseHit
  <2>5. CASE UNCHANGED <<text, lo, size, found>>
    BY <2>5 DEF NoFalseHit, text
  <2> QED
    BY <2>1, <2>2, <2>3, <2>4, <2>5 DEF Next, vars, text, Fault, Terminated
<1>3. Init => pc = "done" \/ found = Missing
  BY DEF Init
<1>4. (pc = "done" \/ found = Missing) /\ [Next]_vars => (pc = "done" \/ found = Missing)'
  BY DEF Next, vars, WordFindNaive, HitMiddle, GoLeft, GoRight, Match, Pass, NoMatch, Fault, Terminated
<1> QED
  BY <1>1, <1>2, <1>3, <1>4, TypeCorrect, PTL DEF Spec

\* The recursion of word_find_divide ends for every list: a call from which the
\* search goes left or right is on more words than the call it makes.
THEOREM RecursionEnds == Spec => CallsShrink
<1>1. TypeOK /\ [Next]_vars => [lo' # lo \/ size' # size => size' < size]_vars
  <2> SUFFICES ASSUME TypeOK, [Next]_vars, lo' # lo \/ size' # size
               PROVE  size' < size
    OBVIOUS
  <2>1. CASE GoLeft
    BY <2>1, HalvesShrink DEF GoLeft, Call, TypeOK
  <2>2. CASE GoRight
    BY <2>2, HalvesShrink DEF GoRight, Call, TypeOK
  <2> QED
    BY <2>1, <2>2 DEF Next, vars, WordFindNaive, HitMiddle, Match, Pass, NoMatch,
                      Fault, Terminated
<1> QED
  BY <1>1, TypeCorrect, PTL DEF Spec, CallsShrink
-----------------------------------------------------------------------------
(* Powers of two.                                                          *)

LEMMA Least ==
  ASSUME NEW B \in SUBSET Nat, B # {}
  PROVE  \E m \in B : \A n \in B : m <= n
<1>1. PICK m \in B : \A n \in B : ~ (<<n, m>> \in OpToRel(<, Nat))
  BY WFMin, NatLessThanWellFounded
<1>2. \A n \in B : ~ (n < m)
  BY <1>1 DEF OpToRel
<1> QED
  BY <1>2

\* A table of the first powers.
Table(t, m) == /\ t = [n \in 0..m |-> t[n]] /\ t[0] = 1
               /\ \A n \in 1..m : t[n] = 2 * t[n - 1]

LEMMA TableExists ==
  ASSUME NEW k \in Nat
  PROVE  \E t : Table(t, k)
<1> DEFINE Bad == {m \in Nat : ~ \E t : Table(t, m)}
<1> SUFFICES ASSUME Bad # {} PROVE FALSE
  OBVIOUS
<1>1. PICK m \in Bad : \A n \in Bad : m <= n
  <2>1. Bad \in SUBSET Nat
    OBVIOUS
  <2> HIDE DEF Bad
  <2> QED
    BY <2>1, Least
<1>2. m \in Nat /\ ~ \E t : Table(t, m)
  OBVIOUS
<1>3. CASE m = 0
  <2>1. PICK t : t = [n \in 0..0 |-> 1]
    OBVIOUS
  <2>2. Table(t, m)
    BY <1>3, <2>1 DEF Table
  <2> QED
    BY <1>2, <2>2
<1>4. CASE m # 0
  <2>1. m - 1 \in Nat /\ ~ (m <= m - 1)
    BY <1>2, <1>4
  <2>2. PICK g : Table(g, m - 1)
    BY <1>1, <2>1
  <2>3. PICK t : t = [n \in 0..m |-> IF n = m THEN 2 * g[m - 1] ELSE g[n]]
    OBVIOUS
  <2>4. /\ t = [n \in 0..m |-> t[n]] /\ t[0] = 1
        /\ t[m] = 2 * t[m - 1]
    BY <1>2, <1>4, <2>2, <2>3 DEF Table
  <2>5. ASSUME NEW n \in 1..m PROVE t[n] = 2 * t[n - 1]
    <3>1. CASE n = m
      BY <2>4, <3>1
    <3>2. CASE n # m
      <4>1. n \in 1..m - 1 /\ n - 1 \in 0..m /\ n - 1 # m
        BY <1>2, <3>2
      <4>2. t[n] = g[n] /\ t[n - 1] = g[n - 1]
        BY <1>2, <2>3, <3>2, <4>1
      <4> QED
        BY <2>2, <4>1, <4>2 DEF Table
    <3> QED
      BY <3>1, <3>2
  <2>6. Table(t, m)
    BY <2>4, <2>5 DEF Table
  <2> QED
    BY <1>2, <2>6
<1> QED
  BY <1>3, <1>4

LEMMA TablesAgree ==
  ASSUME NEW a \in Nat, NEW b \in Nat, NEW t, NEW u,
         Table(t, a), Table(u, b)
  PROVE  \A n \in 0..a : n <= b => t[n] = u[n]
<1> DEFINE Bad == {n \in 0..a : n <= b /\ t[n] # u[n]}
<1> SUFFICES ASSUME Bad # {} PROVE FALSE
  OBVIOUS
<1>1. PICK m \in Bad : \A n \in Bad : m <= n
  <2>1. Bad \in SUBSET Nat
    OBVIOUS
  <2> HIDE DEF Bad
  <2> QED
    BY <2>1, Least
<1>2. m \in 0..a /\ m <= b /\ t[m] # u[m]
  OBVIOUS
<1>3. m # 0
  BY <1>2 DEF Table
<1>4. m \in 1..a /\ m \in 1..b /\ m - 1 \in 0..a /\ m - 1 <= b /\ ~ (m <= m - 1)
  BY <1>2, <1>3
<1>5. t[m - 1] = u[m - 1]
  BY <1>1, <1>4
<1>6. t[m] = 2 * t[m - 1] /\ u[m] = 2 * u[m - 1]
  BY <1>4 DEF Table
<1> QED
  BY <1>2, <1>5, <1>6

\* Pow2 is the recursive function its definition says, and it grows.
LEMMA Pow2Def ==
  /\ Pow2[0] = 1
  /\ \A n \in Nat : n # 0 => Pow2[n] = 2 * Pow2[n - 1]
<1> DEFINE T(n) == CHOOSE t : Table(t, n)
           p == [n \in Nat |-> T(n)[n]]
<1>1. \A n \in Nat : Table(T(n), n)
  BY TableExists
<1>2. p[0] = 1
  BY <1>1 DEF Table
<1>3. ASSUME NEW n \in Nat, n # 0 PROVE p[n] = 2 * p[n - 1]
  <2>1. n - 1 \in Nat /\ n - 1 \in 0..n - 1 /\ n \in 1..n /\ n - 1 <= n
    BY <1>3
  <2>2. Table(T(n), n) /\ Table(T(n - 1), n - 1)
    BY <1>1, <2>1
  <2> HIDE DEF T
  <2>3. T(n - 1)[n - 1] = T(n)[n - 1]
    BY <2>1, <2>2, TablesAgree
  <2>4. T(n)[n] = 2 * T(n)[n - 1]
    BY <2>1, <2>2 DEF Table
  <2> QED
    BY <2>1, <2>3, <2>4
<1> HIDE DEF p
<1>4. p = [n \in Nat |-> IF n = 0 THEN 1 ELSE 2 * p[n - 1]]
  <2>1. p = [n \in Nat |-> p[n]]
    BY DEF p
  <2>2. \A n \in Nat : p[n] = IF n = 0 THEN 1 ELSE 2 * p[n - 1]
    BY <1>2, <1>3
  <2> QED
    BY <2>1, <2>2
<1>5. Pow2 = [n \in Nat |-> IF n = 0 THEN 1 ELSE 2 * Pow2[n - 1]]
  BY <1>4 DEF Pow2
<1> QED
  BY <1>5

LEMMA Pow2Grows ==
  /\ \A n \in Nat : Pow2[n] \in Nat /\ Pow2[n] >= 1
  /\ \A m, n \in Nat : m <= n => Pow2[m] <= Pow2[n]
<1>1. \A n \in Nat : Pow2[n] \in Nat /\ Pow2[n] >= 1
  <2> DEFINE Bad == {n \in Nat : ~(Pow2[n] \in Nat /\ Pow2[n] >= 1)}
  <2> SUFFICES ASSUME Bad # {} PROVE FALSE
    OBVIOUS
  <2>1. PICK m \in Bad : \A n \in Bad : m <= n
    <3>1. Bad \in SUBSET Nat
      OBVIOUS
    <3> HIDE DEF Bad
    <3> QED
      BY <3>1, Least
  <2>2. m \in Nat /\ ~(Pow2[m] \in Nat /\ Pow2[m] >= 1)
    OBVIOUS
  <2>3. m # 0
    BY <2>2, Pow2Def
  <2>4. m - 1 \in Nat /\ ~ (m <= m - 1)
    BY <2>2, <2>3
  <2>5. Pow2[m - 1] \in Nat /\ Pow2[m - 1] >= 1
    BY <2>1, <2>4
  <2>6. Pow2[m] = 2 * Pow2[m - 1]
    BY <2>2, <2>3, Pow2Def
  <2> QED
    BY <2>2, <2>5, <2>6
<1>2. ASSUME NEW m \in Nat, NEW n \in Nat, m <= n PROVE Pow2[m] <= Pow2[n]
  <2> DEFINE Bad == {k \in Nat : m <= k /\ ~(Pow2[m] <= Pow2[k])}
  <2> SUFFICES ASSUME Bad # {} PROVE FALSE
    BY <1>2
  <2>1. PICK k \in Bad : \A j \in Bad : k <= j
    <3>1. Bad \in SUBSET Nat
      OBVIOUS
    <3> HIDE DEF Bad
    <3> QED
      BY <3>1, Least
  <2>2. k \in Nat /\ m <= k /\ ~(Pow2[m] <= Pow2[k])
    OBVIOUS
  <2>3. k # m /\ k # 0
    BY <1>1, <2>2
  <2>4. k - 1 \in Nat /\ m <= k - 1 /\ ~ (k <= k - 1)
    BY <2>2, <2>3
  <2>5. Pow2[m] <= Pow2[k - 1]
    BY <2>1, <2>4
  <2>6. Pow2[k] = 2 * Pow2[k - 1]
    BY <2>2, <2>3, Pow2Def
  <2> QED
    BY <1>1, <2>2, <2>4, <2>5, <2>6
<1> QED
  BY <1>1, <1>2
-----------------------------------------------------------------------------
(* Where the word is while the search goes on.                             *)

\* After m calls the window is the smaller for it and has moved at most m words
\* past the index.
Reached(words, n, m) ==
  /\ words + n <= count + m
  /\ (n - 3) * Pow2[m] <= count - 3
  /\ m = 0 \/ count >= 4
Turns(m) == Reached(lo, size, m)

Windows ==
  /\ \E m \in Nat : Turns(m)
  /\ pc = "naive" => lo <= i /\ size <= 3

\* The word sought, far enough from the end of the index, is in the window and
\* is not passed over.
Far  == Reliable /\ exact /\ 4 * Pow2[count - rank] >= count
Kept ==
  Far => /\ lo <= rank /\ rank < lo + size
         /\ pc = "naive" => i <= rank
         /\ pc # "fault"
         /\ pc = "done" => found = rank

\* So is the place of a word that need not be in the list.
Bounded ==
  Reliable /\ Pow2[count - rank] > count =>
    /\ lo <= rank /\ rank <= lo + size
    /\ pc # "fault" /\ found # Wild

IInv == TypeOK /\ Windows /\ Kept /\ Bounded

LEMMA Product ==
  ASSUME NEW a \in Int, NEW b \in Int, NEW p \in Nat, a <= b
  PROVE  a * p <= b * p
OBVIOUS

LEMMA CallTurns ==
  ASSUME TypeOK, NEW m \in Nat, Turns(m), ~Small(size),
         NEW words \in Nat, NEW n \in Nat,
         2 * (n - 3) <= size - 3, words + n <= lo + size + 1
  PROVE  Reached(words, n, m + 1)
<1> DEFINE p == Pow2[m]
<1>1. p \in Nat /\ p >= 1 /\ Pow2[m + 1] = 2 * p
  <2>1. m + 1 \in Nat /\ m + 1 # 0 /\ (m + 1) - 1 = m
    OBVIOUS
  <2> QED
    BY <2>1, Pow2Def, Pow2Grows
<1>2. size \in Nat /\ size >= 4 /\ count \in Nat /\ lo \in Nat
  BY DEF TypeOK, Small
<1>3. (size - 3) * p <= count - 3
  BY DEF Turns, Reached
<1> HIDE DEF p
<1>4. PICK a \in Int, b \in Int : a = 2 * (n - 3) /\ b = size - 3
  BY <1>2
<1>5. a * p <= b * p /\ b * p <= count - 3 /\ a * p \in Int /\ b * p \in Int
  <2>1. a <= b
    BY <1>4
  <2> QED
    BY <1>1, <1>3, <1>4, <2>1, Product
<1>6. (n - 3) * (2 * p) <= count - 3
  <2>1. PICK c \in Int : c = n - 3
    OBVIOUS
  <2>2. c * (2 * p) = a * p
    BY <1>1, <1>4, <2>1
  <2>3. a * p <= count - 3
    BY <1>2, <1>5
  <2> QED
    BY <2>1, <2>2, <2>3
<1>7. count >= 4
  <2>1. 1 * p <= (size - 3) * p
    BY <1>1, <1>2, Product
  <2> QED
    BY <1>1, <1>2, <1>3, <2>1
<1>8. words + n <= count + (m + 1)
  BY <1>2 DEF Turns, Reached
<1> QED
  BY <1>1, <1>6, <1>7, <1>8 DEF Turns, Reached

\* Where a word beyond the index is looked at, the one sought is near its end.
LEMMA DividesInside ==
  ASSUME IInv, ~Small(size), lo <= rank, lo + Middle(size) >= count
  PROVE  4 * Pow2[count - rank] <= count - 3
<1>1. PICK m \in Nat : Turns(m)
  BY DEF IInv, Windows
<1>2. size \in Nat /\ size >= 4 /\ count \in Nat /\ lo \in Nat /\ rank \in 0..count
  BY DEF IInv, TypeOK, Small
<1>. DEFINE d == count - rank
<1>3. d \in Nat /\ m >= d + 2
  BY <1>1, <1>2 DEF Turns, Reached, Middle
<1>4. Pow2[d + 2] = 4 * Pow2[d] /\ Pow2[d + 2] <= Pow2[m] /\ Pow2[m] \in Nat /\ Pow2[d] \in Nat
  <2>1. /\ d + 2 \in Nat /\ d + 2 # 0 /\ (d + 2) - 1 = d + 1
        /\ d + 1 \in Nat /\ d + 1 # 0 /\ (d + 1) - 1 = d
    BY <1>3
  <2> HIDE DEF d
  <2>2. Pow2[d + 2] = 2 * Pow2[d + 1] /\ Pow2[d + 1] = 2 * Pow2[d]
    BY <2>1, Pow2Def
  <2> QED
    BY <1>3, <2>1, <2>2, Pow2Grows
<1>. HIDE DEF d
<1>5. 1 * Pow2[m] <= (size - 3) * Pow2[m]
  BY <1>2, <1>4, Product
<1>6. (size - 3) * Pow2[m] <= count - 3
  BY <1>1 DEF Turns, Reached
<1>7. Pow2[m] <= count - 3
  <2>. DEFINE q == (size - 3) * Pow2[m]
  <2>1. Pow2[m] <= q /\ q <= count - 3 /\ q \in Int
    BY <1>2, <1>4, <1>5, <1>6
  <2>. HIDE DEF q
  <2> QED
    BY <1>2, <1>4, <2>1
<1> QED
  BY <1>2, <1>4, <1>7 DEF d

LEMMA NaiveInside ==
  ASSUME IInv, pc = "naive", i < lo + size, i >= count, lo <= rank
  PROVE  Pow2[count - rank] <= count
<1>1. PICK m \in Nat : Turns(m)
  BY DEF IInv, Windows
<1>2. /\ size \in Nat /\ size <= 3 /\ count \in Nat /\ lo \in Nat /\ rank \in 0..count
      /\ i \in Nat
  BY DEF IInv, TypeOK, Windows
<1>3. count - rank \in 0..2 /\ m # 0
  BY <1>1, <1>2 DEF Turns, Reached
<1>4. count >= 4
  BY <1>1, <1>3 DEF Turns, Reached
<1>5. Pow2[0] = 1 /\ Pow2[1] = 2 /\ Pow2[2] = 4
  <2>1. 1 - 1 = 0 /\ 2 - 1 = 1
    OBVIOUS
  <2> QED
    BY <2>1, Pow2Def
<1>6. Pow2[count - rank] <= 4
  <2>1. count - rank = 0 \/ count - rank = 1 \/ count - rank = 2
    BY <1>3
  <2> QED
    BY <1>5, <2>1
<1> QED
  BY <1>2, <1>3, <1>4, <1>6, Pow2Grows

\* What the search knows of the word when it is kept, in either sense.
LEMMA LooksInside ==
  ASSUME IInv, Far \/ (Reliable /\ Pow2[count - rank] > count)
  PROVE  /\ lo <= rank
         /\ pc = "divide" /\ ~Small(size) => lo + Middle(size) < count
         /\ pc = "naive" /\ i < lo + size => i < count
<1>1. lo <= rank
  BY DEF IInv, Kept, Bounded
<1>2. count \in Nat /\ rank \in 0..count /\ lo \in Nat /\ size \in Nat /\ i \in Nat
  BY DEF IInv, TypeOK
<1>3. Pow2[count - rank] \in Nat
  BY <1>2, Pow2Grows
<1>4. ASSUME ~Small(size) PROVE lo + Middle(size) < count
  <2>1. Middle(size) \in Nat
    BY <1>2, <1>4, HalvesShrink
  <2> SUFFICES ASSUME lo + Middle(size) >= count PROVE FALSE
    BY <1>2, <2>1
  <2>2. 4 * Pow2[count - rank] <= count - 3
    BY <1>1, <1>4, DividesInside
  <2> QED
    BY <1>2, <1>3, <2>2 DEF Far
<1>5. ASSUME pc = "naive", i < lo + size PROVE i < count
  <2>1. CASE Far
    <3>1. i <= rank /\ starting > 0 /\ starting \in 0..count - rank
      BY <1>5, <2>1 DEF IInv, Kept, Far, TypeOK
    <3> QED
      BY <1>2, <3>1
  <2>2. CASE Pow2[count - rank] > count
    <3> SUFFICES ASSUME i >= count PROVE FALSE
      BY <1>2
    <3>1. Pow2[count - rank] <= count
      BY <1>1, <1>5, NaiveInside
    <3> QED
      BY <1>2, <1>3, <2>2, <3>1
  <2> QED
    BY <2>1, <2>2
<1> QED
  BY <1>1, <1>4, <1>5

LEMMA InitWindows ==
  ASSUME Init PROVE IInv
<1>1. /\ count \in Nat /\ rank \in 0..count /\ starting \in 0..count - rank
      /\ exact \in BOOLEAN /\ (exact => starting > 0)
      /\ moved \in BOOLEAN /\ fits \in BOOLEAN
      /\ lo = 0 /\ size = count /\ pc = "divide" /\ i = 0 /\ found = Missing
  BY MaxCountAssumption DEF Init
<1>2. TypeOK
  BY <1>1 DEF TypeOK
<1>3. Turns(0)
  <2>1. (count - 3) * 1 = count - 3
    BY <1>1
  <2> QED
    BY <1>1, <2>1, Pow2Def DEF Turns, Reached
<1>4. Windows
  BY <1>1, <1>3 DEF Windows
<1>5. Kept
  BY <1>1 DEF Kept, Far
<1>6. Bounded
  BY <1>1 DEF Bounded, Missing, Wild
<1> QED
  BY <1>2, <1>4, <1>5, <1>6 DEF IInv

LEMMA StepWindows ==
  ASSUME IInv, [Next]_vars, TypeOK' PROVE IInv'
<1>1. /\ count \in Nat /\ rank \in 0..count /\ starting \in 0..count - rank
      /\ exact => starting > 0
      /\ lo \in Nat /\ size \in Nat /\ i \in Nat
  BY DEF IInv, TypeOK
<1>2. /\ Far => lo <= rank /\ rank < lo + size /\ (pc = "naive" => i <= rank)
      /\ Reliable /\ Pow2[count - rank] > count => lo <= rank /\ rank <= lo + size
  BY DEF IInv, Kept, Bounded
<1>3. Windows
  BY DEF IInv
<1>4. CASE WordFindNaive
  <2>1. /\ count' = count /\ rank' = rank /\ exact' = exact /\ Reliable' = Reliable /\ lo' = lo /\ size' = size
        /\ found' = found /\ pc' = "naive" /\ i' = lo /\ size <= 3
    BY <1>1, <1>4 DEF WordFindNaive, text, Small, Reliable
  <2>2. Windows'
    BY <1>1, <1>3, <2>1 DEF Windows, Turns, Reached
  <2>3. Kept' /\ Bounded'
    BY <1>2, <2>1 DEF Kept, Bounded, Far, IInv
  <2> QED
    BY <2>2, <2>3 DEF IInv
<1>5. CASE HitMiddle \/ Match
  <2>1. PICK at \in Nat :
          /\ found' = PointerTo(at) /\ pc' = "done"
          /\ \/ /\ pc = "divide" /\ ~Small(size) /\ at = lo + Middle(size)
                /\ "equal" \in Compare(at)
             \/ pc = "naive" /\ at = i /\ i < lo + size /\ Starts(at)
    <3>1. CASE HitMiddle
      <4>1. lo + Middle(size) \in Nat
        BY <1>1, <3>1, HalvesShrink DEF HitMiddle
      <4> QED
        BY <3>1, <4>1 DEF HitMiddle
    <3>2. CASE Match
      BY <1>1, <3>2 DEF Match
    <3> QED
      BY <1>5, <3>1, <3>2
  <2>2. /\ count' = count /\ rank' = rank /\ exact' = exact /\ Reliable' = Reliable /\ lo' = lo /\ size' = size
    BY <1>5 DEF HitMiddle, Match, text, Reliable
  <2>3. Windows'
    BY <1>3, <2>1, <2>2 DEF Windows, Turns, Reached
  <2>4. Kept'
    <3> SUFFICES ASSUME Far PROVE lo <= rank /\ rank < lo + size /\ found' = rank
      BY <2>1, <2>2 DEF Kept, Far
    <3>1. at < count
      BY <2>1, LooksInside
    <3>2. at = rank
      BY <1>1, <1>2, <2>1, <3>1 DEF Compare, Narrowed, Gone, Starts, Far, Reliable
    <3> QED
      BY <1>1, <1>2, <2>1, <3>1, <3>2 DEF PointerTo, Gone, Far, Reliable
  <2>5. Bounded'
    <3> SUFFICES ASSUME Reliable, Pow2[count - rank] > count
                 PROVE  lo <= rank /\ rank <= lo + size /\ found' # Wild
      BY <2>1, <2>2 DEF Bounded
    <3>1. at < count
      BY <2>1, LooksInside
    <3> QED
      BY <1>1, <1>2, <2>1, <3>1 DEF PointerTo, Gone, Reliable, Wild
  <2> QED
    BY <2>3, <2>4, <2>5 DEF IInv
<1>6. CASE GoLeft \/ GoRight
  <2>. DEFINE at == lo + Middle(size)
  <2>1. /\ pc = "divide" /\ pc' = "divide" /\ ~Small(size) /\ found' = found
        /\ count' = count /\ rank' = rank /\ exact' = exact /\ Reliable' = Reliable
    BY <1>6 DEF GoLeft, GoRight, text, Reliable
  <2>2. PICK m \in Nat : Turns(m)
    BY <1>3 DEF Windows
  <2>3. at \in Nat /\ Middle(size) \in Nat /\ Middle(size) < size
    BY <1>1, <2>1, HalvesShrink
  <2>4. \/ /\ lo' = lo /\ size' = Middle(size) /\ "less" \in Compare(at)
        \/ /\ lo' = at + 1 /\ size' = size - Middle(size) /\ "greater" \in Compare(at)
    BY <1>6 DEF GoLeft, GoRight, Call, LeftSize, RightSize
  <2>5. PICK words \in Nat, n \in Nat : words = lo' /\ n = size'
    BY DEF TypeOK
  <2>6. 2 * (n - 3) <= size - 3 /\ words + n <= lo + size + 1
    <3>1. CASE words = lo /\ n = Middle(size)
      BY <1>1, <2>3, <3>1 DEF Middle
    <3>2. CASE words = at + 1 /\ n = size - Middle(size)
      BY <1>1, <2>3, <3>2 DEF Middle
    <3> QED
      BY <2>4, <2>5, <3>1, <3>2
  <2>7. Reached(words, n, m + 1)
    BY <2>1, <2>2, <2>6, CallTurns DEF IInv
  <2>8. Windows'
    <3>1. Turns(m + 1)'
      BY <2>1, <2>5, <2>7 DEF Turns, Reached
    <3> QED
      BY <2>1, <3>1 DEF Windows
  <2>9. Kept'
    <3> SUFFICES ASSUME Far PROVE words <= rank /\ rank < words + n
      BY <2>1, <2>5 DEF Kept, Far
    <3>1. at < count
      BY <2>1, LooksInside
    <3>2. exact /\ lo <= rank /\ rank < lo + size
      BY <1>2 DEF Far
    <3> HIDE DEF at
    <3>3. CASE words = lo /\ n = Middle(size) /\ "less" \in Compare(at)
      <4>1. rank < at
        BY <1>1, <2>3, <3>1, <3>2, <3>3 DEF Compare, Narrowed, Gone, Far, Reliable
      <4> QED
        BY <3>2, <3>3, <4>1 DEF at
    <3>4. CASE words = at + 1 /\ n = size - Middle(size) /\ "greater" \in Compare(at)
      <4>1. at < rank
        BY <1>1, <2>3, <3>1, <3>2, <3>4 DEF Compare, Narrowed, Gone, Far, Reliable
      <4>2. words + n = lo + size + 1
        BY <1>1, <2>3, <3>4 DEF at
      <4> QED
        BY <1>1, <2>3, <3>2, <3>4, <4>1, <4>2
    <3> QED
      BY <2>4, <2>5, <3>3, <3>4
  <2>10. Bounded'
    <3> SUFFICES ASSUME Reliable, Pow2[count - rank] > count
                 PROVE  words <= rank /\ rank <= words + n
      BY <2>1, <2>5 DEF Bounded, IInv
    <3>1. at < count
      BY <2>1, LooksInside
    <3>2. lo <= rank /\ rank <= lo + size
      BY <1>2
    <3> HIDE DEF at
    <3>3. CASE words = lo /\ n = Middle(size) /\ "less" \in Compare(at)
      <4>1. rank <= at
        BY <1>1, <2>3, <3>1, <3>3 DEF Compare, Narrowed, Gone, Far, Reliable
      <4> QED
        BY <3>2, <3>3, <4>1 DEF at
    <3>4. CASE words = at + 1 /\ n = size - Middle(size) /\ "greater" \in Compare(at)
      <4>1. at < rank
        BY <1>1, <2>3, <3>1, <3>4 DEF Compare, Narrowed, Gone, Far, Reliable
      <4>2. words + n = lo + size + 1
        BY <1>1, <2>3, <3>4 DEF at
      <4> QED
        BY <1>1, <2>3, <3>2, <3>4, <4>1, <4>2
    <3> QED
      BY <2>4, <2>5, <3>3, <3>4
  <2> QED
    BY <2>8, <2>9, <2>10 DEF IInv
<1>7. CASE Pass
  <2>1. /\ count' = count /\ rank' = rank /\ exact' = exact /\ Reliable' = Reliable /\ lo' = lo /\ size' = size
        /\ found' = found /\ pc = "naive" /\ pc' = "naive" /\ i' = i + 1
        /\ i < lo + size /\ Differs(i)
    BY <1>7 DEF Pass, text, Reliable
  <2>2. Windows'
    BY <1>1, <1>3, <2>1 DEF Windows, Turns, Reached
  <2>3. Kept'
    <3> SUFFICES ASSUME Far PROVE lo <= rank /\ rank < lo + size /\ i + 1 <= rank
      BY <2>1 DEF Kept, Far
    <3>1. i < count
      BY <2>1, LooksInside
    <3>2. i # rank
      BY <1>1, <2>1, <3>1 DEF Differs, Gone, Far, Reliable
    <3> QED
      BY <1>1, <1>2, <2>1, <3>2
  <2>4. Bounded'
    BY <2>1 DEF Bounded, IInv
  <2> QED
    BY <2>2, <2>3, <2>4 DEF IInv
<1>8. CASE NoMatch
  <2>1. /\ count' = count /\ rank' = rank /\ exact' = exact /\ Reliable' = Reliable /\ lo' = lo /\ size' = size
        /\ found' = Missing /\ pc = "naive" /\ pc' = "done" /\ i >= lo + size
    BY <1>8 DEF NoMatch, text, Reliable
  <2>2. Windows'
    BY <1>3, <2>1 DEF Windows, Turns, Reached
  <2>3. Kept'
    BY <1>1, <1>2, <2>1 DEF Kept, Far
  <2>4. Bounded'
    BY <1>2, <2>1 DEF Bounded, Missing, Wild
  <2> QED
    BY <2>2, <2>3, <2>4 DEF IInv
<1>9. CASE Fault
  <2>1. /\ count' = count /\ rank' = rank /\ exact' = exact /\ Reliable' = Reliable /\ lo' = lo /\ size' = size
        /\ found' = found /\ pc' = "fault"
        /\ \/ pc = "divide" /\ ~Small(size) /\ Gone(lo + Middle(size))
           \/ pc = "naive" /\ i < lo + size /\ Gone(i)
    BY <1>9 DEF Fault, text, Reliable
  <2>2. ~Far /\ ~(Reliable /\ Pow2[count - rank] > count)
    <3> SUFFICES ASSUME Far \/ (Reliable /\ Pow2[count - rank] > count) PROVE FALSE
      OBVIOUS
    <3>1. /\ pc = "divide" /\ ~Small(size) => lo + Middle(size) < count /\ Middle(size) \in Nat
          /\ pc = "naive" /\ i < lo + size => i < count
      BY <1>1, LooksInside, HalvesShrink
    <3> QED
      BY <1>1, <2>1, <3>1 DEF Far, Reliable, Gone
  <2>3. Windows'
    BY <1>3, <2>1 DEF Windows, Turns, Reached
  <2> QED
    BY <2>1, <2>2, <2>3 DEF IInv, Kept, Far, Bounded
<1>10. CASE Terminated \/ UNCHANGED vars
  BY <1>10 DEF Terminated, vars, IInv, TypeOK, Windows, Turns, Reached, Kept, Far,
               Bounded, Reliable
<1> QED
  BY <1>4, <1>5, <1>6, <1>7, <1>8, <1>9, <1>10 DEF Next

LEMMA WindowsHold == Spec => []IInv
<1>1. Init => IInv
  BY InitWindows
<1>2. IInv /\ [Next]_vars /\ TypeOK' => IInv'
  BY StepWindows
<1> QED
  BY <1>1, <1>2, TypeCorrect, PTL DEF Spec

\* With an index that realloc has left in place and differences that fit int8_t, a
\* word of the list with enough words after it is found at its place, for lists of
\* any length, although the windows of the search reach beyond the list.
THEOREM WordsAreFound == Spec => []FoundAwayFromTheEnd
<1>1. IInv => FoundAwayFromTheEnd
  BY DEF IInv, Kept, Far, FoundAwayFromTheEnd
<1> QED
  BY <1>1, WindowsHold, PTL

\* Under the same two conditions the search leaves the index only for a word with
\* few after it: so few that the windows cannot be halved down to them first.
THEOREM LeftForTheLast == Spec => []BeyondOnlyForTheLast
<1>1. IInv => BeyondOnlyForTheLast
  <2> SUFFICES ASSUME IInv, Reliable, found = Wild \/ pc = "fault"
               PROVE  Pow2[count - rank] <= count
    BY DEF BeyondOnlyForTheLast
  <2>1. ~(Pow2[count - rank] > count)
    BY DEF IInv, Bounded
  <2>2. count \in Nat /\ count - rank \in Nat
    BY DEF IInv, TypeOK
  <2>3. Pow2[count - rank] \in Nat
    BY <2>2, Pow2Grows
  <2> QED
    BY <2>1, <2>2, <2>3
<1> QED
  BY <1>1, WindowsHold, PTL
=============================================================================
