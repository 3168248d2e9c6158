-------------------------------- MODULE Dict --------------------------------
(***************************************************************************)
(* dict.c: word_find_divide, the binary search over the index of a sorted  *)
(* word list, and word_find_naive, with which it ends.  One action is one  *)
(* call, or one turn of the naive loop.                                    *)
(*                                                                         *)
(* What the comparisons see of the text is three numbers: "rank" words are *)
(* smaller than the one sought, "exact" says whether the next one is equal *)
(* to it, and "starting" words, from there on, have it as a prefix.  There *)
(* is no more to tell for a sorted list without duplicates whose places    *)
(* and sizes the entries hold (Lines says what becomes of others).         *)
(*                                                                         *)
(* "fits" says whether int8_t holds every difference that cmp makes one    *)
(* of, of bytes (UTF-8 against ASCII does not fit) and of sizes (a word    *)
(* longer by more than 128 does not): if not, a word may be taken for      *)
(* smaller or greater.  None is taken for equal: no memcmp in use returns  *)
(* a multiple of 256.                                                      *)
(*                                                                         *)
(* The right half is taken one word too long.  An index past the last word *)
(* is read from memory that main has given back with realloc; and if this  *)
(* realloc has moved the block, which "moved" says, every entry is, since  *)
(* words still points into the old one.  Such an entry may look like any   *)
(* word, and reading it may end the program.                               *)
(***************************************************************************)
EXTENDS Integers

CONSTANT MaxCount                \* bound: the words of the file
ASSUME MaxCountAssumption == MaxCount \in Nat

Missing == -1      \* the search returns NULL
Wild    == -2      \* or a pointer made from memory that has been given back

VARIABLES
  count, rank, exact, starting, moved, fits,
  lo, size,        \* the window: the arguments words and words_size
  pc,              \* "divide" | "naive" | "done" | "fault"
  i,               \* the counter of word_find_naive
  found            \* what the search returns

vars == <<count, rank, exact, starting, moved, fits, lo, size, pc, i, found>>
text == <<count, rank, exact, starting, moved, fits>>

Init ==
  /\ count \in 0..MaxCount
  /\ rank \in 0..count
  /\ starting \in 0..count - rank
  /\ exact \in BOOLEAN /\ (exact => starting > 0)
  /\ moved \in BOOLEAN /\ fits \in BOOLEAN
  /\ lo = 0 /\ size = count
  /\ pc = "divide" /\ i = 0 /\ found = Missing
-----------------------------------------------------------------------------
\* The entry words[at] has been given back.
Gone(at) == moved \/ at >= count

\* What the sign of a difference becomes in int8_t
Narrowed(sign) == IF fits THEN {sign} ELSE {"less", "greater"}

\* Mutant: cmp is given its words the other way round.
CompareSwapped(at) ==
  IF Gone(at) THEN {"less", "equal", "greater"}
  ELSE IF at = rank /\ exact THEN {"equal"}
  ELSE Narrowed(IF at < rank THEN "less" ELSE "greater")

\* cmp of the word sought and words[at]
Compare(at) ==
  IF Gone(at) THEN {"less", "equal", "greater"}
  ELSE IF at = rank /\ exact THEN {"equal"}
  ELSE Narrowed(IF at < rank THEN "greater" ELSE "less")

\* Whether memcmp of words[at] and the word sought can find them equal over the
\* length of the latter, and whether it can find them different
Starts(at)  == Gone(at) \/ at \in rank..rank + starting - 1
Differs(at) == Gone(at) \/ at \notin rank..rank + starting - 1

\* Mutants: a window of two is divided; the left half loses its last word; what is
\* found is said to be the next word.
SmallOne(n)      == n <= 1
LeftSizeShort(m) == m - 1
PointerToNext(at) == IF Gone(at) THEN Wild ELSE at + 1

\* What a match at words[at] returns.
PointerTo(at) == IF Gone(at) THEN Wild ELSE at
-----------------------------------------------------------------------------
Small(n)        == n <= 3
Middle(n)       == n \div 2 - 1
LeftSize(m)     == m
RightSize(n, m) == n - m

Call(words, n) == lo' = words /\ size' = n

WordFindNaive ==
  /\ pc = "divide" /\ Small(size)
  /\ pc' = "naive" /\ i' = lo
  /\ UNCHANGED <<text, lo, size, found>>

HitMiddle ==
  /\ pc = "divide" /\ ~Small(size)
  /\ "equal" \in Compare(lo + Middle(size))
  /\ found' = PointerTo(lo + Middle(size))
  /\ pc' = "done"
  /\ UNCHANGED <<text, lo, size, i>>

GoLeft ==
  /\ pc = "divide" /\ ~Small(size)
  /\ "less" \in Compare(lo + Middle(size))
  /\ Call(lo, LeftSize(Middle(size)))
  /\ UNCHANGED <<text, pc, i, found>>

GoRight ==
  /\ pc = "divide" /\ ~Small(size)
  /\ "greater" \in Compare(lo + Middle(size))
  /\ Call(lo + Middle(size) + 1, RightSize(size, Middle(size)))
  /\ UNCHANGED <<text, pc, i, found>>

Match ==
  /\ pc = "naive" /\ i < lo + size
  /\ Starts(i)
  /\ found' = PointerTo(i)
  /\ pc' = "done"
  /\ UNCHANGED <<text, lo, size, i>>

Pass ==
  /\ pc = "naive" /\ i < lo + size
  /\ Differs(i)
  /\ i' = i + 1
  /\ UNCHANGED <<text, lo, size, pc, found>>

NoMatch ==
  /\ pc = "naive" /\ i >= lo + size
  /\ found' = Missing
  /\ pc' = "done"
  /\ UNCHANGED <<text, lo, size, i>>

\* The entry looked at has been given back: nothing need be mapped there, and its
\* place may be outside the file.
Fault ==
  /\ \/ pc = "divide" /\ ~Small(size) /\ Gone(lo + Middle(size))
     \/ pc = "naive" /\ i < lo + size /\ Gone(i)
  /\ pc' = "fault"
  /\ UNCHANGED <<text, lo, size, i, found>>

Terminated == pc \in {"done", "fault"} /\ UNCHANGED vars

Next ==
  \/ WordFindNaive \/ HitMiddle \/ GoLeft \/ GoRight
  \/ Match \/ Pass \/ NoMatch \/ Fault \/ Terminated

Spec == Init /\ [][Next]_vars
-----------------------------------------------------------------------------
TypeOK ==
  /\ count \in Nat /\ rank \in 0..count /\ starting \in 0..count - rank
  /\ exact \in BOOLEAN /\ (exact => starting > 0)
  /\ moved \in BOOLEAN /\ fits \in BOOLEAN
  /\ lo \in Nat /\ size \in Nat /\ i \in Nat
  /\ pc \in {"divide", "naive", "done", "fault"}
  /\ found \in {Missing, Wild} \union 0..count - 1

\* Powers of two, which is what the halving amounts to.
Pow2[n \in Nat] == IF n = 0 THEN 1 ELSE 2 * Pow2[n - 1]

\* The realloc of main has left the index where it was, and cmp is right.
Reliable == ~moved /\ fits

\* A word of the file is found, where word_find_naive over the whole index finds
\* it, unless it is one of the last ones, with so few words after it that the
\* windows reach beyond the index before they close in on it; provided that the
\* index is where it was and cmp's differences fit, for otherwise any word may be
\* missed.
FoundAwayFromTheEnd ==
  pc \in {"done", "fault"} /\ Reliable /\ exact /\ 4 * Pow2[count - rank] >= count => found = rank

\* What the search returns starts with the word sought, wherever cmp has sent it,
\* unless it is made from memory that has been given back: all of it if realloc has
\* moved the index, and otherwise in a window that reaches beyond it.
NoFalseHit ==
  found # Missing =>
    IF moved THEN found = Wild
    ELSE found \in rank..rank + starting - 1 \/ (found = Wild /\ lo + size > count)

\* With the index where it was and with differences that fit, memory that has been
\* given back is read only in search of a word that belongs among the last few, and
\* that because of dict.c:120.
BeyondOnlyForTheLast ==
  Reliable /\ (found = Wild \/ pc = "fault") => Pow2[count - rank] <= count

\* Every call of word_find_divide is on fewer words than the one that makes it,
\* although the right half is a word too long: the recursion ends.
CallsShrink == [][lo' # lo \/ size' # size => size' < size]_vars
=============================================================================
