------------------------------- MODULE Polymer -------------------------------
(***************************************************************************)
(* aoc5.c: the polymer is reduced in its buffer, pairs of a letter and the *)
(* same letter in the other case being taken out with memmove.  A letter   *)
(* is a number, and its negation the other case; any other byte is 0.  One *)
(* action is one turn of the loop.  string[i + 1] is read at the end, too: *)
(* there it is a byte that the last memmove left behind, or what follows   *)
(* the file in memory.                                                     *)
(***************************************************************************)
EXTENDS Integers, SequencesExt

CONSTANTS
  Kinds,                         \* 26: the letters of the alphabet
  MaxUnits                       \* bound: the letters of the file

ASSUME UnitsAssumption == Kinds \in Nat /\ MaxUnits \in Nat

Letters == -Kinds..Kinds \ {0}
\* The file has at least one letter; newlines and blanks are cut off at its end.
Polymers == UNION {[1..n -> Letters] : n \in 1..MaxUnits}

VARIABLES
  polymer,       \* the file
  next,          \* the byte after its letters: a newline or what is beyond the buffer
  string, string_size,
  pos,           \* the cursor, which counts from 0
  state          \* "reducing" | "printed" | "wild": memmove is given size_t's largest number

polymerVars == <<polymer, next, string, string_size, pos, state>>

PolymerInit ==
  /\ polymer \in Polymers /\ next \in Letters \union {0}
  /\ string = Append(polymer, next)
  /\ string_size = Len(polymer)
  /\ pos = 0 /\ state = "reducing"
-----------------------------------------------------------------------------
\* abs(string[i] - string[i + 1]) == 32, of letters
Reacts(x, y) == x # 0 /\ x = -y

\* Mutant: after a reaction i stays, where the new pair began one byte before.
StayAt(i) == i

StepBack(i) == IF i > 0 THEN i - 1 ELSE 0

\* memmove(string + i, string + i + 2, size - i - 2)
WithoutPair(s, i, size) ==
  SubSeq(s, 1, i) \o SubSeq(s, i + 3, size) \o SubSeq(s, size - 1, Len(s))

Pair == Reacts(string[pos + 1], string[pos + 2])

PassUnit ==
  /\ state = "reducing" /\ pos < string_size /\ ~Pair
  /\ pos' = pos + 1
  /\ UNCHANGED <<polymer, next, string, string_size, state>>

RemovePair ==
  /\ state = "reducing" /\ pos < string_size /\ Pair
  /\ pos # string_size - 1
  /\ string' = WithoutPair(string, pos, string_size)
  /\ string_size' = string_size - 2
  /\ pos' = StepBack(pos)
  /\ UNCHANGED <<polymer, next, state>>

\* The pair is the last letter and the byte behind it: its removal is of a number
\* of bytes below zero.
RemoveBeyond ==
  /\ state = "reducing" /\ pos < string_size /\ Pair
  /\ pos = string_size - 1
  /\ state' = "wild"
  /\ UNCHANGED <<polymer, next, string, string_size, pos>>

PrintSize ==
  /\ state = "reducing" /\ pos >= string_size
  /\ state' = "printed"
  /\ UNCHANGED <<polymer, next, string, string_size, pos>>

Reacted == state # "reducing" /\ UNCHANGED polymerVars

PolymerNext == PassUnit \/ RemovePair \/ RemoveBeyond \/ PrintSize \/ Reacted

PolymerSpec == PolymerInit /\ [][PolymerNext]_polymerVars
-----------------------------------------------------------------------------
\* What is left of the first letters, each meeting the last one that is left.
Left(p) ==
  LET left[k \in 0..Len(p)] ==
        IF k = 0 THEN <<>>
        ELSE IF left[k - 1] # <<>> /\ Reacts(Last(left[k - 1]), p[k]) THEN Front(left[k - 1])
        ELSE Append(left[k - 1], p[k])
  IN  left

Reduced(p) == Left(p)[Len(p)]

\* A pair ends the polymer whose first letter has reacted with what came before
\* it, so that the second one meets the copy of the first that was left behind.
TornPair(p) ==
  LET n == Len(p)
      before == Left(p)[n - 2]
  IN  n > 2 /\ Reacts(p[n - 1], p[n]) /\ before # <<>> /\ Last(before) = p[n]

\* Nothing reacts but the last letter with what follows it.
MeetsNext(p, byte) == Reduced(p) = p /\ Reacts(Last(p), byte)

\* aoc5.c prints the length of the reduced polymer, which is what is left in the
\* buffer: the stale byte at its end never makes it shorter.  memmove runs wild in
\* exactly two cases instead.
PolymerReduced ==
  /\ state = "printed" => SubSeq(string, 1, string_size) = Reduced(polymer)
  /\ state # "reducing" =>
       (state = "wild" <=> TornPair(polymer) \/ MeetsNext(polymer, next))
=============================================================================
