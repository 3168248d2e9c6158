------------------------------ MODULE SplitJoin ------------------------------
(***************************************************************************)
(* sds.c: sdssplitlen, and sdsjoinsds (or sdsjoin, for strings without     *)
(* NUL) that puts its tokens together again.  One action is one turn of    *)
(* one of their loops, or what comes after it.  j counts from 0.           *)
(***************************************************************************)
EXTENDS Integers, Sequences

CONSTANTS
  Alphabet,                      \* the bytes
  MaxStr, MaxSep                 \* bounds: the bytes of the string and of the separator

VARIABLES
  str, sep,
  slots, tokens, start, j,       \* of sdssplitlen
  join, joined,                  \* of sdsjoinsds: its string, and how many tokens it holds
  doing                          \* "splitting" | "joining" | "joined"

splitVars == <<str, sep, slots, tokens, start, j, join, joined, doing>>

\* An empty string has no tokens, but is not refused as the comment says; an empty
\* separator is.
SplitInit ==
  /\ str \in UNION {[1..n -> Alphabet] : n \in 0..MaxStr}
  /\ sep \in UNION {[1..n -> Alphabet] : n \in 1..MaxSep}
  /\ slots = 5 /\ tokens = <<>> /\ start = 0 /\ j = 0
  /\ join = <<>> /\ joined = 0
  /\ doing = IF str = <<>> THEN "joining" ELSE "splitting"
-----------------------------------------------------------------------------
\* Mutant: the slot for the last token is not counted.
NeedsSlotsLate(n, elements) == n < elements

NeedsSlots(n, elements) == n < elements + 2

InRange    == j < Len(str) - (Len(sep) - 1)
SepIsAt(q) == SubSeq(str, q + 1, q + Len(sep)) = sep
GrowSlots  == slots' = IF NeedsSlots(slots, Len(tokens)) THEN slots * 2 ELSE slots

TakeToken ==
  /\ doing = "splitting" /\ InRange /\ SepIsAt(j)
  /\ GrowSlots
  /\ tokens' = Append(tokens, SubSeq(str, start + 1, j))
  /\ start' = j + Len(sep) /\ j' = j + Len(sep)
  /\ UNCHANGED <<str, sep, join, joined, doing>>

PassOver ==
  /\ doing = "splitting" /\ InRange /\ ~SepIsAt(j)
  /\ GrowSlots
  /\ j' = j + 1
  /\ UNCHANGED <<str, sep, tokens, start, join, joined, doing>>

\* The final element, without a look at the slots
TakeLast ==
  /\ doing = "splitting" /\ ~InRange
  /\ tokens' = Append(tokens, SubSeq(str, start + 1, Len(str)))
  /\ doing' = "joining"
  /\ UNCHANGED <<str, sep, slots, start, j, join, joined>>

JoinToken ==
  /\ doing = "joining" /\ joined < Len(tokens)
  /\ join' = join \o tokens[joined + 1] \o (IF joined # Len(tokens) - 1 THEN sep ELSE <<>>)
  /\ joined' = joined + 1
  /\ UNCHANGED <<str, sep, slots, tokens, start, j, doing>>

JoinReturns ==
  /\ doing = "joining" /\ joined >= Len(tokens)
  /\ doing' = "joined"
  /\ UNCHANGED <<str, sep, slots, tokens, start, j, join, joined>>

SplitDone == doing = "joined" /\ UNCHANGED splitVars

SplitNext ==
  TakeToken \/ PassOver \/ TakeLast \/ JoinToken \/ JoinReturns \/ SplitDone

SplitSpec == SplitInit /\ [][SplitNext]_splitVars
-----------------------------------------------------------------------------
HoldsSep(s) == \E k \in 1..Len(s) - Len(sep) + 1 : SubSeq(s, k, k + Len(sep) - 1) = sep

\* What a separator follows, with all of it but its last byte
Followed(k) ==
  IF k = Len(tokens) /\ doing # "splitting" THEN tokens[k]
  ELSE tokens[k] \o SubSeq(sep, 1, Len(sep) - 1)

\* Joining what sdssplitlen has split gives the string back, every token is stored
\* in a slot there is, no token holds the separator, and a separator is taken
\* where it first occurs.
SplitThenJoin ==
  /\ doing = "joined" => join = str
  /\ Len(tokens) <= slots
  /\ \A k \in DOMAIN tokens : ~HoldsSep(Followed(k))
=============================================================================
