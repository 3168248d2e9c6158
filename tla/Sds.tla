--------------------------------- MODULE Sds ---------------------------------
(***************************************************************************)
(* sds.c and sds.h: one dynamic string and the calls that change it.  The  *)
(* header keeps len and, from type 8 on, alloc, in fields as wide as its   *)
(* type; the block behind it has room for "room" bytes of text, terminator *)
(* included.  "mem" is what has been written into the block, from its      *)
(* first byte on: writing past the block makes mem longer than room.  What *)
(* lies beyond the terminator is forgotten, since nothing reads it.        *)
(*                                                                         *)
(* The limits of the types and SDS_MAX_PREALLOC are parameters, so that a  *)
(* short string meets all of them.  Memory does not run out: a failing     *)
(* malloc makes most calls return NULL and sdscatfmt crash.                *)
(***************************************************************************)
EXTENDS Integers, SequencesExt

CONSTANTS
  Byte, NUL,
  Null,
  Lower, Upper,     \* tolower, toupper
  Limit,            \* Limit[t]: 2 to the width of len and alloc of type t
  MaxPrealloc,      \* SDS_MAX_PREALLOC
  StaticBuf,        \* the size of staticbuf in sdscatvprintf
  Formats,          \* the formats and arguments of sdscatfmt, in pieces
  Maps,             \* pairs of strings given to sdsmapchars
  Ends,             \* the ends of ranges given to sdsrange
  MaxLen,           \* bound: the longest string
  MaxText           \* bound: the longest argument

SmallTypes == {5, 8, 16, 32}
Types      == SmallTypes \union {64}

Piece  == [kind : {"byte", "argument"}, text : Seq(Byte)]
Format == [left : Seq(Piece), text : Seq(Byte), initlen : Nat]
Header == [type : Types, len : Nat, alloc : Nat, room : Nat, mem : Seq(Byte)]

ASSUME SdsAssumption ==
  /\ NUL \in Byte
  /\ Limit \in [SmallTypes -> Nat \ {0}]
  /\ \A t, u \in SmallTypes : t < u => Limit[t] <= Limit[u]
  /\ MaxPrealloc \in Nat /\ StaticBuf \in Nat \ {0, 1}

ASSUME ArgumentAssumption ==
  /\ MaxLen \in Nat /\ MaxText \in Nat /\ Ends \subseteq Int
  /\ Lower \in [Byte -> Byte] /\ Upper \in [Byte -> Byte]
  /\ \A map \in Maps : \A i \in 1..2 : map[i] \in Seq(Byte) /\ Len(map[i]) = Len(map[1])
  /\ Formats \subseteq Seq(Piece)
  /\ \A f \in Formats : \A i \in DOMAIN f : f[i].kind = "byte" => Len(f[i].text) = 1

\* NULL is not the address of a string.
ASSUME NullAssumption == Null \notin Format /\ Null \notin Header /\ Null \notin Seq(Byte)

VARIABLES
  s,        \* Null, or the header and the block
  fmt,      \* Null, or what sdscatfmt has left of its format, what it has read, and initlen
  op        \* the last call, for the record

vars == <<s, fmt, op>>

Texts    == UNION {[1..n -> Byte] : n \in 0..MaxText}
Call(f, t, u, n, m) == [name |-> f, t |-> t, u |-> u, n |-> n, m |-> m]
-----------------------------------------------------------------------------
Holds(t, n)  == t = 64 \/ n < Limit[t]
Field(t, n)  == IF t = 64 THEN n ELSE n % Limit[t]
StrLen(t)    == Min({i \in DOMAIN t : t[i] = NUL} \union {Len(t) + 1}) - 1
Take(q, n)   == SubSeq(q, 1, Min({n, Len(q)}))

\* Mutants: a length that just does not fit is taken to fit; printed text that
\* fills the buffer is taken to be whole.
SdsReqTypeWide(n) == Min({t \in Types : t = 64 \/ n <= Limit[t]})
OverflowsLate(text, n) == Len(text) > n /\ text[n] # NUL
-----------------------------------------------------------------------------
SdsReqType(n) == Min({t \in Types : Holds(t, n)})
SdsAlloc(h)   == IF h.type = 5 THEN h.len ELSE h.alloc
SdsAvail(h)   == SdsAlloc(h) - h.len
SdsSetLen(h, n)   == [h EXCEPT !.len = Field(h.type, n)]
SdsSetAlloc(h, n) == IF h.type = 5 THEN h ELSE [h EXCEPT !.alloc = Field(h.type, n)]

\* A write of "bytes" after the first "at" ones.
Put(h, at, bytes) == [h EXCEPT !.mem = Take(h.mem, at) \o bytes]
Ended(h, at, bytes) == SdsSetLen(Put(h, at, Append(bytes, NUL)), at + Len(bytes))

\* A block of another size, and maybe another header, for the same string.
Block(h, type, n) ==
  SdsSetAlloc(SdsSetLen([h EXCEPT !.type = type, !.room = n + 1,
                                  !.mem = Take(h.mem, h.len + 1)], h.len), n)

SdsNewLen(t) ==
  LET n == Len(t)
      type == IF n = 0 THEN 8 ELSE SdsReqType(n)
      raw == [type |-> type, len |-> 0, alloc |-> 0, room |-> n + 1, mem |-> <<>>]
  IN  SdsSetAlloc(Ended(raw, 0, t), n)

\* Mutant: a string of type 5 is grown as such.
SdsMakeRoomOfType5(h, addlen) ==
  IF SdsAvail(h) >= addlen THEN h
  ELSE LET n == (h.len + addlen) * 2 IN Block(h, SdsReqType(n), n)

SdsMakeRoomFor(h, addlen) ==
  LET newlen == h.len + addlen
      n == IF newlen < MaxPrealloc THEN newlen * 2 ELSE newlen + MaxPrealloc
  IN  IF SdsAvail(h) >= addlen THEN h ELSE Block(h, Max({8, SdsReqType(n)}), n)

SdsRemoveFreeSpace(h) ==
  LET type == SdsReqType(h.len)
  IN  Block(h, IF type > 8 THEN h.type ELSE type, h.len)

SdsCatLen(h, t) == Ended(SdsMakeRoomFor(h, Len(t)), h.len, t)

SdsCpyLen(h, t) ==
  Ended(IF SdsAlloc(h) < Len(t) THEN SdsMakeRoomFor(h, Len(t) - h.len) ELSE h, 0, t)

SdsGrowZero(h, n) ==
  IF n <= h.len THEN h
  ELSE Ended(SdsMakeRoomFor(h, n - h.len), h.len, [i \in 1..n - h.len |-> NUL])

\* The caller has written t, or wants the last n bytes off.
SdsIncrLen(h, t)  == Ended(h, h.len, t)
SdsDecrLen(h, n)  == Ended(h, h.len - n, <<>>)

SdsUpdateLen(h) == SdsSetLen(h, StrLen(h.mem))
SdsClear(h)     == Ended(h, 0, <<>>)

\* vsnprintf into n bytes, with the last but one cleared before to tell
\* whether it was enough; if not, into twice as many.
Overflows(text, n) == Len(text) >= n - 1 /\ text[n - 1] # NUL
\* The buffer has been doubled so many times; it has room for more than a NUL.
BufLens == {StaticBuf * 2 ^ k : k \in 0..MaxText} \intersect (Nat \ {0, 1})
Suffices(text, n) == ~Overflows(text, n) /\ \A m \in BufLens : m < n => Overflows(text, m)
Printed(text, n)  == LET buf == Take(text, n - 1) IN Take(buf, StrLen(buf))

\* One turn of the loop of sdscatfmt: one byte of the format, or one argument
\* and its specifier.  Arguments are copied as they are, numbers as their digits.
Formatted(h, piece) ==
  LET one == IF SdsAvail(h) = 0 THEN SdsMakeRoomFor(h, 1) ELSE h
      all == IF piece.kind = "argument" /\ SdsAvail(one) < Len(piece.text)
             THEN SdsMakeRoomFor(one, Len(piece.text)) ELSE one
  IN  SdsSetLen(Put(all, all.len, piece.text), all.len + Len(piece.text))

TextOf(pieces) == FlattenSeq([i \in DOMAIN pieces |-> pieces[i].text])

\* sp and ep count from 1.  strchr finds the terminator of cset, too.
SdsTrim(h, cset) ==
  LET cut == cset \union {NUL}
      sp == Min({i \in 1..h.len : h.mem[i] \notin cut} \union {h.len + 1})
      ep == IF sp > h.len THEN h.len ELSE Max({i \in sp..h.len : i = sp \/ h.mem[i] \notin cut})
  IN  Ended(h, 0, SubSeq(h.mem, sp, ep))

SdsRange(h, start, end) ==
  LET from   == IF start < 0 THEN Max({h.len + start, 0}) ELSE start
      to     == IF end < 0 THEN Max({h.len + end, 0}) ELSE end
      last   == Min({to, h.len - 1})
      newlen == IF from > to \/ from >= h.len \/ from > last THEN 0 ELSE last - from + 1
  IN  IF h.len = 0 THEN h ELSE Ended(h, 0, SubSeq(h.mem, from + 1, from + newlen))

Rewritten(h, f) ==
  [h EXCEPT !.mem = [i \in DOMAIN h.mem |-> IF i <= h.len THEN f[h.mem[i]] ELSE h.mem[i]]]

SdsMapChars(h, from, to) ==
  LET at(b) == {i \in DOMAIN from : from[i] = b}
  IN  Rewritten(h, [b \in Byte |-> IF at(b) = {} THEN b ELSE to[Min(at(b))]])
-----------------------------------------------------------------------------
Init == s = Null /\ fmt = Null /\ op = Call("none", <<>>, <<>>, 0, 0)

Creates(h, call) == s = Null /\ s' = h /\ op' = call /\ UNCHANGED fmt
Changes(h, call) == s # Null /\ fmt = Null /\ s' = h /\ op' = call /\ UNCHANGED fmt
RoomLeft == MaxLen - s.len

NewLen ==
  \E t \in Texts : Creates(SdsNewLen(t), Call("newlen", t, <<>>, 0, 0))
NewZeros ==
  \E n \in 0..MaxText : Creates(SdsNewLen([i \in 1..n |-> NUL]), Call("zeros", <<>>, <<>>, n, 0))

\* The caller goes on with the copy and frees the original.
Dup == Changes(SdsNewLen(Take(s.mem, s.len)), Call("dup", <<>>, <<>>, 0, 0))
Free == Changes(Null, Call("free", <<>>, <<>>, 0, 0))

UpdateLen == Changes(SdsUpdateLen(s), Call("updatelen", <<>>, <<>>, 0, 0))
Clear     == Changes(SdsClear(s), Call("clear", <<>>, <<>>, 0, 0))

MakeRoomFor ==
  \E n \in 0..MaxText : Changes(SdsMakeRoomFor(s, n), Call("makeroom", <<>>, <<>>, n, 0))
RemoveFreeSpace == Changes(SdsRemoveFreeSpace(s), Call("removefree", <<>>, <<>>, 0, 0))

\* sdsIncrLen is for bytes written into the room made before; its assertion
\* is the guard, but for type 5, where it does not look at the room.
Written ==
  \E t \in Texts \ {<<>>} :
    /\ s # Null /\ Len(t) <= SdsAvail(s) /\ Len(t) <= RoomLeft
    /\ Changes(SdsIncrLen(s, t), Call("written", t, <<>>, 0, 0))
Shortened ==
  \E n \in 1..MaxLen :
    /\ s # Null /\ n <= s.len
    /\ Changes(SdsDecrLen(s, n), Call("shortened", <<>>, <<>>, n, 0))

GrowZero ==
  \E n \in 0..MaxLen : Changes(SdsGrowZero(s, n), Call("growzero", <<>>, <<>>, n, 0))

CatLen ==
  \E t \in Texts :
    /\ s # Null /\ Len(t) <= RoomLeft
    /\ Changes(SdsCatLen(s, t), Call("catlen", t, <<>>, 0, 0))
CpyLen == \E t \in Texts : Changes(SdsCpyLen(s, t), Call("cpylen", t, <<>>, 0, 0))

CatPrintf ==
  \E t \in Texts, n \in BufLens :
    /\ s # Null /\ Len(t) <= RoomLeft
    /\ Suffices(t, n)
    /\ Changes(SdsCatLen(s, Printed(t, n)), Call("catprintf", t, <<>>, 0, 0))

\* sdscatfmt in three: of the formats, those that do not end in the middle of
\* a specifier.  The terminator comes at the end.
BeginFormat ==
  \E pieces \in Formats :
    /\ s # Null /\ fmt = Null /\ Len(TextOf(pieces)) <= RoomLeft
    /\ fmt' = [left |-> pieces, text |-> <<>>, initlen |-> s.len]
    /\ UNCHANGED <<s, op>>
FormatPiece ==
  /\ fmt # Null /\ fmt.left # <<>>
  /\ s' = Formatted(s, Head(fmt.left))
  /\ fmt' = [fmt EXCEPT !.left = Tail(@), !.text = @ \o Head(fmt.left).text]
  /\ UNCHANGED op
EndFormat ==
  /\ fmt # Null /\ fmt.left = <<>>
  /\ s' = Put(s, s.len, <<NUL>>)
  /\ fmt' = Null
  /\ op' = Call("catfmt", fmt.text, <<>>, 0, 0)

Trim ==
  \E t \in Texts :
    Changes(SdsTrim(s, ToSet(t)), Call("trim", t, <<>>, 0, 0))
SubRange ==
  \E start, end \in Ends :
    Changes(SdsRange(s, start, end), Call("range", <<>>, <<>>, start, end))

ToLower == Changes(Rewritten(s, Lower), Call("tolower", <<>>, <<>>, 0, 0))
ToUpper == Changes(Rewritten(s, Upper), Call("toupper", <<>>, <<>>, 0, 0))
MapChars ==
  \E map \in Maps :
    Changes(SdsMapChars(s, map[1], map[2]), Call("mapchars", map[1], map[2], 0, 0))

Next ==
  \/ NewLen \/ NewZeros \/ Dup \/ Free \/ UpdateLen \/ Clear
  \/ MakeRoomFor \/ RemoveFreeSpace \/ Written \/ Shortened \/ GrowZero
  \/ CatLen \/ CpyLen \/ CatPrintf \/ BeginFormat \/ FormatPiece \/ EndFormat
  \/ Trim \/ SubRange \/ ToLower \/ ToUpper \/ MapChars

Spec == Init /\ [][Next]_vars
-----------------------------------------------------------------------------
\* The header and the block agree, after any calls: nothing has been written
\* past the block, the space the header promises is there, len and alloc have
\* not wrapped, and the string is followed by its terminator, as soon as no
\* sdscatfmt is at work on it.
Sound ==
  s # Null =>
    /\ s.len <= Len(s.mem) /\ Len(s.mem) <= s.room
    /\ s.len <= SdsAlloc(s) /\ SdsAlloc(s) < s.room
    /\ fmt = Null => s.len < Len(s.mem) /\ s.mem[s.len + 1] = NUL

\* Every call does to the string what its comment says, whatever the type of
\* the header and the space left, and a call that only moves the string, like
\* sdsMakeRoomFor, leaves it as it was.  While sdscatfmt is at work, the string
\* is what it was before.
Value  == IF s = Null THEN Null ELSE Take(s.mem, IF fmt = Null THEN s.len ELSE fmt.initlen)
String == INSTANCE SdsString WITH value <- Value
IsString == String!Spec

\* After sdsMakeRoomFor the caller may write as many bytes as he asked for and
\* a terminator, and after sdsRemoveFreeSpace the block is as long as the
\* string and its terminator: alloc and the block change together, also where
\* the header changes its type.
RoomAsAsked ==
  [][fmt = Null /\ fmt' = Null =>
       /\ op'.name = "makeroom" => s'.room > s'.len + op'.n /\ SdsAvail(s') >= op'.n
       /\ op'.name = "removefree" => s'.room = s'.len + 1 /\ SdsAvail(s') = 0]_vars
=============================================================================
