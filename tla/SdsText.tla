------------------------------- MODULE SdsText -------------------------------
(***************************************************************************)
(* The calls of sds.c that write and read text.  One machine writes a list *)
(* of arguments with sdscatrepr, with a blank after each, and reads the    *)
(* line with sdssplitargs, one turn of its loops at a time; it reads lines *)
(* from elsewhere, too.  Another makes the digits of a number, as          *)
(* sdsll2str and sdsull2str do, and reads them.  Bytes are numbers:        *)
(* escapes and hexadecimal codes are arithmetic on them.                   *)
(***************************************************************************)
EXTENDS Integers, SequencesExt

CONSTANTS
  Arguments,       \* the lists of arguments that are written
  CommandLines,    \* lines from elsewhere
  Width,           \* 2 to the 64: how many numbers a type has
  Numbers          \* those that are converted

Octet == 0..255

ASSUME TextAssumption ==
  /\ Arguments \subseteq Seq(Seq(Octet)) /\ CommandLines \subseteq Seq(Octet)
  /\ Width \in Nat \ {0} /\ Numbers \subseteq -(Width \div 2)..Width - 1

VARIABLES
  quoted, argv,          \* whether sdscatrepr writes the line, and of which arguments
  arg, nth,              \* where it is: byte 0 is the quote before the argument
  line, cursor,          \* p of sdssplitargs, which counts from 1
  current, vector,
  mode,                  \* "writing" | "blanks", between tokens | "word" | "quotes", which is
                         \* inq | "apostrophes", which is insq | "read" | "refused"
  value, dividend,       \* of the conversion, where the second one is v
  digits,                \* its buffer
  sum, digit,            \* what reads the digits, a calculation by hand
  converting             \* "dividing" | "signing" | "summing" | "summed"

reprVars   == <<quoted, argv, arg, nth, line, cursor, current, vector, mode>>
numberVars == <<value, dividend, digits, sum, digit, converting>>

DoubleQuote == 34        \* the bytes that the code names: "
Apostrophe  == 39        \* '
Backslash   == 92
X           == 120       \* x
Minus       == 45
Zero        == 48        \* '0'
Blank       == 32

IsSpace(b) == b \in {Blank} \union 9..13
IsPrint(b) == b \in 32..126

\* What ends a word outside quotes: fewer bytes than isspace knows.
EndsWord(b) == b \in {0, 9, 10, 13, Blank}

\* The control bytes that have a letter: \a, \b, \t, \n and \r.
Letter == [b \in {7, 8, 9, 10, 13} |->
  CASE b = 7 -> 97 [] b = 8 -> 98 [] b = 9 -> 116 [] b = 10 -> 110 [] b = 13 -> 114]
-----------------------------------------------------------------------------
\* Mutant: the sign is lost before the digits are taken.
MagnitudeSigned(n) == (n + Width) % Width
-----------------------------------------------------------------------------
\* The digits of %02x
HexDigit(n) == IF n < 10 THEN Zero + n ELSE 97 + n - 10

\* A byte with a letter is not printable.
ByteRepr(b) ==
  CASE b \in {Backslash, DoubleQuote} -> <<Backslash, b>>
    [] b \in DOMAIN Letter            -> <<Backslash, Letter[b]>>
    [] IsPrint(b) /\ b \notin {Backslash, DoubleQuote} -> <<b>>
    [] OTHER -> <<Backslash, X, HexDigit(b \div 16), HexDigit(b % 16)>>

\* What sdscatrepr appends for the b-th byte, before the first and after the last
\* one; the blank is of the caller.
Repr(a, b) ==
  IF b = 0 THEN <<DoubleQuote>>
  ELSE IF b <= Len(argv[a]) THEN ByteRepr(argv[a][b]) ELSE <<DoubleQuote, Blank>>

Write ==
  /\ mode = "writing" /\ arg <= Len(argv)
  /\ line' = line \o Repr(arg, nth)
  /\ IF nth <= Len(argv[arg]) THEN nth' = nth + 1 /\ arg' = arg
                               ELSE nth' = 0 /\ arg' = arg + 1
  /\ UNCHANGED <<quoted, argv, cursor, current, vector, mode>>

WriteEnds ==
  /\ mode = "writing" /\ arg > Len(argv)
  /\ mode' = "blanks"
  /\ UNCHANGED <<quoted, argv, arg, nth, line, cursor, current, vector>>
-----------------------------------------------------------------------------
\* What C reads at position q of the line, terminator included
ByteAt(q) == IF q <= Len(line) THEN line[q] ELSE 0
Here      == ByteAt(cursor)
Following == ByteAt(cursor + 1)

IsHexDigit(b) == b \in 48..57 \union 97..102 \union 65..70
HexDigitToInt(b) ==
  CASE b \in 48..57  -> b - Zero
    [] b \in 97..102 -> b - 97 + 10
    [] b \in 65..70  -> b - 65 + 10
    [] OTHER         -> 0
Code(high, low) == high * 16 + low

Unescaped(b) ==
  CASE b = 110 -> 10 [] b = 114 -> 13 [] b = 116 -> 9 [] b = 98 -> 8 [] b = 97 -> 7
    [] OTHER -> b

HexEscape ==
  /\ Here = Backslash /\ Following = X
  /\ IsHexDigit(ByteAt(cursor + 2)) /\ IsHexDigit(ByteAt(cursor + 3))

\* The turns of the loops of sdssplitargs
Goes(size, next) ==
  /\ cursor' = cursor + size /\ mode' = next
  /\ UNCHANGED <<quoted, argv, arg, nth, line, vector>>
Adds(b, size) == current' = Append(current, b) /\ Goes(size, mode)
TokenEnds(size) ==
  /\ vector' = Append(vector, current) /\ current' = <<>>
  /\ cursor' = cursor + size /\ mode' = "blanks"
  /\ UNCHANGED <<quoted, argv, arg, nth, line>>
\* Label err: the tokens found before are freed, too.
Refuse ==
  /\ vector' = <<>> /\ current' = <<>> /\ mode' = "refused"
  /\ UNCHANGED <<quoted, argv, arg, nth, line, cursor>>

SkipBlank    == mode = "blanks" /\ IsSpace(Here) /\ UNCHANGED current /\ Goes(1, "blanks")
BeginToken   == mode = "blanks" /\ ~IsSpace(Here) /\ Here # 0 /\ UNCHANGED current /\ Goes(0, "word")
ReturnTokens == mode = "blanks" /\ Here = 0 /\ UNCHANGED current /\ Goes(0, "read")

EndWord         == mode = "word" /\ EndsWord(Here) /\ TokenEnds(IF Here = 0 THEN 0 ELSE 1)
OpenQuotes      == mode = "word" /\ Here = DoubleQuote /\ UNCHANGED current /\ Goes(1, "quotes")
OpenApostrophes == mode = "word" /\ Here = Apostrophe /\ UNCHANGED current /\ Goes(1, "apostrophes")
AddToWord ==
  /\ mode = "word" /\ ~EndsWord(Here) /\ Here \notin {DoubleQuote, Apostrophe}
  /\ Adds(Here, 1)

AddHex ==
  /\ mode = "quotes" /\ HexEscape
  /\ Adds(Code(HexDigitToInt(ByteAt(cursor + 2)), HexDigitToInt(ByteAt(cursor + 3))), 4)
AddEscaped ==
  /\ mode = "quotes" /\ ~HexEscape /\ Here = Backslash /\ Following # 0
  /\ Adds(Unescaped(Following), 2)
AddQuoted ==
  /\ mode = "quotes" /\ Here \notin {DoubleQuote, 0} /\ ~(Here = Backslash /\ Following # 0)
  /\ Adds(Here, 1)

AddApostrophe ==
  mode = "apostrophes" /\ Here = Backslash /\ Following = Apostrophe /\ Adds(Apostrophe, 2)
AddInApostrophes ==
  /\ mode = "apostrophes" /\ Here \notin {Apostrophe, 0} /\ ~(Here = Backslash /\ Following = Apostrophe)
  /\ Adds(Here, 1)

\* A closing quote must be followed by a blank or by nothing.
Closing ==
  \/ mode = "quotes" /\ Here = DoubleQuote
  \/ mode = "apostrophes" /\ Here = Apostrophe
CanClose == Following = 0 \/ IsSpace(Following)

Close        == Closing /\ CanClose /\ TokenEnds(1)
RefuseClosed == Closing /\ ~CanClose /\ Refuse
RefuseOpen   == mode \in {"quotes", "apostrophes"} /\ Here = 0 /\ Refuse

ReprDone == mode \in {"read", "refused"} /\ UNCHANGED reprVars

ReprInit ==
  /\ \/ quoted = TRUE /\ argv \in Arguments /\ line = <<>> /\ mode = "writing"
     \/ quoted = FALSE /\ argv = <<>> /\ line \in CommandLines /\ mode = "blanks"
  /\ arg = 1 /\ nth = 0 /\ cursor = 1 /\ current = <<>> /\ vector = <<>>

InWord        == EndWord \/ OpenQuotes \/ OpenApostrophes \/ AddToWord
InQuotes      == AddHex \/ AddEscaped \/ AddQuoted
InApostrophes == AddApostrophe \/ AddInApostrophes

ReprNext ==
  \/ Write \/ WriteEnds
  \/ SkipBlank \/ BeginToken \/ ReturnTokens
  \/ InWord \/ InQuotes \/ InApostrophes
  \/ Close \/ RefuseClosed \/ RefuseOpen
  \/ ReprDone

ReprSpec == ReprInit /\ [][ReprNext]_reprVars
-----------------------------------------------------------------------------
\* sdsll2str and sdsull2str.  Negating the smallest number overflows, and leaves
\* it as it is; as an unsigned number it is right.
Magnitude(n) == IF n < 0 THEN (-n) % Width ELSE n

NumberInit ==
  /\ value \in Numbers /\ dividend = Magnitude(value) /\ digits = <<>>
  /\ sum = 0 /\ digit = 1 /\ converting = "dividing"

Divide ==
  /\ converting = "dividing"
  /\ digits' = Append(digits, Zero + (dividend % 10))
  /\ dividend' = dividend \div 10
  /\ converting' = IF dividend' = 0 THEN "signing" ELSE "dividing"
  /\ UNCHANGED <<value, sum, digit>>

\* The sign comes last, and the bytes are reversed.
Sign ==
  /\ converting = "signing"
  /\ digits' = Reverse(digits \o (IF value < 0 THEN <<Minus>> ELSE <<>>))
  /\ converting' = "summing"
  /\ UNCHANGED <<value, dividend, sum, digit>>

\* The calculation: digits from the left, a sign left out.
SumUp ==
  /\ converting = "summing" /\ digit <= Len(digits)
  /\ sum' = IF digits[digit] = Minus THEN sum ELSE 10 * sum + digits[digit] - Zero
  /\ digit' = digit + 1
  /\ UNCHANGED <<value, dividend, digits, converting>>

SumEnds ==
  /\ converting = "summing" /\ digit > Len(digits)
  /\ converting' = "summed"
  /\ UNCHANGED <<value, dividend, digits, sum, digit>>

NumberDone == converting = "summed" /\ UNCHANGED numberVars

NumberNext == Divide \/ Sign \/ SumUp \/ SumEnds \/ NumberDone

NumberSpec == NumberInit /\ [][NumberNext]_numberVars
-----------------------------------------------------------------------------
\* sdssplitargs reads back every list of strings, whatever bytes they hold, that
\* sdscatrepr has written, and goes beyond the terminator of no line; the digits of
\* sdsll2str and sdsull2str, with a sign in front of a number below zero, are those
\* of the number, the smallest one included, which cannot be negated.
TextIsRead ==
  /\ quoted => mode # "refused" /\ (mode = "read" => vector = argv)
  /\ cursor <= Len(line) + 1
  /\ converting = "summed" =>
       /\ sum = (IF value < 0 THEN -value ELSE value)
       /\ \A k \in DOMAIN digits : digits[k] = Minus <=> (k = 1 /\ value < 0)
=============================================================================
