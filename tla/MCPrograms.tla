------------------------------ MODULE MCPrograms ------------------------------
(***************************************************************************)
(* The small programs of the repository that one process runs from its     *)
(* input to its output.  "tool" says which one a behaviour is of.  The     *)
(* search of Dict, the reader of Csv, the reduction of Polymer, the        *)
(* searches of ClosestPair and the loops of SplitJoin and SdsText take     *)
(* their steps here; the others are functions of their input, and one      *)
(* state is one input.                                                     *)
(***************************************************************************)
EXTENDS Dict, Csv, Polymer, ClosestPair, SplitJoin, SdsText, SequencesExt

VARIABLES tool, input

Scanner  == INSTANCE Lexer WITH Decimals <- 2
Guards   == INSTANCE GuardLog WITH Hour <- 4, ByteSize <- 3
Tables   == INSTANCE Sales WITH MaxSize <- 16
Loops    == INSTANCE Lines WITH
              Column <- 2, Width <- 1, Room <- 5, Values <- 2, LineRoom <- 4, Entries <- 4,
              PlaceSize <- 6, WordSize <- 4,
              Recent <- {<<"9">>}, NaN <- <<"N">>

SeqsUpTo(S, n) == UNION {[1..k -> S] : k \in 0..n}
-----------------------------------------------------------------------------
(* Inputs.                                                                 *)

\* sdscatrepr: arguments of up to three bytes of every class the code tells
\* apart, and up to two arguments
ArgBytes == {0, 7, 10, 32, 34, 39, 48, 92, 97, 120, 200, 11}
MCArguments ==
  SeqsUpTo(SeqsUpTo(ArgBytes, 2), 1)
  \union [1..2 -> SeqsUpTo({7, 0, 92, 34, 97, 32}, 2)]
  \union {<<t>> : t \in [1..3 -> ArgBytes]}

\* sdssplitargs: lines of up to five quotes, backslashes, blanks, digits and x
MCCommandLines == SeqsUpTo({34, 39, 92, 32, 49, 120}, 5)

\* sdsll2str and sdsull2str: all numbers of eight bits, with and without a sign
MCNumbers == -128..255

\* tokenize: up to three of the characters of each class, up to five of those
\* that take others with them, numbers of up to five characters, every keyword with
\* what may follow it, and the source in parse.c
SourceInputs ==
  SeqsUpTo({"a", "_", "1", ".", "(", "=", "!", "<", "/", "\"", " ", "\n", "o", "?"}, 3)
  \union SeqsUpTo({"=", "/", ".", "1", "o", "\n", "\""}, 5)
  \union SeqsUpTo({"1", "9", "."}, 5) \union {Scanner!Chars("a != 1")}
  \union {Scanner!Chars(Scanner!Keywords[k]) \o rest :
            k \in DOMAIN Scanner!Keywords, rest \in SeqsUpTo({"o", "1", " "}, 1)}

\* Four places on a line and one above the last of them: two pairs are as near as
\* any, and several points may be in one place.  Five points are divided twice.
MCPoints == {[x |-> 0, y |-> 0], [x |-> 2, y |-> 0], [x |-> 3, y |-> 0],
             [x |-> 5, y |-> 0], [x |-> 5, y |-> 1]}

\* Up to three nights of two guards, and the order of the lines
Nights == [guard : 1..2,
           sleeps : {<<>>, <<<<0, 1>>>>, <<<<1, 3>>>>, <<<<2, 3>>>>, <<<<0, 3>>>>, <<<<0, 1>>, <<2, 3>>>>}]
LogInputs == [nights : SeqsUpTo(Nights, 3) \ {<<>>},
              order : {"in time", "backwards", "the end first"}]
Arranged(l, how) ==
  CASE how = "in time"   -> l
    [] how = "backwards" -> Reverse(l)
    [] OTHER             -> SubSeq(l, 1 + Len(l) \div 2, Len(l)) \o SubSeq(l, 1, Len(l) \div 2)

\* One or two people and articles; blanks at the ends of lines; an article named
\* like a heading.  Two of each and the blanks are more words than there is room for.
TableInputs ==
  UNION {[people : {p}, revenues : [1..a -> [1..p -> 0..4 - a - p \div 2]],
          expenses : [1..a -> [1..p -> 0..4 - a - p \div 2]],
          blank : BOOLEAN, gap : {"none", "empty", "blank"}, article : {"Tea", "Revenues"}]
           : a \in 1..2, p \in 1..2}

\* fec.c's buffer at first, clean and full of bars; files of up to seven bytes, and
\* of up to four lines, which may have a value more than the table holds
ColumnInputs ==
  [file : SeqsUpTo({"a", "b", "|", "\n"}, 7)
          \union {FlattenSeq(lines) :
                    lines \in SeqsUpTo({<<"|", "|", "\n">>, <<"a", "|", "b", "|", "\n">>,
                                        <<"|", "a", "|", "\n">>, <<"\n">>}, 4)},
   garbage : {<<"NUL", "NUL", "NUL", "NUL", "NUL">>, <<"a", "|", "a", "b", "NUL">>}]
PriceInputs == SeqsUpTo({"9", "N", ",", "\n"}, 7)
-----------------------------------------------------------------------------
NoSearch ==
  /\ count = 0 /\ rank = 0 /\ starting = 0 /\ exact = FALSE /\ moved = FALSE /\ fits = TRUE
  /\ lo = 0 /\ size = 0 /\ pc = "done" /\ i = 0 /\ found = Missing
NoReader ==
  /\ file = <<"other">> /\ withHeader = FALSE /\ phase = "done"
  /\ cur = 2 /\ startCell = 1 /\ startLine = 1 /\ cellNo = 0 /\ lineNo = 0
  /\ insideQuotes = FALSE /\ headers = <<>> /\ out = <<>>
NoReaction ==
  /\ polymer = <<1>> /\ next = 0 /\ string = <<1, 0>> /\ string_size = 1
  /\ pos = 1 /\ state = "printed"

NoHouses ==
  /\ houses = <<>> /\ points = <<>> /\ order = <<>> /\ calls = <<>>
  /\ row = 0 /\ column = 0 /\ distance = 0 /\ naive = 0 /\ stage = "naive"
NoSplitting ==
  /\ str = <<>> /\ sep = <<0>> /\ slots = 5 /\ tokens = <<>> /\ start = 0 /\ j = 0
  /\ join = <<>> /\ joined = 0 /\ doing = "joined"

NoText ==
  /\ quoted = FALSE /\ argv = <<>> /\ arg = 1 /\ nth = 0 /\ line = <<>> /\ cursor = 1
  /\ current = <<>> /\ vector = <<>> /\ mode = "read"
NoNumber ==
  /\ value = 0 /\ dividend = 0 /\ digits = <<Zero>> /\ sum = 0 /\ digit = 2 /\ converting = "summed"

\* What a program that is a function of its input is run on.
Inputs ==
  \/ tool = "lox" /\ input \in SourceInputs
  \/ tool = "aoc4" /\ input \in LogInputs
  \/ tool = "sales_commission" /\ input \in TableInputs
  \/ tool = "fec" /\ input \in ColumnInputs
  \/ tool = "btc" /\ input \in PriceInputs

MCInit ==
  \/ /\ tool = "dict" /\ input = <<>> /\ Init
     /\ NoReader /\ NoReaction /\ NoHouses /\ NoSplitting /\ NoText /\ NoNumber
  \/ /\ tool = "csv" /\ input = <<>> /\ CsvInit
     /\ NoSearch /\ NoReaction /\ NoHouses /\ NoSplitting /\ NoText /\ NoNumber
  \/ /\ tool = "aoc5" /\ input = <<>> /\ PolymerInit
     /\ NoSearch /\ NoReader /\ NoHouses /\ NoSplitting /\ NoText /\ NoNumber
  \/ /\ tool = "house" /\ input = <<>> /\ HouseInit
     /\ NoSearch /\ NoReader /\ NoReaction /\ NoSplitting /\ NoText /\ NoNumber
  \/ /\ tool = "sdssplitlen" /\ input = <<>> /\ SplitInit
     /\ NoSearch /\ NoReader /\ NoReaction /\ NoHouses /\ NoText /\ NoNumber
  \/ /\ tool = "sdssplitargs" /\ input = <<>> /\ ReprInit
     /\ NoSearch /\ NoReader /\ NoReaction /\ NoHouses /\ NoSplitting /\ NoNumber
  \/ /\ tool = "sdsll2str" /\ input = <<>> /\ NumberInit
     /\ NoSearch /\ NoReader /\ NoReaction /\ NoHouses /\ NoSplitting /\ NoText
  \/ /\ Inputs
     /\ NoSearch /\ NoReader /\ NoReaction /\ NoHouses /\ NoSplitting /\ NoText /\ NoNumber

\* What the others leave alone
sdsVars == <<splitVars, reprVars, numberVars>>

MCNext ==
  /\ UNCHANGED <<tool, input>>
  /\ \/ tool = "dict" /\ Next /\ UNCHANGED <<csvVars, polymerVars, houseVars, sdsVars>>
     \/ tool = "csv" /\ CsvNext /\ UNCHANGED <<vars, polymerVars, houseVars, sdsVars>>
     \/ tool = "aoc5" /\ PolymerNext /\ UNCHANGED <<vars, csvVars, houseVars, sdsVars>>
     \/ tool = "house" /\ HouseNext /\ UNCHANGED <<vars, csvVars, polymerVars, sdsVars>>
     \/ /\ UNCHANGED <<vars, csvVars, polymerVars, houseVars>>
        /\ \/ tool = "sdssplitlen" /\ SplitNext /\ UNCHANGED <<reprVars, numberVars>>
           \/ tool = "sdssplitargs" /\ ReprNext /\ UNCHANGED <<splitVars, numberVars>>
           \/ tool = "sdsll2str" /\ NumberNext /\ UNCHANGED <<splitVars, reprVars>>
           \/ /\ tool \in {"lox", "aoc4", "sales_commission", "fec", "btc"}
              /\ UNCHANGED sdsVars

MCSpec == MCInit /\ [][MCNext]_<<tool, input, vars, csvVars, polymerVars, houseVars, sdsVars>>
-----------------------------------------------------------------------------
\* lex.c: tokenize finds the tokens of a character-by-character reference up to the
\* first one that match makes it miss ('!=', '<=', '>=', one '=' or '/'), which it
\* never finds; it leaves the source only after a last '='; and the tokens, printed
\* by token_print, are read as the same ones, numbers to the decimals of %f.
TokensAreThose == tool = "lox" => Scanner!TokensOf(input) /\ Scanner!ReadsBack(input)

\* aoc4.c: whatever the order of the lines, the guard printed is one who sleeps
\* most and the minute the first at which he mostly does.
GuardsAccounted ==
  tool = "aoc4" =>
    Guards!AccountsFor(input.nights, Arranged(Guards!Lines(input.nights), input.order))

\* sales_commission2.c prints what is due for the articles that bring more than they
\* cost.  So does sales_commission.c if it has room for all the words, no article is
\* named like a heading and no line ends with a blank, which would move the columns it
\* reads; with more words it writes behind its array.
SalesAgree == tool = "sales_commission" => Tables!SameCommissions(input)

\* fec.c counts each line once under its column whatever the lines before have left
\* in the buffer, up to an empty line, one without an end or a value more than its
\* table holds; btc.c finds the first price, up to a line that its buffers do not hold;
\* and the index of dict.c holds the lines, as far as its table and fields reach.
LinesAreThose ==
  /\ tool = "fec" => Loops!CountsLines(input.file, input.garbage) /\ Loops!IndexesLines(input.file)
  /\ tool = "btc" => Loops!FindsPrice(input)
=============================================================================
