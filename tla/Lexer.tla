-------------------------------- MODULE Lexer --------------------------------
(***************************************************************************)
(* lex.c: tokenize and token_print.  A source is a sequence of characters, *)
(* each a string of length one.  match looks at the character the token    *)
(* begins with, not at the one that follows: '!', '<' and '>' never become *)
(* the two-character tokens, '=' always does, with whatever follows it,    *)
(* and '/' always begins a comment.                                        *)
(***************************************************************************)
EXTENDS Integers, FiniteSets, SequencesExt

CONSTANT Decimals   \* 6: the decimals that %f prints

\* static const char* const keywords[], and the enumerators from TokenTypeAnd on
Keywords == <<"and", "class", "else", "for", "fun", "if", "nil", "or",
              "print", "return", "super", "this", "true", "var", "while">>
FromAnd  == <<"And", "Class", "Else", "For", "Fun", "If", "Nil", "Or",
              "Print", "Return", "Super", "This", "True", "Var", "While">>

Chars(word) == [k \in 1..Len(word) |-> SubSeq(word, k, k)]
Letters == ToSet(Chars("abcdefghijklmnopqrstuvwxyzABCDEFGHIJKLMNOPQRSTUVWXYZ"))   \* isalpha
Digits  == ToSet(Chars("0123456789"))                                             \* isdigit
WordCharacters == Letters \union Digits \union {"_"}
Blanks  == {" ", "\r", "\t", "\n"}

\* Characters that are a token each
Single ==
  ("(" :> "LeftParens") @@ (")" :> "RightParens") @@ ("{" :> "LeftBrace") @@
  ("}" :> "RightBrace") @@ ("," :> "Comma") @@ ("." :> "Dot") @@ ("-" :> "Minus") @@
  ("+" :> "Plus") @@ (";" :> "Semicolon") @@ ("*" :> "Star")

\* ... and those whose token match(&current, '=') chooses
Chosen ==
  ("!" :> <<"Bang", "BangEqual">>) @@ ("=" :> <<"Equal", "EqualEqual">>) @@
  ("<" :> <<"Less", "LessEqual">>) @@ (">" :> <<"Greater", "GreaterEqual">>)

Tok(type, value) == [type |-> type, value |-> value]
Spelled(characters) == FoldLeft(LAMBDA w, c : w \o c, "", characters)

At(src, p) == IF p <= Len(src) THEN src[p] ELSE "NUL"
\* strspn, strcspn and the loops like them: the first place from p on not in S
SpanEnd(src, p, S) == Min({q \in p..Len(src) : src[q] \notin S} \union {Len(src) + 1})
-----------------------------------------------------------------------------
\* Mutants: the last keyword is not looked at; a string ends before its quote.
IndexOfKeywordShort(word) ==
  Min({k \in 1..Len(Keywords) - 1 : Keywords[k] = word} \union {Len(Keywords) + 1})
StringSizeShort(value) == Len(value) + 1
-----------------------------------------------------------------------------
Match(src, p, character) == At(src, p) = character

\* What strtod reads of digits and points, up to the second point: a number of
\* units of so many decimals, as few as possible.  A double holds all digits here.
Reduced(units, places) ==
  LET zeros == Max({z \in 0..places : units % 10^z = 0})
  IN  [units |-> units \div 10^zeros, places |-> places - zeros]
Number(span) ==
  LET points(k) == Cardinality({j \in 1..k : span[j] = "."})
      read(n)   == SelectSeq([k \in DOMAIN span |-> k], LAMBDA k : span[k] # "." /\ points(k) \in 0..n)
      whole     == Len(read(0))
      digit(k)  == CHOOSE d \in 0..9 : ToString(d) = span[k]
  IN  Tok("Number", Reduced(FoldLeft(LAMBDA n, k : 10 * n + digit(k), 0, read(1)), Len(read(1)) - whole))

IndexOfKeyword(word) ==
  Min({k \in DOMAIN Keywords : Keywords[k] = word} \union {Len(Keywords) + 1})

Identifier(characters) ==
  LET k == IndexOfKeyword(Spelled(characters))
  IN  IF k > Len(Keywords) THEN Tok("Identifier", characters) ELSE Tok(FromAnd[k], <<>>)

StringSize(value) == Len(value) + 2

\* What one turn of the loop of tokenize adds, and how many characters it takes;
\* an unterminated string ends the program.
Adds(token, size)   == [tokens |-> <<token>>, size |-> size, exit |-> FALSE]
Skips(size)         == [tokens |-> <<>>, size |-> size, exit |-> FALSE]
Exits               == [tokens |-> <<>>, size |-> 0, exit |-> TRUE]

NumberAt(src, p) ==
  LET end == SpanEnd(src, p, Digits \union {"."})
  IN  Adds(Number(SubSeq(src, p, end - 1)), end - p)

WordAt(src, p) ==
  LET end == SpanEnd(src, p, WordCharacters)
  IN  Adds(Identifier(SubSeq(src, p, end - 1)), end - p)

ChosenAt(src, p) ==
  IF Match(src, p, "=") THEN Adds(Tok(Chosen[src[p]][2], <<>>), 2)
  ELSE Adds(Tok(Chosen[src[p]][1], <<>>), 1)

SlashAt(src, p) ==
  IF Match(src, p, "/")
  THEN Skips(Min({q \in p + 1..Len(src) : src[q] = "\n"} \union {Len(src) + 1}) - p)
  ELSE Adds(Tok("Slash", <<>>), 1)

StringAt(src, p) ==
  LET ends == {q \in p + 1..Len(src) : src[q] = "\""}
  IN  IF ends = {} THEN Exits
      ELSE LET value == SubSeq(src, p + 1, Min(ends) - 1)
           IN  Adds(Tok("String", value), StringSize(value))

Turn(src, p) ==
  LET c == src[p] IN
  CASE c \in Digits                 -> NumberAt(src, p)
    [] c \in Letters \union {"_"}   -> WordAt(src, p)
    [] c \in DOMAIN Single          -> Adds(Tok(Single[c], <<>>), 1)
    [] c \in DOMAIN Chosen          -> ChosenAt(src, p)
    [] c = "/"                      -> SlashAt(src, p)
    [] c \in Blanks                 -> Skips(1)
    [] c = "\""                     -> StringAt(src, p)
    [] OTHER                        -> Adds(Tok("Invalid", <<>>), 1)

\* How tokenize ends: "done", "exit" for an unterminated string, or "beyond"
\* when '=' has taken the terminator and what follows is read.
RECURSIVE TokenizeFrom(_, _, _)
TokenizeFrom(src, p, tokens) ==
  IF p = Len(src) + 1 THEN [end |-> "done", tokens |-> tokens]
  ELSE IF p > Len(src) + 1 THEN [end |-> "beyond", tokens |-> tokens]
  ELSE LET turn == Turn(src, p)
       IN  IF turn.exit THEN [end |-> "exit", tokens |-> tokens]
           ELSE TokenizeFrom(src, p + turn.size, tokens \o turn.tokens)

Tokenize(src) == TokenizeFrom(src, 1, <<>>)

\* %f: the nearest number of Decimals decimals, all of them printed
PrintNumber(number) ==
  LET shift   == 10^(IF number.places > Decimals THEN number.places - Decimals ELSE 0)
      rounded == (number.units + shift \div 2) \div shift
      scaled  == rounded * 10^(IF number.places > Decimals THEN 0 ELSE Decimals - number.places)
  IN  Chars(ToString(scaled \div 10^Decimals)) \o <<".">>
      \o [d \in 1..Decimals |-> ToString((scaled \div 10^(Decimals - d)) % 10)]

TokenPrint(token) ==
  CASE token.type = "Number" -> PrintNumber(token.value)
    [] token.type = "Identifier" -> token.value
    [] token.type = "String"  -> <<"\"">> \o token.value \o <<"\"">>
    [] token.type = "Invalid" -> <<"<", "?", ">">>
    [] token.type = "Slash"   -> <<"/">>
    [] token.type \in ToSet(FromAnd) ->
         Chars(Keywords[CHOOSE k \in DOMAIN FromAnd : FromAnd[k] = token.type])
    [] \E c \in DOMAIN Single : Single[c] = token.type ->
         <<CHOOSE c \in DOMAIN Single : Single[c] = token.type>>
    [] \E c \in DOMAIN Chosen : token.type \in ToSet(Chosen[c]) ->
         LET c == CHOOSE d \in DOMAIN Chosen : token.type \in ToSet(Chosen[d])
         IN  <<c>> \o (IF Chosen[c][2] = token.type THEN <<"=">> ELSE <<>>)
-----------------------------------------------------------------------------
\* The tokens that lex.h names, in the way parse.c expects them, without a lexeme:
\* one character at a time, each in a mode that depends on the one before it.
NextMode(mode, c) ==
  CASE mode = "string"  -> IF c = "\"" THEN "closing" ELSE "string"
    [] mode = "comment" /\ c # "\n" -> "comment"
    [] mode = "slash" /\ c = "/"    -> "comment"
    [] mode = "operator" /\ c = "=" -> "equal"
    [] mode = "number" /\ c \in Digits \union {"."} -> "number"
    [] mode = "word" /\ c \in WordCharacters -> "word"
    [] OTHER -> CASE c \in Digits -> "number"
                  [] c \in Letters \union {"_"} -> "word"
                  [] c = "\"" -> "string"
                  [] c = "/"  -> "slash"
                  [] c \in DOMAIN Chosen -> "operator"
                  [] c \in Blanks -> "blank"
                  [] OTHER -> "sign"

Modes(src) == FoldLeft(LAMBDA modes, c : Append(modes, NextMode(
                IF modes = <<>> THEN "blank" ELSE Last(modes), c)), <<>>, src)
ModeAt(modes, p) == IF p \in DOMAIN modes THEN modes[p] ELSE "blank"

\* Where the character at p opens a token, and the run of characters of its mode
Opens(modes, p) ==
  \/ modes[p] \in {"sign", "operator"}
  \/ modes[p] = "slash" /\ ModeAt(modes, p + 1) # "comment"
  \/ modes[p] \in {"number", "word", "string"} /\ (p = 1 \/ modes[p - 1] # modes[p])
Run(modes, p) == Min({q \in p..Len(modes) : modes[q] # modes[p]} \union {Len(modes) + 1})

Reference(src, modes, p) ==
  LET text == SubSeq(src, p, Run(modes, p) - 1) IN
  CASE modes[p] = "number" -> Number(text)
    [] modes[p] = "string" -> Tok("String", Tail(text))
    [] modes[p] = "slash"  -> Tok("Slash", <<>>)
    [] modes[p] = "operator" ->
         Tok(Chosen[src[p]][IF ModeAt(modes, p + 1) = "equal" THEN 2 ELSE 1], <<>>)
    [] modes[p] = "word"   ->
         IF \E k \in DOMAIN Keywords : Chars(Keywords[k]) = text
         THEN Tok(FromAnd[CHOOSE k \in DOMAIN Keywords : Chars(Keywords[k]) = text], <<>>)
         ELSE Tok("Identifier", text)
    [] modes[p] = "sign"   ->
         Tok(IF src[p] \in DOMAIN Single THEN Single[src[p]] ELSE "Invalid", <<>>)

\* The kinds of token that lex.h names and tokenize never finds, and the number
\* of tokens of the reference before the first of such a kind
Unfound == {"BangEqual", "Equal", "LessEqual", "GreaterEqual", "Slash"}
Sure(reference) ==
  Min({k \in DOMAIN reference : reference[k].type \in Unfound} \union {Len(reference) + 1}) - 1

\* tokenize finds the tokens of the reference up to the first of a kind it never
\* finds, all of them if there is none; "a != 1" is a, Bang, EqualEqual, 1 where
\* parse.c looks for BangEqual.  It ends the program for an open string and for
\* nothing else, and leaves the source only if that ends in '='.
TokensOf(src) ==
  LET modes     == Modes(src)
      open      == SelectSeq([p \in DOMAIN src |-> p], LAMBDA p : Opens(modes, p))
      reference == [k \in DOMAIN open |-> Reference(src, modes, open[k])]
      all       == Sure(reference) = Len(reference)
      found     == Tokenize(src)
  IN  /\ IsPrefix(SubSeq(reference, 1, Sure(reference) - (IF found.end = "exit" THEN 1 ELSE 0)), found.tokens)
      /\ \A k \in DOMAIN found.tokens : found.tokens[k].type \notin Unfound
      /\ all /\ src # <<>> /\ Last(modes) = "string" => found.end = "exit"
      /\ all /\ (src # <<>> => Last(modes) # "string") => found = [end |-> "done", tokens |-> reference]
      /\ found.end = "beyond" => Last(src) = "="
      /\ found.end = "exit" => \E p \in DOMAIN src : src[p] = "\""
      /\ src = <<"a", " ", "!", "=", " ", "1">> =>
           /\ [k \in DOMAIN found.tokens |-> found.tokens[k].type] =
                <<"Identifier", "Bang", "EqualEqual", "Number">>
           /\ [k \in DOMAIN reference |-> reference[k].type] = <<"Identifier", "BangEqual", "Number">>

\* Two numbers that are the same, or the nearest one of Decimals decimals
IsPrintOf(read, number) ==
  LET difference == read.units * 10^number.places - number.units * 10^read.places
  IN  /\ read.places <= Decimals
      /\ IF number.places <= Decimals THEN read = number
         ELSE 2 * (IF difference < 0 THEN -difference ELSE difference) * 10^Decimals
                <= 10^(read.places + number.places)

\* Printed with blanks between them, tokens are read as the same tokens, numbers
\* with more decimals than %f prints as the nearest ones: the table of keywords,
\* the enumeration and token_print agree.
ReadsBack(src) ==
  LET found   == Tokenize(src).tokens
      printed == FlattenSeq([k \in DOMAIN found |-> TokenPrint(found[k]) \o <<" ">>])
      read    == Tokenize(printed)
  IN  Tokenize(src).end = "done" /\ (\A k \in DOMAIN found : found[k].type # "Invalid") =>
        /\ read.end = "done" /\ Len(read.tokens) = Len(found)
        /\ \A k \in DOMAIN found :
             /\ read.tokens[k].type = found[k].type
             /\ IF found[k].type = "Number" THEN IsPrintOf(read.tokens[k].value, found[k].value)
                ELSE read.tokens[k] = found[k]
=============================================================================
