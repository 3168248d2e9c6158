-------------------------------- MODULE Sales --------------------------------
(***************************************************************************)
(* sales_commission.c and sales_commission2.c: two programs that read the  *)
(* same tables of revenues and expenses and compute the commission of each *)
(* person.  A line is the sequence of its words, whether blanks precede    *)
(* them and whether a blank precedes its newline; a word is its text and   *)
(* what strtoll makes of it, which is 0 for a name.  Commissions are in    *)
(* units of the rate, and sums of whole numbers.                           *)
(***************************************************************************)
EXTENDS Integers, SequencesExt

CONSTANT MaxSize   \* 100: how many words, and how many lines, sales_commission.c holds

Word(text) == [text |-> text, value |-> 0]
Amount(n)  == [text |-> "", value |-> n]
Line(words, indent, blank) == [words |-> words, indent |-> indent, blank |-> blank]
Empty == Line(<<>>, FALSE, FALSE)
-----------------------------------------------------------------------------
\* Mutant: losses are taken off.
SumWithLosses(benefits) == FoldLeft(+, 0, benefits)
-----------------------------------------------------------------------------
\* Both programs: only a benefit brings a commission.
Commission(benefits) == FoldLeft(LAMBDA sum, b : IF b > 0 THEN sum + b ELSE sum, 0, benefits)

\* sales_commission.c: lines that begin like a heading and empty ones are skipped,
\* and the rest is one array of tokens.  The newline after a blank is a token, too,
\* an empty one.  The counters are of one byte, but they outgrow the arrays first.
Begins(text, heading) == SubSeq(text, 1, Len(heading)) = heading
IsHeading(line) ==
  /\ ~line.indent /\ line.words # <<>>
  /\ \E heading \in {"Revenue", "Expenses"} :
       Len(line.words[1].text) >= Len(heading) /\ Begins(line.words[1].text, heading)
Tokens(line) == line.words \o (IF line.blank THEN <<Word("")>> ELSE <<>>)
Kept(lines)  == SelectSeq(lines, LAMBDA l : ~IsHeading(l) /\ l # Empty)

Commission1(lines) ==
  LET kept     == Kept(lines)
      tokens   == FlattenSeq([l \in DOMAIN kept |-> Tokens(kept[l])])
      people   == Len(Tokens(kept[1]))
      articles == (Len(kept) - 2) \div 2
      revenues == people
      expenses == people + (1 + people) * articles + people
      at(table, a, p) == tokens[table + (1 + people) * (a - 1) + 1 + p].value
      benefits(p) == [a \in 1..articles |-> at(revenues, a, p) - at(expenses, a, p)]
  IN  IF Len(tokens) > MaxSize \/ Len(kept) > MaxSize
      THEN [how |-> "wild", printed |-> <<>>]
      ELSE [how |-> "done",
            printed |-> [p \in 1..people |->
                          [person |-> tokens[p].text, commission |-> Commission(benefits(p))]]]

\* sales_commission2.c: split leaves no empty words.  The first three lines are
\* read without a look at them; the revenues go on up to the first line with
\* "Expenses" in it, after which two more lines are skipped; the expenses go on to
\* the end of the file, and the last line is split once more, since getline leaves
\* it there.
Split(line) == line.words
Amounts(words) == Tail(words)
AmountsOf(lines) ==
  FlattenSeq([l \in DOMAIN lines |->
    IF Len(Split(lines[l])) <= 1 THEN <<>> ELSE Amounts(Split(lines[l]))])
SaysExpenses(line) ==
  \E w \in DOMAIN line.words : \E q \in 1..Len(line.words[w].text) - 7 :
    SubSeq(line.words[w].text, q, q + 7) = "Expenses"

Commission2(lines) ==
  LET people   == Split(lines[3])
      heading  == Min({l \in 4..Len(lines) : SaysExpenses(lines[l])})
      first    == SubSeq(lines, 4, heading)
      second   == SubSeq(lines, heading + 3, Len(lines)) \o <<Last(lines)>>
      articles == Len(SelectSeq(first, LAMBDA l : Len(Split(l)) > 1))
      at(table, a, p) == AmountsOf(table)[Len(people) * (a - 1) + p].value
  IN  [p \in DOMAIN people |->
        [person |-> people[p].text,
         commission |-> Commission([a \in 1..articles |-> at(first, a, p) - at(second, a, p)])]]
-----------------------------------------------------------------------------
\* A file of two tables as sales.txt is one.  f.blank puts a blank at the end of
\* every heading and row, f.gap is what separates the tables: nothing, an empty
\* line or a blank; f.article is the first article's name.
Names(f) == [p \in 1..f.people |-> Word(<<"Frank", "Jane">>[p])]
Row(f, amounts, a) ==
  <<Word(IF a = 1 THEN f.article ELSE "Coffee")>> \o [p \in 1..f.people |-> Amount(amounts[a][p])]
Gap(f) == CASE f.gap = "none"  -> <<>>
            [] f.gap = "empty" -> <<Empty>>
            [] f.gap = "blank" -> <<Line(<<>>, FALSE, TRUE)>>
File(f) ==
  LET rows(amounts) == [a \in DOMAIN amounts |-> Line(Row(f, amounts, a), FALSE, f.blank)]
      table(heading, amounts) ==
        <<Line(<<Word(heading)>>, FALSE, f.blank), Empty, Line(Names(f), TRUE, FALSE)>> \o rows(amounts)
  IN  table("Revenue", f.revenues) \o Gap(f) \o table("Expenses", f.expenses)

\* The articles that sales_commission.c does not take for headings, and all the
\* words of a file that it stores, an empty one for each blank
Seen(f) == {a \in DOMAIN f.revenues : a > 1 \/ f.article # "Revenues"}
Stored(f) ==
  LET rows(amounts) ==
        FlattenSeq([a \in DOMAIN amounts |->
          IF a \in Seen(f) THEN Row(f, amounts, a) \o (IF f.blank THEN <<Word("")>> ELSE <<>>)
          ELSE <<>>])
  IN  Names(f) \o rows(f.revenues) \o (IF f.gap = "blank" THEN <<Word("")>> ELSE <<>>)
      \o Names(f) \o rows(f.expenses)

\* What is due for some articles with given amounts
Due(f, articles, revenue(_, _), expense(_, _)) ==
  LET brings(p) == {a \in articles : revenue(a, p) > expense(a, p)}
  IN  [p \in 1..f.people |->
        [person |-> Names(f)[p].text,
         commission |-> MapThenSumSet(LAMBDA a : revenue(a, p) - expense(a, p), brings(p))]]

\* The second program prints for each person the commission on the articles that
\* bring more than they cost, blanks or not.  The first one does so only if it has
\* room for all the words and no article is named like a heading (it leaves that
\* one out), and with no blank at the end of a line: it looks for every amount at
\* the place that it would have without the blanks, and takes what is there.
SameCommissions(f) ==
  LET mark(base) == [a \in DOMAIN f.revenues |-> [p \in 1..f.people |-> base + 10 * a + p]]
      bare  == Stored([f EXCEPT !.blank = FALSE, !.gap = "none",
                                !.revenues = mark(100), !.expenses = mark(200)])
      place(m) == CHOOSE q \in DOMAIN bare : bare[q].value = m
      found(base, a, p) == Stored(f)[place(mark(base)[a][p])].value
      due   == Due(f, DOMAIN f.revenues, LAMBDA a, p : f.revenues[a][p], LAMBDA a, p : f.expenses[a][p])
      first == Commission1(File(f))
  IN  /\ Commission2(File(f)) = due
      /\ first.how = IF Len(Stored(f)) <= MaxSize THEN "done" ELSE "wild"
      /\ first.how = "done" =>
           /\ first.printed = Due(f, Seen(f), LAMBDA a, p : found(100, a, p),
                                              LAMBDA a, p : found(200, a, p))
           /\ ~f.blank /\ f.gap # "blank" /\ f.article # "Revenues" => first.printed = due
=============================================================================
