-------------------------------- MODULE Lines --------------------------------
(***************************************************************************)
(* The programs that go through a mapped file line by line: fec.c, which   *)
(* counts the values of a column, btc.c, which looks for the first price   *)
(* since a date, and main of dict.c, which makes the index.  fec.c copies  *)
(* a line into a buffer without a terminator, so that what an earlier,     *)
(* longer line or another function left there follows it.  Bytes are       *)
(* strings of length one.                                                  *)
(***************************************************************************)
EXTENDS Integers, FiniteSets, SequencesExt

CONSTANTS
  Column,       \* 5 or 8: the field that fec.c takes
  Width,        \* 6 or 99: how much of it strncpy copies
  Room,         \* 1024: the size of fec.c's buffer
  Values,       \* 50: how many different values its table has room for
  LineRoom,     \* 100: the size of btc.c's two buffers
  Entries,      \* 300000: how many words the table of dict.c has room for
  PlaceSize,    \* 2 to the 24: how many places str_i of dict.c tells apart
  WordSize,     \* 2 to the 8: how many sizes
  Recent,       \* the cells that line_cb takes for a timestamp that is late enough
  NaN

NL  == "\n"
End == "NUL"

\* How a program ends: "done", and with what; "loop", it does not; "wild", it
\* copies more than there is, or to where there is no room; "unset", it goes on
\* with a variable without value.
Ends(how, result) == [how |-> how, result |-> result]
-----------------------------------------------------------------------------
\* Mutant: a line starts at a newline.
LineStartAtNewline(file, f) == f = 1 \/ file[f] = NL
-----------------------------------------------------------------------------
\* strchr(f, '\n'), or 0
NextEol(file, f) ==
  LET eols == {q \in f..Len(file) : file[q] = NL} IN IF eols = {} THEN 0 ELSE Min(eols)
LineStart(file, f) == f = 1 \/ file[f - 1] = NL

Places(text, b) == SelectSeq([q \in DOMAIN text |-> q], LAMBDA q : text[q] = b)
CString(text)   == SubSeq(text, 1, Head(Places(text, End) \o <<Len(text) + 1>>) - 1)

\* What strsep makes of a text, field by field
Fields(text, separator) ==
  LET cuts == <<0>> \o Places(text, separator) \o <<Len(text) + 1>>
  IN  [k \in 1..Len(cuts) - 1 |-> SubSeq(text, cuts[k] + 1, cuts[k + 1] - 1)]

\* memcpy of a line over the buffer; the terminators strsep then writes into it
Copy(buffer, line) == line \o SubSeq(buffer, Len(line) + 1, Len(buffer))
Separated(buffer) ==
  [q \in DOMAIN buffer |->
    IF /\ q <= Len(CString(buffer)) /\ buffer[q] = "|"
       /\ Cardinality({r \in 1..q : buffer[r] = "|"}) <= Column
    THEN End ELSE buffer[q]]

\* strncpy of the field
Value(fields) == SubSeq(fields[Column], 1, Min({Width, Len(fields[Column])}))

\* A new value that months has no room for, kh_put and the increment
Full(count, value) == value \notin DOMAIN count /\ Cardinality(DOMAIN count) >= Values
Counted(count, value) ==
  [v \in DOMAIN count \union {value} |->
    (IF v \in DOMAIN count THEN count[v] ELSE 0) + (IF v = value THEN 1 ELSE 0)]

\* f goes on from the end of a line: of an empty line, from where it is.
RECURSIVE CountFrom(_, _, _, _)
CountFrom(file, f, buffer, count) ==
  IF f > Len(file) THEN Ends("done", count)
  ELSE IF ~LineStart(file, f) THEN CountFrom(file, f + 1, buffer, count)
  ELSE LET eol    == NextEol(file, f)
           copied == Copy(buffer, SubSeq(file, f, eol - 1))
           fields == Fields(CString(copied), "|")
       IN  IF eol = 0 \/ eol - f > Room THEN Ends("wild", count)
           ELSE IF eol = f THEN Ends("loop", count)
           ELSE IF Len(fields) < Column THEN Ends("unset", count)
           ELSE IF Full(count, Value(fields)) THEN Ends("wild", count)
           ELSE CountFrom(file, eol, Separated(copied), Counted(count, Value(fields)))

CountColumn(file, garbage) == CountFrom(file, 1, garbage, <<>>)

\* read_string_line_by_line with line_cb: the first line with a recent time and a
\* price is printed and ends the program.
IsPrice(cells) == Len(cells) >= 2 /\ cells[1] \in Recent /\ cells[2] # NaN

RECURSIVE PriceFrom(_, _)
PriceFrom(file, s) ==
  IF s > Len(file) THEN Ends("done", <<>>)
  ELSE IF ~LineStart(file, s) THEN PriceFrom(file, s + 1)
  ELSE LET eol  == NextEol(file, s)
           line == SubSeq(file, s, eol - 1)
       IN  IF eol = 0 \/ eol - s >= LineRoom THEN Ends("wild", <<>>)
           ELSE IF IsPrice(Fields(line, ",")) THEN Ends("done", <<line>>)
           ELSE PriceFrom(file, eol + 1)

\* main of dict.c: a word per newline, its place and size cut to their fields, in
\* a table that is not asked for its size.
WordOf(start, end) == [at |-> start % PlaceSize, size |-> (end - start) % WordSize]
Index(file) ==
  LET ends == Places(file, NL)
  IN  Ends(IF Len(ends) > Entries THEN "wild" ELSE "done",
           [k \in DOMAIN ends |-> WordOf(IF k = 1 THEN 0 ELSE ends[k - 1], ends[k] - 1)])
-----------------------------------------------------------------------------
\* The lines of a file; the last one is what follows the last newline.
LinesOf(file) ==
  FoldLeft(LAMBDA lines, b : IF b = NL THEN Append(lines, <<>>)
                             ELSE Append(Front(lines), Append(Last(lines), b)), <<<<>>>>, file)

\* A line that fec.c can read: the column is there, and a bar after it.
Readable(line) == line # <<>> /\ Len(line) <= Room /\ Len(Fields(line, "|")) > Column

\* fec.c counts every line once, under the value of its column, whatever lines
\* came before and whatever was in the buffer, up to a line that is empty, where
\* it stays, or to a value more than its table holds or a line without an end,
\* where it runs wild.
CountsLines(file, garbage) ==
  LET lines == Front(LinesOf(file))
      rest  == Last(LinesOf(file))
      value(k) == Value(Fields(lines[k], "|"))
      bad   == {k \in DOMAIN lines : ~Readable(lines[k])}
      good  == IF bad = {} THEN DOMAIN lines ELSE 1..Min(bad) - 1
      fits  == Cardinality({value(k) : k \in good}) <= Values
      found == CountColumn(file, garbage)
  IN  /\ bad = {} /\ fits /\ rest = <<>> =>
           /\ found.how = "done"
           /\ DOMAIN found.result = {value(k) : k \in DOMAIN lines}
           /\ \A v \in DOMAIN found.result :
                found.result[v] = Cardinality({k \in DOMAIN lines : value(k) = v})
      /\ ~fits \/ (bad = {} /\ rest # <<>>) => found.how = "wild"
      /\ fits /\ bad # {} /\ lines[Min(bad)] = <<>> => found.how = "loop"

\* btc.c prints the first line that has both, empty lines or not; it runs wild at
\* a line that its buffers do not hold, a priced one too, and at a last line
\* without an end, but only if it has not found one before.
FindsPrice(file) ==
  LET lines  == Front(LinesOf(file))
      priced == {k \in DOMAIN lines : IsPrice(Fields(lines[k], ","))}
      long   == {k \in DOMAIN lines : Len(lines[k]) >= LineRoom}
      first  == Min(priced \union long)
  IN  PriceFrom(file, 1) =
        IF priced \union long # {}
        THEN IF first \in long THEN Ends("wild", <<>>) ELSE Ends("done", <<lines[first]>>)
        ELSE Ends(IF Last(LinesOf(file)) = <<>> THEN "done" ELSE "wild", <<>>)

\* The index holds the lines of a file with no more lines than the table has
\* entries, as far as the fields of an entry hold their places and sizes; with one
\* line more the program writes behind the table.
IndexesLines(file) ==
  LET index == Index(file)
      lines == Front(LinesOf(file))
  IN  /\ index.how = IF Len(lines) <= Entries THEN "done" ELSE "wild"
      /\ index.how = "done" =>
           /\ Len(index.result) = Len(lines)
           /\ \A k \in DOMAIN lines :
                Len(file) <= PlaceSize /\ Len(lines[k]) < WordSize =>
                  lines[k] = SubSeq(file, index.result[k].at + 1,
                                    index.result[k].at + index.result[k].size)
=============================================================================
