-------------------------------- MODULE Csv --------------------------------
(***************************************************************************)
(* csv.c: one pass over a mapped file that reports, through callbacks, the *)
(* headers, the cells and the lines it meets.  The file is a sequence of   *)
(* the four kinds of bytes the code tells apart; one action is one turn of *)
(* a loop.  What was printed is kept in "out", which is how the program    *)
(* is compared with Reference, a definition of the same report without a   *)
(* cursor.                                                                 *)
(***************************************************************************)
EXTENDS Integers, Sequences, FiniteSets

CONSTANT MaxBytes                \* bound: the size of the file, at least 1

Quote   == "quote"
Newline == "newline"
Sep     == "sep"
Bytes   == {Quote, Newline, Sep, "other"}

\* mmap of an empty file fails, and parse returns before it reads anything.
Files == UNION {[1..n -> Bytes] : n \in 1..MaxBytes}

VARIABLES
  file,
  withHeader,   \* the program was given on_header and the headers as data
  phase,        \* "headers" | "body" | "done" | "exit"
  cur,          \* all positions count from 1
  startCell, startLine,
  cellNo, lineNo,
  insideQuotes,
  headers,      \* struct headers: the spans stored so far
  out           \* what was reported

csvVars == <<file, withHeader, phase, cur, startCell, startLine, cellNo, lineNo,
             insideQuotes, headers, out>>

Span(first, last) == [from |-> first, to |-> last]
HeaderReport(s, n)    == [kind |-> "header", span |-> s, no |-> n, line |-> 0]
CellReport(s, n, l)   == [kind |-> "cell", span |-> s, no |-> n, line |-> l]
LineReport(s, l)      == [kind |-> "line", span |-> s, no |-> 0, line |-> l]

\* Positions are spans up to, and without, the byte at cur.
Cell == Span(startCell, cur - 1)
Line == Span(startLine, cur - 1)
-----------------------------------------------------------------------------
\* Mutant: every quote toggles.
ToggleAlways(f, i) == f[i] = Quote
-----------------------------------------------------------------------------
CsvInit ==
  /\ file \in Files
  /\ withHeader \in BOOLEAN
  /\ phase = IF withHeader THEN "headers" ELSE "body"
  /\ cur = 1 /\ startCell = 1 /\ startLine = 1
  /\ cellNo = 0 /\ lineNo = 0
  /\ insideQuotes = FALSE
  /\ headers = <<>>
  /\ out = <<>>

\* A quote that another quote follows, or that ends the file, is passed over.
Toggles(f, i) == f[i] = Quote /\ i < Len(f) /\ f[i + 1] # Quote

EndsCell    == file[cur] \in {Newline, Sep} /\ ~insideQuotes
EndsLine    == file[cur] = Newline /\ ~insideQuotes

StoreHeader(s) == headers' = Append(headers, s)

\* ASSERT of on_header: the headers are numbered as they are stored.
HeaderAssert == cellNo = Len(headers)
\* ASSERT of on_cell, which is made only when there are headers.
CellAssert == withHeader => cellNo < Len(headers)

PassByte ==
  /\ phase \in {"headers", "body"} /\ cur <= Len(file) /\ ~EndsCell
  /\ insideQuotes' = IF Toggles(file, cur) THEN ~insideQuotes ELSE insideQuotes
  /\ cur' = cur + 1
  /\ UNCHANGED <<file, withHeader, phase, startCell, startLine, cellNo, lineNo, headers, out>>

\* parse_headers, and parse after it when the line ends.
EndHeader ==
  /\ phase = "headers" /\ cur <= Len(file) /\ EndsCell /\ HeaderAssert
  /\ out' = Append(out, HeaderReport(Cell, cellNo))
  /\ StoreHeader(Cell)
  /\ cur' = cur + 1 /\ startCell' = cur + 1
  /\ IF EndsLine
     THEN phase' = "body" /\ cellNo' = 0 /\ startLine' = cur + 1
     ELSE phase' = "headers" /\ cellNo' = cellNo + 1 /\ UNCHANGED startLine
  /\ insideQuotes' = FALSE
  /\ UNCHANGED <<file, withHeader, lineNo>>

EndCell ==
  /\ phase = "body" /\ cur <= Len(file) /\ EndsCell /\ ~EndsLine /\ CellAssert
  /\ out' = Append(out, CellReport(Cell, cellNo, lineNo))
  /\ cur' = cur + 1 /\ startCell' = cur + 1
  /\ cellNo' = cellNo + 1
  /\ UNCHANGED <<file, withHeader, phase, startLine, lineNo, insideQuotes, headers>>

EndLine ==
  /\ phase = "body" /\ cur <= Len(file) /\ EndsLine /\ CellAssert
  /\ out' = out \o <<CellReport(Cell, cellNo, lineNo), LineReport(Line, lineNo)>>
  /\ cur' = cur + 1 /\ startCell' = cur + 1 /\ startLine' = cur + 1
  /\ cellNo' = 0
  /\ lineNo' = lineNo + 1
  /\ UNCHANGED <<file, withHeader, phase, insideQuotes, headers>>

\* ASSERT prints and ends the program.
AssertFails ==
  /\ phase \in {"headers", "body"} /\ cur <= Len(file) /\ EndsCell
  /\ IF phase = "headers" THEN ~HeaderAssert ELSE ~CellAssert
  /\ phase' = "exit"
  /\ UNCHANGED <<file, withHeader, cur, startCell, startLine, cellNo, lineNo,
                 insideQuotes, headers, out>>

\* A last line without a newline is not reported.
EndOfFile ==
  /\ phase \in {"headers", "body"} /\ cur > Len(file)
  /\ phase' = "done"
  /\ UNCHANGED <<file, withHeader, cur, startCell, startLine, cellNo, lineNo,
                 insideQuotes, headers, out>>

Ended == phase \in {"done", "exit"} /\ UNCHANGED csvVars

CsvNext == PassByte \/ EndHeader \/ EndCell \/ EndLine \/ AssertFails \/ EndOfFile \/ Ended

CsvSpec == CsvInit /\ [][CsvNext]_csvVars /\ WF_csvVars(CsvNext)
-----------------------------------------------------------------------------
\* The same report, without a cursor.  A byte is inside quotes when an odd
\* number of runs of quotes ends before it: quotes next to each other, the
\* escaped ones and those of an empty cell included, count once.
QuoteRuns(f, i) == {j \in 1..i - 1 : f[j] = Quote /\ f[j + 1] # Quote}
Breaks(f)       == {i \in DOMAIN f : f[i] \in {Newline, Sep} /\ Cardinality(QuoteRuns(f, i)) % 2 = 0}

LineEnds(f, i)    == {b \in Breaks(f) : b < i /\ f[b] = Newline}
After(S)          == IF S = {} THEN 1 ELSE 1 + CHOOSE m \in S : \A n \in S : n <= m
CellBefore(f, i)  == Span(After({b \in Breaks(f) : b < i}), i - 1)
LineBefore(f, i)  == Span(After(LineEnds(f, i)), i - 1)
NumberOf(f, i)    == Cardinality({b \in Breaks(f) : LineBefore(f, i).from <= b /\ b < i})
InHeader(f, h, i) == h /\ LineEnds(f, i) = {}
LineOf(f, h, i)   == Cardinality(LineEnds(f, i)) - (IF h THEN 1 ELSE 0)

ReportsAt(f, h, i) ==
  IF InHeader(f, h, i) THEN <<HeaderReport(CellBefore(f, i), NumberOf(f, i))>>
  ELSE <<CellReport(CellBefore(f, i), NumberOf(f, i), LineOf(f, h, i))>>
       \o (IF f[i] = Newline THEN <<LineReport(LineBefore(f, i), LineOf(f, h, i))>> ELSE <<>>)

\* The cells that have no header above them.
Unheaded(f, h) ==
  {i \in Breaks(f) :
     h /\ ~InHeader(f, h, i)
       /\ NumberOf(f, i) >= Cardinality({b \in Breaks(f) : InHeader(f, h, b)})}

\* What there is to report of the first n bytes.
Told(f, h) ==
  LET told[n \in 0..Len(f)] ==
        IF n = 0 THEN <<>>
        ELSE told[n - 1] \o (IF n \in Breaks(f) THEN ReportsAt(f, h, n) ELSE <<>>)
  IN  told

\* Where the program stops: at the end of the file, or at the first cell that has
\* no header above it.
Stops(f, h) ==
  IF Unheaded(f, h) = {} THEN Len(f) + 1
  ELSE CHOOSE u \in Unheaded(f, h) : \A v \in Unheaded(f, h) : u <= v

Reference(f, h) == Told(f, h)[Stops(f, h) - 1]

\* What the callbacks were given, in which order and with which numbers, is what
\* the reference says of the file: header and body split alike, a newline or a
\* separator between quotes splits nothing, and the program stops early for a
\* row that is longer than the header and for nothing else: the assertion of
\* on_header, that the headers are numbered as they are stored, never fails.
ReportsTheCells ==
  phase \in {"done", "exit"} =>
    /\ out = Reference(file, withHeader)
    /\ phase = "exit" <=> Unheaded(file, withHeader) # {}
=============================================================================
