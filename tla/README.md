# Formal models of c-work

c-work is a collection of small C programs: a Sokoban game on SDL, two HTTP servers on the `ae`
event loop, countdown timers on libdispatch, a scanner and the beginning of a parser, a CSV reader,
a parenthesis checker that builds a tree, a dictionary search, and a number of exercises. There is
no document that says what they do. This directory models the ones with logic of their own in TLA+,
checks the models with TLC on small instances and proves what it can with TLAPS. Every
definition is translated from the C source; `PROJECT.json` maps it to its lines.

## 1. Inventory

### The programs and how their parts interact

| component | sources | state | operations | status |
|---|---|---|---|---|
| Sokoban game | `sokoban.c` | map, Mario's cell, counters, level, the buffer `map_io` | start, arrows, restart (R), reload (F9), quit, completion check | modelled and proved |
| Countdown timers | `dispatch_timer.c` | one count per timer, `ntimers`, two queues | create, event handler, print block, goodbye and exit | modelled and proved |
| HTTP servers | `http.c`, `http_csv.c` | ae's table, the kernel's registrations, connections | accept, read and write handlers | modelled and proved |
| Event loop and sockets | `ae.h`, `anet.h` | (library; only headers are here) | poll, create/delete file event | modelled from its use |
| Parenthesis tree | `parens.c` | a heap of nodes, the current node | the seven branches of `parse_char`, the verdict, `node_free` | modelled and proved |
| CSV reader | `csv.c` | cursor, quote flag, counters, stored headers | header loop, body loop, three callbacks | modelled and proved |
| Dictionary search | `dict.c`, `dict_read.c` | word index, search window | build, naive / memcmp / divide search | the index and the divide search modelled, the search proved |
| Dynamic strings | `sds.c`, `sds.h` (vendored) | header (len, alloc, type), block, bytes | every call that creates, grows, changes or frees a string; split, join, numbers, escapes, command lines | modelled and proved, but for failing allocation, comparison and token arrays' freeing |
| Lexer and parser | `lex.c`, `parse.c`, `lox.c`, `vec.h` | cursor, token vector | `tokenize` and its helpers, `token_print`; a stub parser | the lexer modelled |
| Closest pair | `house.c`, `house_2.c` | array of points, the best pair at its start, the calls at work | brute force, divide and conquer | modelled and proved |
| Advent of Code 4 | `aoc4.c` and friends | sorted events, minutes per guard, the guard on duty | sort, account, find the sleepiest | the first part modelled |
| Advent of Code 5 | `aoc5.c` | a string that shrinks in place, a cursor that steps back | reduce | modelled and proved |
| Line readers | `fec.c`, `btc.c` | cursor, the copied line, counts | line loops, field loops | modelled |
| Sales commission | `sales_commission.c`, `sales_commission2.c` | table of tokens, offsets | split lines, account | modelled |
| the rest | `sort.c`, `sudoku.c`, `airplane.c`, `dispatch_hello*.c`, `dispatch_file_read.c`, `jemalloc.c`, `os_log.c`, `strstr.c`, `utils.c`, `buf.h`, build files, data | | | not modelled, see section 7 |

The programs do not call each other. The interactions are inside them:

* **Sokoban**: SDL delivers one event at a time to the loop of `main`; after every event, whatever
  it was, the completion check runs. The level file is read by `main` at the start and on F9, and
  may have changed in between.
* **Timers**: the main thread creates the timers and then drains the main queue, on which all event
  handlers run; a worker drains the queue `print_serial` at the same time. A print block does not
  carry the number it prints, it reads the shared `__block` variable when it runs.
* **HTTP**: `ae` calls handlers for the events the kernel reports. A handler may close a descriptor
  that has another event pending in the same round, and the kernel may give its number to the next
  connection.
* **Parens**: the tree's nodes point to their parents, and `realloc` moves them.

### What is hard, and what makes each part correct

* Sokoban: cell arithmetic is 8-bit; walls, goals and crates share one entity per cell, so a goal
  must be restored from under a crate; `load_level` fails after it has overwritten the map; the
  completion check follows every event. Correct when, on playable files, it plays Sokoban and nothing
  else, and when no file, whatever its bytes and wherever it ends, takes Mario off the board.
* Timers: two threads, a shared counter, an exit that must not lose submitted output. Correct when
  the goodbye comes after everything and everything comes.
* HTTP: any order of events, stale table entries, reused descriptors, clients that close at any time, a database
  that fails. Correct when whoever asks is answered, after asking, on his own connection, and no assertion of the
  handlers fails; the properties name the causes for which the servers fall short of this.
* Parens: dangling parent pointers exist at all times; the parser must never follow one. Correct when
  it computes what a counter computes.
* CSV: the look-ahead at quotes, the hand-over from header to body, the assertions on counts.
  Correct when the callbacks get the cells the file has.
* Dynamic strings: three header types share a string, and a growing one moves from one to another; len
  and alloc have the header's width; `sdscatfmt` leaves the string without terminator while it works, and
  `sdscatvprintf` guesses from one byte whether its buffer sufficed. Correct when header and block agree
  after any calls and each call does to the string what its comment says.
* Dictionary: the right half of a window is taken one word too long; the index may have been moved by `realloc`
  before it is searched; `cmp` cuts its result to `int8_t`. Correct as far as what is found is what was sought
  or recognisably made from memory that was given back, the recursion ends, and only words at the end of the list
  pay for the right half.

* The small programs: memory that an earlier round has left behind is read by a later one (`fec.c`'s line
  buffer, the byte behind `aoc5.c`'s string, the points that `house.c`'s best pair overwrites). Correct
  when the answer is that of a definition which has no such memory.

The list of hazards, each at its line, is `hazards` in `PROJECT.json`, including the few
that no property covers, with the reason.

## 2. Modules

| module | what it is |
|---|---|
| `Sokoban` | the game: one action per event, each with the completion check that follows it in the loop |
| `SokobanRules` | the abstract game: squares, sets of walls, goals and crates |
| `SokobanRefinement` | the map from the flat array to the abstract board, `PlaysByTheRules` |
| `MCSokoban` | boards of 5x5 and 4x4 cells and versions of level files for TLC |
| `SokobanProofs` | theorems about `Sokoban` for any files, and about it and `SokobanRefinement` for playable ones |
| `DispatchTimer` | main thread, event handlers, print queue |
| `Countdown` | the abstract countdown it implements (`IsCountdown`) |
| `MCDispatchTimer`, `DispatchTimerProofs` | instance for TLC; theorems |
| `HttpServer`, `MCHttpServer` | both servers with `ae`, the kernel, clients and the database around them |
| `HttpServerProofs` | theorems about `HttpServer` |
| `Parens`, `ParensProofs` | the tree parser over a heap; theorems |
| `ParenCounter` | the counter it implements (`CountsTheDepth`) |
| `Csv`, `CsvProofs` | the reader and its reference definition; theorems |
| `Dict`, `DictProofs` | the divide search; theorems |
| `Sds` | one dynamic string: header, block and every call that changes it |
| `SdsString` | the string of bytes it promises (`IsString`) |
| `MCSds`, `SdsProofs` | types that end at 3, 4, 6 and 7 bytes for TLC; theorems about `Sds`, `SplitJoin` and `SdsText` |
| `SplitJoin` | `sdssplitlen` and the join of its tokens |
| `SdsText` | escapes and command lines (`sdscatrepr`, `sdssplitargs`) and numbers (`sdsll2str`, `sdsull2str`) of `sds.c`, and what reads them back |
| `Lexer` | `tokenize`, `token_print`, and a tokenisation that looks at one character at a time |
| `ClosestPair` | both searches of `house.c`, one action per call, return and turn of a loop, and the smallest distance |
| `GuardLog` | `aoc4.c` from the sorted events to the answer, and the nights it is about |
| `Polymer` | `aoc5.c`'s reduction in place, one action per turn of the loop, and the reduction by a stack |
| `ProgramsProofs` | theorems about `Polymer` and `ClosestPair` |
| `Sales` | both commission programs and the table they are about |
| `Lines` | the loops over lines of `fec.c` and `btc.c`, the index of `dict.c` |
| `MCPrograms` | the small programs, one behaviour per program and input |

### How state and actions correspond to the code

**Sokoban.** `game` is `map`, `mario_cell` and the two counters; `W` stands for 12, `MaxLevels` for
3, `EntitySize` for `sizeof(Entity)`. `AtBorder`, `NextCell`, `Moved` and `LoadLevel` are
`is_at_border`, `get_next_cell_i` (with its wrap at 256), `go` and `load_level`; `LoadLevel` searches
only as many cells as `memchr`'s byte count covers. `EndIteration` is lines 275-312, and every action
ends with it. Variables of `main` that are read before they are set take any value of `Garbage`; a
read outside an array ends the run in phase `"undefined"`. A file is its count and any number of bytes: the last level may be
cut short anywhere (`ReadInto` overwrites bytes), and a byte that is no enumerator is the entity `"OTHER"`, which `go` pushes as it
pushes a crate and which line 283 cannot draw (`HasTextures`). Events without a handler are `OtherEvent`, for the check follows
them, too. Left out: the rest of the rendering, and `map_backup`, which is never read.

**DispatchTimer.** `pc` is the main thread's place: creating timers, idle in the main queue, or
between the statements of a handler (decrement, submit, test, last timer). `queue` is `print_serial`,
`out` what was printed. `CountMod` stands for 2^32, so that a count of 0 wraps. `ntimer_serial` is
only used with `dispatch_sync` by the thread itself, so its blocks are part of the actions that
submit them. A timer that is due twice before its handler runs is delivered once, as libdispatch
documents for coalesced events.

**HttpServer.** `mask` is ae's table, `filter` the kernel's: `close` empties one and not the other,
and `aeDeleteFileEvent` is given the mask that fired. `Backend` chooses how events are reported
(kqueue: one by one, in any order; epoll: together, the read handler first) and when a registration
fails. `Streaming` is `http_csv.c`, which writes before it selects. Descriptors are taken lowest first.
A client may close, or shut down the side it sends on, at any time (`Shut`); from then on its descriptor is readable for ever and `read`
returns 0, which the handler does not look at. A failed assertion or an `exit(1)` stops the server. Actions that are not in `src/` (`Poll`, `Begin`,
`Connect`, ...) are marked external in the map.

**Parens.** `heap` maps the identity of each live array to its nodes, and a pointer is a pair of
identity and position. `realloc` keeps the identity or takes a fresh one, at every call; identities
of freed arrays are never reused, so following a dangling pointer is visible. The recursion of
`parse_char` is one action per level. The string is chosen character by character.

**Csv.** One action per turn of a loop; the file is a sequence of the four kinds of bytes the code
tells apart. `out` records what the callbacks were called with. `exit(1)` from `ASSERT` is the phase
`"exit"`.

**Dict.** One action per call of `word_find_divide` or turn of `word_find_naive`'s loop. The text is three
numbers: how many words are smaller than the one sought, whether the next is equal, and how many start
with it; any sorted list without duplicates looks like that to `cmp` and `memcmp`. An index past the last word
is in memory that was given back: any comparison, or a fault. `words` points into the block that line 187 gives to `realloc`;
`moved` says that it has moved, and then every entry is such memory. `fits` says that the differences `cmp` makes fit
`int8_t`; otherwise two words that differ may be taken for smaller or greater. The building of the index is abstracted to
its number of words here and modelled in `Lines`.

**Sds.** `s` is the header's three fields, the number of bytes the block has, and the bytes written into it:
`mem` grows past `room` when a call writes past the block. What lies behind the terminator is forgotten, for
nothing reads it. Limits of types, `SDS_MAX_PREALLOC` and the 1024 bytes of `staticbuf` are parameters. The
branch of `sdsMakeRoomFor` that reallocates and the one that allocates and copies have the same effect
(`Block`). `sdscatfmt` is three actions, for between its pieces the string is not terminated; a piece is a byte
or an argument, numbers as their digits, and `fmt` keeps what is left of the format and what has been read of it. Each call writes itself into `op`, so that `SdsString` can say what
it should have done. `sdsIncrLen` is a call of its own kind: the caller wrote the bytes before.

**ClosestPair.** One action per call and return of `divide_conquer` and per turn of a loop; `calls` is its stack. The
same `a` and `b` go down all levels, so a nearer pair is written on the first two points of the whole array
(`Stored`), also by a call on points elsewhere, and later loops read what is there. `order`, a history variable, keeps the points as `qsort` left them,
which is any order in which the x are. The first search is left out for more than `NaiveLimit` points (10000 and 100000).

**SplitJoin.** One action per turn of the loop of `sdssplitlen`, the last token, and one per turn of the loop of
`sdsjoinsds`. `slots` is the size of the array, which doubles when two more tokens might not fit. `j` and `start` count from 0, as in the code.

**SdsText.** Two machines. One writes arguments with `sdscatrepr`, a byte of an argument at a time, with the blank that a caller
puts between them, and reads the line with `sdssplitargs`, one turn of its loops at a time: `p` is `cursor`, from 1; `inq` and `insq` are the
modes `"quotes"` and `"apostrophes"`; the label `err` is `Refuse`; `isprint` and `isspace` are those of the C
locale. It reads lines from elsewhere, too. The other makes the digits of a number from the right, as `sdsll2str` and `sdsull2str` do, adds the sign and
turns them around; what adds them up again (`SumUp`) is not in the code. The smallest number, whose negation overflows, stays what it is
and is right as an unsigned number, as compilers have it.

**The small programs** that run from an input to an output without anything to wait for are functions of
their input: `Lexer`, `GuardLog`, `Sales` and `Lines` have no variables.
A loop of the code is a recursive function or operator over what the loop carries (cursor, buffer,
output), one call per turn; a read outside an array or a `memmove` gone wild is a result of its own. Next to each
stands what the result is compared with, written without the loop. `MCPrograms` makes one state of each input,
with `tool` saying whose it is, and lets `Dict`, `Csv`, `Polymer`, `ClosestPair`, `SplitJoin` and `SdsText` take their steps;
variables of the others are parked. They share a run because they share a question, is the
output the one the input asks for, and nothing else.

What is abstracted: `Lexer` has one character per class the code tells apart, letters excepted, of which
keywords need their own; the value of a number is kept in decimal, and `Decimals` stands for the 6 that `%f` prints, to which `PrintNumber` rounds. `ClosestPair` compares squares of distances of whole numbers, where the code has
floats; `house.c` and `house_2.c` have the same search. `GuardLog` starts from dates that `main` has parsed, all in one year,
with `Hour` for 60 minutes and `ByteSize` for the 256 nights a `uint8_t` counts. `Sales` leaves out the rate, a common factor; a line is its
words and its blanks, and `MaxSize` stands for the 100 of `tokens` and `token_counts`, whose one-byte counters overrun the arrays before they wrap.
`Lines` has the widths of `fec.c`'s column, of its line buffer and of `dict.c`'s packed index, and the room of `months` (50), of
`btc.c`'s two buffers (100) and of `dict.c`'s table (300000) as parameters; what would be written behind one of these is the end `"wild"`.

## 3. What the runs check

| run | instance | what it shows |
|---|---|---|
| `sokoban_play` | 5x5, two levels, two versions of a playable file that F9 may swap | `BoardFaithful` (walls and goals stay those of the file, crates are neither lost nor made), `MarioFree`, `NeverUndefined`, `WonSolved`, `AdvanceByLastPush` (no event but the last push ends a level), `PlaysByTheRules` (refinement of `SokobanRules`) |
| `sokoban_odd` | 4x4, files that are cut short in a level, long, empty, missing, unplayable, hold bytes that are no entity, or announce more levels than fit | `TypeOK`; `OnBoard`: once Mario is on the board nothing takes him off it, and only a level beyond the buffer or the drawing of a byte that is no entity is undefined |
| `sokoban_far_mario` | 4x4, Mario in the lower part | violated: "Mario missing from map" is printed for a map that has him |
| `sokoban_half_solved` | 4x4, a crate on its goal in the file | violated: "You won!" with a goal uncovered |
| `dispatch_timer` | two timers, counts 0 (which wraps, at 4) and 3 | `GoodbyeOnlyWhenDone`, `NothingLost` (exit loses no submitted line), `NeverAhead` (late lines show less, never more), `Finishes`, `IsCountdown` |
| `http_answers` | `http.c`, kqueue, 3 clients on 2 descriptors, one of whom sends in two parts | `AnswerAfterRequest` (an answer without anything read is for a client that has closed, or follows a connection that trailed its request), `AssertionsHold` (nothing else but such a connection, or the lack of a descriptor, makes an assertion fail), `EveryoneIsAnswered` |
| `http_rough` | `http_csv.c`, 3 clients, 2 descriptors, requests in two parts, clients that close | `WritableIsOpen` (what close leaves in ae's table is never a write handler), `DescriptorsFollowConnections` |
| `http_read_assert` | kqueue, one client, two parts | violated: `assert` of `readFromClient` fails when the write event is processed before a read event for the rest of the request, or its end |
| `http_accept_assert` | epoll, two clients | violated: `assert` of `acceptTcpHandler` fails on a reused descriptor |
| `parens` | all strings of up to 8 characters, every choice of moving reallocs | `NoDangling`, `OwnedOnce`, `Answers`, `CountsTheDepth` (refinement of `ParenCounter`) |
| `sds` | any calls on a string of up to 4 bytes whose types end at 3, 4, 6 and 7 | `Sound` (header and block agree), `IsString` (every call does what its comment says: refinement of `SdsString`), `RoomAsAsked` |
| `programs` | the small programs on all their small inputs | `FoundAwayFromTheEnd`, `BeyondOnlyForTheLast` (in an index that is where it was, with differences that fit, a word with `k` from it to the end is found if `4 * 2^k` is at least the number of words, and the index is left only if `2^k` is at most that), `NoFalseHit` (for every index and difference), `CallsShrink` (the recursion ends); `ReportsTheCells`; `SplitThenJoin`, `TextIsRead` (`sds.c` reads what it has written); `TokensAreThose`; `PolymerReduced`; `ClosestDistance`; `GuardsAccounted`; `SalesAgree` (both programs); `LinesAreThose` |

Each property has a mutant, a definition of the module changed as a slip in the code would change it,
under which the run finds the property violated (`mutants` in `PROJECT.json`).

### Bounds, and why they are enough

* Boards of 4x4 and 5x5 have corners, borders and an interior from which a crate can be pushed in
  every direction; the proofs cover every width the code's types allow. Two levels give a level that is
  left and one that is won; three announced in a buffer of two give the overrun. One file is cut short in its second level, whose rest stays what the file before has left.
* Two timers give every interleaving of handlers and prints that involves a pair; one wraps. The
  proofs cover any number of timers.
* Three clients on two descriptors force reuse of a number while another connection is open, and a
  failing accept; the proofs cover any number of both. Two chunks are the least with which a read event can be pending during a write,
  other than for the end of the request; in the run with liveness one client has them.
  `SYMMETRY` (clients are interchangeable) is used in the run without liveness only.
* Eight characters give trees of three levels in which a node with grandchildren is moved by a
  sibling's realloc (`(()())(` is seven), which is when parents dangle; the proofs cover any length.
* Six bytes give a header and a longer row, an empty quoted cell, doubled quotes, and a quote as the
  last byte; the proofs cover files of any size.
* Twenty words give searches of five divisions, each of which can move the end of the window one word past the index. The proofs cover lists of any length.
* Strings of up to four bytes in types that end at 3, 4, 6 and 7 meet every type, every change of one and
  both rules of growth (`MaxPrealloc` is 3); arguments of two bytes overflow a `staticbuf` of two. The proofs cover all widths.
* `sdssplitlen` gets strings of up to nine bytes over two, for the slots to grow from five, and separators of up to two bytes, which a
  string can begin and not finish; `sdscatrepr` two arguments, and one of up to three bytes of each class; `sdssplitargs` lines of up
  to five bytes of six; numbers are eight bits wide, all of them, signed and unsigned. The proofs cover any strings, arguments, lines and widths.
* Three characters of each class, and five of those that take others with them, for the lexer; every keyword
  with every kind of successor; numbers of up to five characters, of which `%f` prints two decimals.
* Polymers of six units of two kinds take two steps back after a step back, and end in each of the two ways
  that run wild; five points divide twice, so that the first two are overwritten before all their
  pairs are compared, and two pairs of the five places are as near as any (the proofs cover any number of letters and points); three nights of two guards overlap in every order; tables of two by two have all offsets, and
  with their blanks more than the sixteen words there is room for; files of seven bytes give three lines, the second shorter than the first,
  lines of the four bytes that `btc.c`'s buffers do not hold, and more words than the four of the index; files of four lines have more values than the two of `fec.c`'s table.

`CHECK_DEADLOCK FALSE` is set for Sokoban, which ends, and for the servers, which wait for clients or
have exited. The others have an explicit terminated state, so a deadlock would be reported.

### Fairness, and why the code justifies it

* `DispatchTimer`: weak fairness of the main thread and of the print worker (threads are scheduled)
  and of each timer's firing (a repeating timer that is not cancelled fires again).
* `HttpServer`: weak fairness of the loop (`aeMain` runs until stopped, which nobody does); nothing is assumed of
  the clients.
* `Parens`: weak fairness of the next step of a sequential program.
* `Sokoban` and `Sds` have no liveness property: the player and the caller may do nothing. That the small
  programs end is `CallsShrink` for `dict.c`; the loops that do not end are results of `Lines` and `Lexer`.

## 4. What the violated runs show

* `sokoban.c:70`: `memchr` is given 144 bytes of an array of 144 four-byte entities.
* `sokoban.c:294`: the number of covered goals is compared with the number of uncovered goals at load
  time. (Closely related: `load_level`'s refusal at line 87 is ignored by all callers.)
* `http.c:86`: a connection stays registered for reading while its answer is due; its read handler
  can run after the write handler of the same round has closed it. That needs no second part: a client that closes, or shuts down
  its side, after its request makes the descriptor readable once more.
* `http.c:71`: the mask passed to `aeDeleteFileEvent` is what fired, so the read registration of a
  closed descriptor stays in the table. It matters where ae asks the table whether to add or to modify.

The models have a number of peculiarities that are not findings, for nothing in the repository says
otherwise, or because the words that do are about something else:

* `parens.c` accepts an expression whose parentheses stay open (`ParenCounter!Answer`).
* `csv.c` counts a run of quotes as one quote, so that `""` opens a quoted cell and does not close it
  (`QuoteRuns` in `Csv`); a last line without a newline is not reported, as its TODO says.
* `dict.c` may miss one of the last words of a list, of 11 words for instance (`FoundAwayFromTheEnd` says
  which are safe), and any word if the `realloc` of line 187 moves the block, for `words` then points into the old one
  (`NoFalseHit`: all it returns is made from that), or if two words differ by more than `int8_t` holds.
* `house.c` may report a pair that is not the closest, from four points on, as for 0, 2, 3 and 5 on a line: the
  recursion stores its best pair over points that are still to be searched. `ClosestDistance` says what is left: the
  pairs without the two leftmost points.
* `aoc5.c` calls `memmove` with a wild length for a polymer that ends like `xXx` (`PolymerReduced` names the cases).
* `aoc4.c:213`: the loop of the second part runs from a minute to the same minute, so it never runs.
* `fec.c` does not end for an empty line, and reads on after a last line without a newline; `btc.c` does so only
  if it finds no price. Both copy lines, `fec.c` values and `dict.c` entries, to arrays without a look at their size: `LinesAreThose`
  says up to which line the result is right.
* `lex.c`: `=` is `==` whatever follows, and swallows it; `!`, `<` and `>` never take a `=`; `/` begins a comment
  always. `parse.c` (lines 126 and 159) looks for the `BangEqual` of `!=`, which never comes: the constant `a != 1` it parses is read as
  `a`, `!`, `==`, `1`. `TokensAreThose` says what is read, up to the first of these, that the five kinds are never found, and that only a last `=`
  reads past the end. `token_print` rounds numbers to the six decimals of `%f`: `0.0000001` is read back as 0.
* `sales_commission.c`: a blank at the end of a line makes a token of the newline and shifts what follows, more than 100 tokens
  are written behind the array, and every line that begins with `Revenue` or `Expenses` is a heading, an article of that name, too.
  `sales_commission2.c` has none of the three; it takes any line with `Expenses` in it for the end of its first table.
* `http.c`, `http_csv.c`: a client that connects and closes is answered, for `read`'s 0 is not looked at.
* `sokoban.c`: a byte of 6 and more is pushed as a crate, and becomes one; if a map has one, line 283 reads beyond `textures`.
* `sds.c`: `sdssplitlen` returns an array for an empty string, where its comment speaks of NULL; `sdstrim` trims
  NULs, for `strchr` finds the terminator of `cset`; a range that ends before the beginning keeps the
  first byte (`sdsrange(s,-10,-5)`); a `%` at the end of a format of `sdscatfmt` reads past it;
  the assertion of `sdsIncrLen` does not look at the room of a string of type 5; `sdsclear`
  on type 5 gives the space up. Inputs of the first kinds are in the instances, those which read past their argument are not.

## 5. What is proved

TLAPS proves, for every value of the constants that satisfies the named assumptions:

* `SokobanProofs!TypeCorrect`: `Spec => []TypeOK`. `TypeOK` is inductive once it says that a
  running game plays a level of the buffer, which is what the bound of `EndIteration` keeps. Lemmas:
  the least cell of a set exists (for `memchr`), counts fit a byte, `LoadLevel` and `Moved` keep the
  type of a game.
* `SokobanProofs!MarioStaysOnBoard`: `Spec => OnBoard`, for every width from 2 to 15 and files of any bytes and
  length. What remains undefined is a level beyond the buffer, or a byte that is no entity when the map is drawn. The heart is `NeighbourOnBoard`: away from the border the neighbour's number does not wrap,
  which is arithmetic modulo 256 done width by width.
* `SokobanProofs!BoardStaysFaithful`, `MarioStaysFree`, `PlayIsDefined`, `WonIsSolved`, `LevelsEndByPush`:
  with level files that can be played (`PlayableFiles`) and any number of levels. The invariant is that the
  game `Shows` the level of the buffer it plays: walls and goals are the level's, there are as many crates as goals, and
  Mario is on a free cell. It has to add that a game in play is *not solved*: otherwise an event that changes
  nothing could end a level, since the completion check does not ask what the event was.
* `SokobanProofs!ImplementsTheRules`: `Spec => PlaysByTheRules`, for playable files. Cell numbers and squares are two names of the
  same place (`Divided`, `Divides`); where the border test lets it, `get_next_cell_i` is a step of the rules (`NextSquare`), and a
  move or a push that the code makes, with what it restores from under a crate, is one the rules allow. From the same invariant as
  above.
* `DispatchTimerProofs!TypeCorrect` and `GoodbyeIsLast`: for any number of timers below `CountMod`.
  `GoodbyeOnlyWhenDone` is not inductive: nothing in it connects `ntimers` with the timers. The
  invariant `IInv` adds that `ntimers` is the number of active timers, that the active ones are among
  those created, that a created timer that is not active is at zero, and where the handler is.
* `DispatchTimerProofs!LinesNeverAhead` and `ExitLosesNothing`: `Spec => []NeverAhead`, `Spec => []NothingLost`. A print
  block reads the count when it runs, so nothing ties a line to the tick it was submitted for; what is invariant is
  a sum (`Tallied`): the lines of a timer that are printed, those that are queued, the one about to be submitted and what is left of its count
  make up its ticks. With the goodbye last in the queue (`ByeLast`), an exit has all of them printed.
* `DispatchTimerProofs!ImplementsCountdown`: the steps of the main thread and the worker are ticks, the goodbye, or
  nothing that `Countdown` sees. This is `IsCountdown` without its fairness.
* `HttpServerProofs!WritesReachConnections` and `ConnectionsHaveDescriptors`: for any clients and descriptors,
  both back ends and both servers. `IInv` adds to the two properties that whatever handler is still to be called is
  in the mask that fired (`EventsSound`), which is the mask `aeDeleteFileEvent` is then given; what it leaves in the
  table is therefore never a write registration.
* `HttpServerProofs!AnswersFollowRequests` and `HandlersDoNotAssert`: `Spec => []AnswerAfterRequest`, `Spec => []AssertionsHold`, without a
  condition on clients, requests, descriptors or back end; the conditions are in the properties, which name what an answer without a request or a
  failed assertion takes. The invariant says of each connection with a pending or registered write that it was read, has closed, or comes after a connection
  that trailed its request under kqueue (`WritesAreDue`), of each pending read event the same or that it has something to read (`ReadsAreDue`), that with epoll the events of a
  descriptor are one (`EventsApart`), and that an open connection is registered for reading in both tables (`Registered`). That a connection has
  trailed is never taken back, so it excuses every later step.
* `ParensProofs!ArraysOwnedOnce` and `NoPointerDangles`: for strings of any length and any choice of reallocs that
  move. Neither property is inductive. The invariant is that there is a depth for every array, by which arrays form a tree
  (`TreeWith`), and a set of nodes from the current one to the root on which parents and children agree
  (`PathWith`). An array that moves belongs to the current node, is deeper than all of that set,
  and so leaves only parent pointers dangling that nothing will follow. That the climb
  ends within as many steps as characters were read is a descent along the depth: the lemma `Least` gives
  the smallest counterexample, in place of an induction.
* `ParensProofs!ImplementsCounter`: `Spec => CountsTheDepth`. The depth is the number of nodes that are open, none of which the
  parser ever counts. The invariant adds where they are: the path has one node to a level (`Unbranched`), all of it but its two ends is open
  and nothing off it is, and nothing but the current node is invalid (`Marked`). The verdict searches the whole
  tree for an invalid node; that this search, a function defined by itself over a heap, has a value at
  all and finds what there is, is the lemma `InvalidFound`.
* `CsvProofs!CellsReported`: `CsvSpec => []ReportsTheCells`, for files of any size. Each variable of the loops is a function of the
  bytes before the cursor (`Reads`, `Places`): `insideQuotes` the parity of the runs of quotes, `startCell` and
  `startLine` what follows the last break, `cellNo` the breaks since then. What was reported is the reference so
  far (`Reports`), a recursive function which the cursor follows one byte at a time, so that no induction over
  the file is needed.
* `SdsProofs!HeaderAndBlockAgree`: `Spec => []Sound`, for every width of the types, every growth constant and
  every alphabet. The invariant `IInv` says of the string that it `Fits`, that is, header and block agree and the
  type's fields are wide enough for the *space*, not only for the length: a string whose `alloc` wrapped would
  be unsound at the next call only. It says of a format at work that whole pieces are left, since a byte
  that needs no argument is written on the strength of the one byte of room made at the top of the loop. `Closed`, the
  terminator, is a part of its own, for `sdscatfmt` gives it up. There is one lemma per call (`MakeRoomFits`,
  `TrimFits`, `UpdateLenFits`, ...) over those of what they are made of: `EndedFits` for whatever writes bytes and a
  terminator, `BlockFits` for whatever moves the string, `ReqTypeHolds` for `sdsReqType`.
* `SdsProofs!RoomIsAsAsked`: `Spec => RoomAsAsked`, from the same invariant.
* `SdsProofs!ImplementsString`: `Spec => IsString`: every call does to the bytes of the string what its comment says. For each call a
  lemma says what it leaves as text (`MakeRoomText`, `TrimText`, ...), with the header and the block of the proof above; the
  shifts of `sdstrim` and `sdsrange` and the cuts of `sdscatvprintf`'s buffer are about positions in sequences. The
  invariant needs one more part, `FormatText`: while `sdscatfmt` is at work the block holds the string it was given, followed by
  what it has read of the format, although the header says nothing of the kind to a caller.
* `DictProofs!TypeCorrect`, `HitsAreTrue` and `RecursionEnds`: for lists of any length, moved or not, and wherever `cmp` sends the search. `NoFalseHit` and
  `CallsShrink` follow from the type of the window and `HalvesShrink`, the arithmetic of the two halves.
* `DictProofs!WordsAreFound` and `LeftForTheLast`: `Spec => []FoundAwayFromTheEnd`, `Spec => []BeyondOnlyForTheLast`, both of which speak of an
  index that is where it was and of differences that fit (`Reliable`). The invariant counts calls
  (`Turns`): after `m` of them the window has come down to `(size - 3) * 2^m <= count - 3` words and ends at most `m`
  words past the index, one for each right half that was taken too long. A search that looks beyond the index has
  divided often enough for `2^m` to bound how far from the end its word can be.
* `ProgramsProofs!BufferIsReduced`: `PolymerSpec => []PolymerReduced`, for polymers of any length. The invariant says that up to
  the cursor the buffer is what a stack keeps of the letters that the cursor has reached (`Holds`), which are behind it
  untouched. What makes it hard is the byte behind the buffer, which the loop compares with the last letter:
  `Stale` says which one of the letters it is, the one before the last unless this was itself taken out by the
  last, and from that the two endings for which `memmove` runs wild, and no other. The lemmas about the stack
  (`LeftGrows`, `TornIs`, `TornStays`) rest on `Least`, a least counterexample in place of the induction.
* `ProgramsProofs!DistanceIsFound`: `HouseSpec => []ClosestDistance`, for any number of points. `HouseInv` says of every call at
  work what it has been given and what it has found (`CallFits`): its distance is one of two points (`Sound`) and no pair
  of its points is nearer (`Covers`), and that each call is on the half its caller waits for (`Nested`), so that what one
  returns is what the other takes it for (`ReturnKeeps`). The loops keep the same of the pairs they have passed (`Searching`, `Splitting`).
  Only the first two places of the array ever differ from the sorted points, and they hold some of them (`Overwritten`); `Fresh` says when they do not yet
  differ: when a call that begins at one of the two is entered or compares its pairs, and, for three points, until the pairs across their middle are compared.
* `SdsProofs!SplitsAndJoins`: `SplitSpec => []SplitThenJoin`, for any strings, separators and alphabet. Nothing in the property says where a
  token ends; the invariant does, by the place where each begins (`CutsAre`): a token reaches from there to the next separator, and
  no separator begins in between. The part of a separator that the string begins and does not finish is looked for again from its second
  byte. What is joined is the string up to the cut of the next token (`JoinIs`), and there is a slot more than
  there are tokens at each turn, which the last token takes without a look.
* `SdsProofs!TextIsReadBack`: `ReprSpec /\ NumberSpec => []TextIsRead`, for any arguments, lines and widths. The property relates what
  was written some time ago with what is read now, so the invariant `ReprInv` says where in the line each byte of each argument
  lies and in which form (`PieceLies`), while it is written (`LineGrows`) and when it is read (`LineLies`), and that the reader stands at the beginning of a piece,
  with the tokens and bytes before it (`Reading`). A byte is written in one of three forms, plain, escaped or as hexadecimal digits,
  and each is read as that byte (`FormsOfByte`, `ReadsByte`), whatever follows. The line from elsewhere keeps `cursor` on the line since a
  step of more than one byte has seen that there is one. Of the numbers, the invariant `NumberInv` says that the dividends are the quotients of the
  magnitude from one to the next, down to 0; the sum goes through the same quotients backwards, which takes the place of an induction over the digits.

Assumptions: `BoardAssumption`, `SizeAssumption`, `LevelsAssumption`, `FilesAssumption`, `GarbageAssumption` of `Sokoban`;
`TimersAssumption`, `StartAssumption` of `DispatchTimer`; `MaxCountAssumption` of `Dict`; `MaxLenAssumption` of `Parens`;
`FdsAssumption`, `ChunksAssumption`, `BackendAssumption`, `NoneAssumption`, `ModeAssumption` of `HttpServer`;
`SdsAssumption` (limits of types grow with the types) and `ArgumentAssumption` (what callers pass has the type the call wants), `NullAssumption` (NULL is not a string) of `Sds`; `UnitsAssumption` of `Polymer`; `HousesAssumption` (coordinates are whole numbers, distances are less than `DBL_MAX`) of `ClosestPair`; `TextAssumption` (arguments and lines are bytes, numbers have their width) of `SdsText`; none of `Csv` and `SplitJoin`. They say that the parameters have the types of
the code; TLC evaluates them in every run.

Only model-checked:

* liveness (`Finishes`, `EveryoneIsAnswered`, `Answers`, and the fairness that `IsCountdown` has beyond its steps), for
  fairness and ENABLED are out of the prover's reach;
* `TokensAreThose`, `GuardsAccounted`, `SalesAgree` and `LinesAreThose`, the properties of the small programs that are one function of their input:
  what a recursive definition computes for every input needs an induction over the input, which the prover can only be
  given as a least counterexample, and the RECURSIVE operators of `Lexer` and `Lines` are closed to the prover. `Csv`, `Dict`,
  `Polymer`, `ClosestPair`, `SplitJoin` and `SdsText` take steps, so that an invariant can take the place of the induction.

## 6. Plan

Done: all programs with logic of their own, in the order Sokoban, timers, HTTP, Parens, Csv, the
divide search, dynamic strings, and the small programs. What is left:

1. `sdscatvprintf` and `sdscatfmt` under failing allocation; the linear `memcmp` search of `dict.c`.
2. Proofs about the small programs that are still functions of their input, once their loops are steps: the accounting of `GuardLog` and
   `Sales`, the line loops of `Lines`.

## 7. What is not modelled, and why

* `sort.c`, `sudoku.c`, `jemalloc.c`, `os_log.c`, `strstr.c`, `dispatch_hello*.c`,
  `dispatch_file_read.c`: straight-line programs; what is wrong in them (the byte count of `sort.c:21`, the loop bounds of `sudoku.c:31`) is one line.
* `parse.c`: `primary` and `unary` are stubs marked TODO, and `parse`, which parses the constant `a != 1` whatever it is
  given, dereferences the NULL that they return; there is nothing yet that a model could be faithful to.
* `aoc4.c`'s second part, which never counts; `aoc4-json.c`, which prints.
* `dict.c`'s linear search by `memcmp`, which is a loop over all words; its tree, whose calls are commented out; `dict_read.c`, which prints the index.
* Of `sds.c`: `sdscmp`, `sdsAllocSize`, `sdsfreesplitres` and the allocator hooks, which change no string; allocation failure.
* `airplane.c`: the scanning of a service's answer and floating-point geometry.
* `utils.c`, and the file and terminal output of every program: pure I/O.
* `buf.h`, `testhelp.h`: vendored and used by nothing.
* Allocation failure, partial `write`s, resets of connections (and the SIGPIPE of a write to one) and the text of answers are left out everywhere: the
  sources do not say what follows.
* Of `http_csv.c`, that a failing statement leaves a part of an answer: it always does.
* Of `aoc4.c`, logs over New Year: line 52 gives every date the same year, so such a log is not sorted in time; `GuardLog` starts from times. Logs of incomplete shifts.
* Of `dict.c`, the bytes: words of 256 bytes and more and words that occur twice (`Lines` has the sizes, cut to their field, the search has not), and a
  `memcmp` that runs over the end of the file at its last word.
* Of `sales_commission2.c`, an article named like `Expenses`, which ends its first table, and the first `getline`, whose buffer has no value with a size of 0.
