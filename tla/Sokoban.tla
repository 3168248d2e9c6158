------------------------------ MODULE Sokoban ------------------------------
(***************************************************************************)
(* The Sokoban game of src/sokoban.c: a W x W board stored as a flat array *)
(* of entities, a level file read into memory once and again on F9, and an *)
(* event loop that ends every iteration with a completion check.           *)
(*                                                                         *)
(* One action stands for one whole iteration of the loop: the handler of   *)
(* the event, then the completion check of lines 293-312.                  *)
(*                                                                         *)
(* W stands for the 12 of the source, MaxLevels for its 3, and EntitySize  *)
(* for sizeof(Entity), which is 4 with the compilers the Makefile uses.    *)
(* Of the rendering, which comes between the two, only its reading of the  *)
(* six textures is modelled.  map_backup and mario_cell_backup are left    *)
(* out: the program writes them and never reads them.                      *)
(***************************************************************************)
EXTENDS Integers, FiniteSets, FiniteSetsExt

CONSTANTS
    W,            \* columns, and rows, of the board
    MaxLevels,    \* levels the buffer map_io has room for
    EntitySize,   \* bytes of one Entity
    Files,        \* what the level file may hold each time it is read
    MayBeMissing, \* may open() fail when the program starts?
    Garbage       \* values of the uninitialised bytes of main()

Byte == 0..255
Cells == 0..(W * W - 1)
LevelSlots == 0..(MaxLevels - 1)

\* A byte of the file is taken for an Entity as it is: OTHER stands for the
\* bytes of 6 and more, which are none of the enumerators.
Entities == {"NONE", "WALL", "CRATE", "CRATE_OK", "OBJECTIVE", "MARIO", "OTHER"}

Directions == {"UP", "RIGHT", "DOWN", "LEFT"}

Free == {"NONE", "OBJECTIVE"}     \* what Mario, or a crate, may move onto
Image == [Cells -> Entities]      \* one level, as the file stores it

\* A file is its first byte and up to length more that fit the buffer: levels,
\* of which the last may be cut short anywhere.
IsFile(file) ==
    /\ DOMAIN file = {"count", "length", "levels"}
    /\ file.count \in Byte
    /\ file.length \in 0..(MaxLevels * (W * W))
    /\ file.levels \in [{l \in LevelSlots : l * (W * W) < file.length} -> Image]

ASSUME BoardAssumption == W \in 2..15     \* W * W fits the uint8_t loops
ASSUME SizeAssumption == EntitySize \in Nat \ {0}
ASSUME LevelsAssumption == MaxLevels \in 1..255
ASSUME FilesAssumption == \A file \in Files : IsFile(file)
ASSUME MissingAssumption == MayBeMissing \in BOOLEAN
ASSUME GarbageAssumption == Garbage \subseteq Byte

VARIABLES
    phase,       \* "running", or how the program has ended
    game,        \* map, mario_cell, the two counters and the last message
    level,       \* index of the level being played
    mapIo,       \* map_io
    levelCount   \* level_count

vars == <<phase, game, level, mapIo, levelCount>>

GameType ==
    [map : Image, mario : Byte, crates : Byte, objectives : Byte,
     report : {"ok", "Mario missing from map", "Map error"}]

-----------------------------------------------------------------------------
(* The board: cells, borders and counting.                                 *)

AtBorderFirstCell(dir, cell) ==   \* mutant: the upper border is one cell
    \/ dir = "UP"    /\ cell < 1
    \/ dir = "RIGHT" /\ (1 + cell) % W = 0
    \/ dir = "DOWN"  /\ cell >= (W - 1) * W
    \/ dir = "LEFT"  /\ cell % W = 0

AtBorder(dir, cell) ==
    \/ dir = "UP"    /\ cell < W
    \/ dir = "RIGHT" /\ (1 + cell) % W = 0
    \/ dir = "DOWN"  /\ cell >= (W - 1) * W
    \/ dir = "LEFT"  /\ cell % W = 0

Offset(dir) ==
    CASE dir = "UP"    -> -W
      [] dir = "RIGHT" -> 1
      [] dir = "DOWN"  -> W
      [] dir = "LEFT"  -> -1

\* get_next_cell_i returns a uint8_t: the sum wraps at 256.
NextCell(dir, cell) == (cell + Offset(dir)) % 256

Where(entity, map) == {c \in Cells : map[c] = entity}

CountOf(entity, map) == Cardinality(Where(entity, map))

-----------------------------------------------------------------------------
(* load_level.  memchr is asked for W * W bytes, not W * W entities, so it *)
(* only finds a Mario whose first byte lies in the first W * W bytes.      *)

SearchWindow == {c \in Cells : EntitySize * c < W * W}

LoadLevel(image, g) ==
    LET found == SearchWindow \cap Where("MARIO", image)
        start == Min(found)
        map == [image EXCEPT ![start] = "NONE"]
        crates == CountOf("CRATE", map)
        objectives == CountOf("OBJECTIVE", map)
    IN  IF found = {}
        THEN [g EXCEPT !.map = image, !.report = "Mario missing from map"]
        ELSE [map |-> map, mario |-> start,
              crates |-> crates, objectives |-> objectives,
              report |-> IF objectives = 0 \/ objectives # crates
                         THEN "Map error" ELSE "ok"]

ReadOnly(io, file) == file.levels   \* mutant: a short read empties the rest

\* read() overwrites as many bytes of map_io as the file holds.
ReadInto(io, file) ==
    [l \in LevelSlots |->
        [c \in Cells |-> IF l * (W * W) + c < file.length THEN file.levels[l][c]
                                                         ELSE io[l][c]]]

-----------------------------------------------------------------------------
(* go.                                                                     *)

\* The first cell go looks at may lie outside the array when mario_cell
\* was never set.
WildAccess(dir, g) ==
    ~AtBorder(dir, g.mario) /\ NextCell(dir, g.mario) \notin Cells

WalksThrough(dir, g) ==   \* mutant: only walls stop Mario
    ~AtBorder(dir, g.mario) /\ g.map[NextCell(dir, g.mario)] # "WALL"

Walks(dir, g) ==
    ~AtBorder(dir, g.mario) /\ g.map[NextCell(dir, g.mario)] \in Free

PushesStacked(dir, g) ==   \* mutant: line 118 is missing
    LET next == NextCell(dir, g.mario)
    IN  /\ ~AtBorder(dir, g.mario)
        /\ g.map[next] \in {"CRATE", "CRATE_OK", "MARIO", "OTHER"}
        /\ ~AtBorder(dir, next)
        /\ g.map[NextCell(dir, next)] \in Free \cup {"CRATE_OK"}

\* Whatever is neither wall nor free is pushed as a crate, a stray MARIO or an
\* unknown byte too.
Pushes(dir, g) ==
    LET next == NextCell(dir, g.mario)
    IN  /\ ~AtBorder(dir, g.mario)
        /\ g.map[next] \in {"CRATE", "CRATE_OK", "MARIO", "OTHER"}
        /\ ~AtBorder(dir, next)
        /\ g.map[NextCell(dir, next)] \in Free

MovedCrateOnly(map, from, to) ==   \* mutant: the goal left is forgotten
    [map EXCEPT ![to]   = IF @ = "OBJECTIVE" THEN "CRATE_OK" ELSE "CRATE",
                ![from] = "NONE"]

MovedCrate(map, from, to) ==
    [map EXCEPT ![to]   = IF @ = "OBJECTIVE" THEN "CRATE_OK" ELSE "CRATE",
                ![from] = IF @ = "CRATE_OK" THEN "OBJECTIVE" ELSE "NONE"]

Moved(dir, g) ==
    LET next == NextCell(dir, g.mario)
    IN  CASE Walks(dir, g) -> [g EXCEPT !.mario = next]
          [] Pushes(dir, g) ->
                [g EXCEPT !.mario = next,
                          !.map = MovedCrate(@, next, NextCell(dir, next))]
          [] OTHER -> g

-----------------------------------------------------------------------------
(* main.                                                                   *)

\* What main's variables hold before the first load_level.
Blank == [c \in Cells |-> "NONE"]
BlankIo == [l \in LevelSlots |-> Blank]

\* A file without a single level byte makes the program exit before the loop.
Init ==
    /\ phase = "running"
    /\ level = 0
    /\ \/ \E file \in Files :
            /\ DOMAIN file.levels # {}
            /\ mapIo = ReadInto(BlankIo, file)
            /\ levelCount = file.count
       \/ /\ MayBeMissing
          /\ mapIo = BlankIo
          /\ levelCount = 0
    /\ \E mario, crates, objectives \in Garbage :
          game = LoadLevel(mapIo[0],
                           [map |-> Blank, mario |-> mario, crates |-> crates,
                            objectives |-> objectives, report |-> "ok"])

SolvedByOneCrate(g) == CountOf("CRATE_OK", g.map) > 0   \* mutant

Solved(g) == CountOf("CRATE_OK", g.map) = g.objectives

IsLastOffByOne(l, n) == l = n   \* mutant

\* level_count is promoted to int: a count of 0 makes no level the last one.
IsLast(l, n) == l = n - 1

\* A cell is drawn with textures[map[i]], and there are six textures.
HasTextures(map) == Where("OTHER", map) = {}

\* The rendering and the completion check, after an event has left the game g
\* and the buffers io and n; the loop goes on only if on.
EndIteration(g, io, n, on) ==
    LET next == (level + 1) % 256
        after == IF on THEN "running" ELSE "quit"
        drawn == HasTextures(g.map)
    IN  \/ \* the rendering reads beyond the textures
           /\ ~drawn
           /\ phase' = "undefined" /\ game' = g /\ level' = level
        \/ /\ drawn /\ ~Solved(g)
           /\ phase' = after /\ game' = g /\ level' = level
        \/ /\ drawn /\ Solved(g) /\ IsLast(level, n)
           /\ phase' = "won" /\ game' = g /\ level' = level
        \/ /\ drawn /\ Solved(g) /\ ~IsLast(level, n) /\ next \in LevelSlots
           /\ phase' = after /\ game' = LoadLevel(io[next], g) /\ level' = next
        \/ \* load_level reads beyond the end of map_io
           /\ drawn /\ Solved(g) /\ ~IsLast(level, n) /\ next \notin LevelSlots
           /\ phase' = "undefined" /\ game' = g /\ level' = next

\* SDL_QUIT, or the escape key.
Quit ==
    /\ phase = "running"
    /\ EndIteration(game, mapIo, levelCount, FALSE)
    /\ UNCHANGED <<mapIo, levelCount>>

\* The key R, and F9 when the file cannot be opened: open() returns -1, which
\* main takes for a descriptor, and the two reads change nothing.
Restart ==
    /\ phase = "running"
    /\ EndIteration(LoadLevel(mapIo[level], game), mapIo, levelCount, TRUE)
    /\ UNCHANGED <<mapIo, levelCount>>

\* Any event that has no handler, such as a movement of the mouse.
OtherEvent ==
    /\ phase = "running"
    /\ EndIteration(game, mapIo, levelCount, TRUE)
    /\ UNCHANGED <<mapIo, levelCount>>

\* The key F9: the file is read again and the current level reloaded from it.
Reload ==
    /\ phase = "running"
    /\ \E file \in Files :
          /\ DOMAIN file.levels # {}
          /\ mapIo' = ReadInto(mapIo, file)
          /\ levelCount' = file.count
          /\ EndIteration(LoadLevel(ReadInto(mapIo, file)[level], game),
                          ReadInto(mapIo, file), file.count, TRUE)

\* The key F9 when the file holds no level, and maybe not even the first byte.
ReloadEmpty ==
    /\ phase = "running"
    /\ \E file \in Files :
          /\ DOMAIN file.levels = {}
          /\ levelCount' \in {file.count, levelCount}
    /\ phase' = "exited"
    /\ UNCHANGED <<game, level, mapIo>>

\* An arrow key.
Arrow(dir) ==
    /\ phase = "running"
    /\ ~WildAccess(dir, game)
    /\ EndIteration(Moved(dir, game), mapIo, levelCount, TRUE)
    /\ UNCHANGED <<mapIo, levelCount>>

\* An arrow key when go reads outside the map: nothing is known afterwards.
WildArrow(dir) ==
    /\ phase = "running"
    /\ WildAccess(dir, game)
    /\ phase' = "undefined"
    /\ UNCHANGED <<game, level, mapIo, levelCount>>

Next ==
    \/ Quit \/ OtherEvent \/ Restart \/ Reload \/ ReloadEmpty
    \/ \E dir \in Directions : Arrow(dir) \/ WildArrow(dir)

Spec == Init /\ [][Next]_vars

-----------------------------------------------------------------------------
(* What the board shows, and what a level file has to look like.           *)

Walls(map) == Where("WALL", map)
Goals(map) == Where("OBJECTIVE", map) \cup Where("CRATE_OK", map)
Crates(map) == Where("CRATE", map) \cup Where("CRATE_OK", map)

\* A level load_level accepts, with no crate on its goal from the start and
\* one Mario, where memchr looks.
PlayableImage(image) ==
    /\ \E c \in SearchWindow : Where("MARIO", image) = {c}
    /\ Where("OTHER", image) = {}
    /\ Where("CRATE_OK", image) = {}
    /\ CountOf("OBJECTIVE", image) > 0
    /\ CountOf("OBJECTIVE", image) = CountOf("CRATE", image)

\* A file that holds all the levels it announces, all of them playable.
PlayableFile(file) ==
    /\ file.count \in 1..MaxLevels
    /\ DOMAIN file.levels = 0..(file.count - 1)
    /\ file.length = file.count * (W * W)
    /\ \A l \in DOMAIN file.levels : PlayableImage(file.levels[l])

\* Every version of the file is playable and announces as many levels.
PlayableFiles ==
    /\ ~MayBeMissing
    /\ \A file \in Files : PlayableFile(file)
    /\ \A f, g \in Files : f.count = g.count

-----------------------------------------------------------------------------
(* Properties.                                                             *)

(* Every variable stays in its type, and a running game plays a level that
   map_io has room for. *)
TypeOK ==
    /\ phase \in {"running", "quit", "won", "exited", "undefined"}
    /\ game \in GameType
    /\ level \in Byte
    /\ mapIo \in [LevelSlots -> Image]
    /\ levelCount \in Byte
    /\ phase = "running" => level \in LevelSlots

(* Once Mario is on the board, whatever the bytes of the file and wherever it
   ends, no event takes him off it or makes go read outside the map: the border
   tests of lines 97 and 112 are enough for the 8-bit cell arithmetic.  What then
   remains undefined is a level beyond the buffer, and the drawing of a map with
   a byte that is no entity. *)
OnBoard ==
    [][game.mario \in Cells =>
          /\ game'.mario \in Cells
          /\ phase' = "undefined" =>
                level' \notin LevelSlots \/ ~HasTextures(game'.map)]_vars

(* With playable files the board a player sees is the level of the file with
   crates moved: walls and goals are where map_io has them, no crate is lost
   or created by a push, and objectives_count is the number of goals. *)
BoardFaithful ==
    LET image == mapIo[level]
    IN  /\ Walls(game.map) = Walls(image)
        /\ Goals(game.map) = Goals(image)
        /\ Cardinality(Crates(game.map)) = Cardinality(Goals(game.map))
        /\ game.objectives = Cardinality(Goals(game.map))

(* Mario never shares a cell with a wall or a crate, and no second Mario is
   left on the map to be pushed around. *)
MarioFree == game.map[game.mario] \in Free /\ Where("MARIO", game.map) = {}

(* With playable files the program never reads outside its arrays. *)
NeverUndefined == phase # "undefined"

(* The box "You won!" appears on the last level only, with a crate on every
   goal. *)
WonSolved ==
    phase = "won" => /\ level = levelCount - 1
                     /\ Crates(game.map) = Goals(game.map)

(* A level is left, or the game won, only by the push that covers its last
   uncovered goal: no reload, restart or quit completes a level. *)
AdvanceByLastPush ==
    [][level' # level \/ phase' = "won" =>
          /\ Cardinality(Goals(game.map) \ Crates(game.map)) = 1
          /\ \E dir \in Directions : Pushes(dir, game)
          /\ mapIo' = mapIo]_vars

(* The message of line 72, "Mario missing from map", is printed only for a
   map without a Mario. *)
MissingMeansMissing ==
    game.report = "Mario missing from map" => Where("MARIO", mapIo[level]) = {}

(* "You won!" (line 299) means that every goal of the last level carries a
   crate. *)
WinnersSolvedTheLevel ==
    phase = "won" => Goals(game.map) \subseteq Crates(game.map)
=============================================================================
