--------------------------- MODULE SokobanProofs ---------------------------
(***************************************************************************)
(* Theorems about Sokoban.tla, for every board width W and every number of *)
(* levels: first for any level files, then for files that can be played    *)
(* and that F9 may swap as often as it likes.  The last of them is that    *)
(* the game then plays by SokobanRules.                                    *)
(***************************************************************************)
EXTENDS SokobanRefinement, FiniteSetTheorems, TLAPS

-----------------------------------------------------------------------------
(* The board.                                                              *)

(* The width is one of fourteen numbers: with W fixed, cell arithmetic is
   linear. *)
LEMMA WidthCases ==
    \/ W = 2 \/ W = 3 \/ W = 4 \/ W = 5 \/ W = 6 \/ W = 7 \/ W = 8
    \/ W = 9 \/ W = 10 \/ W = 11 \/ W = 12 \/ W = 13 \/ W = 14 \/ W = 15
  BY BoardAssumption

(* A cell number fits the uint8_t the program keeps it in. *)
LEMMA CellsAreBytes == Cells \subseteq Byte /\ 0 \in Cells /\ W * W \in 4..225
  BY WidthCases DEF Cells, Byte

(* A non-empty set of cells has a least element, so memchr returns a cell. *)
LEMMA LeastCell ==
  ASSUME NEW S \in SUBSET Cells, S # {}
  PROVE  Min(S) \in S
  <1>1. S \subseteq Nat
    BY CellsAreBytes DEF Byte
  <1>2. PICK x \in S : \A y \in S : ~ (<<y, x>> \in OpToRel(<, Nat))
    BY <1>1, WFMin, NatLessThanWellFounded
  <1>3. \A y \in S : ~ (y < x)
    BY <1>1, <1>2 DEF OpToRel
  <1>4. \A y \in S : x =< y
    BY <1>1, <1>3
  <1>. QED
    BY <1>4 DEF Min

(* A cell that is not at the border in some direction has its neighbour on
   the board: get_next_cell_i does not wrap there. *)
LEMMA NeighbourOnBoard ==
  ASSUME NEW dir \in Directions, NEW cell \in Cells, ~AtBorder(dir, cell)
  PROVE  NextCell(dir, cell) \in Cells /\ NextCell(dir, cell) # cell
  BY WidthCases, SMTT(60) DEF Directions, Cells, AtBorder, NextCell, Offset

(* count never exceeds the number of cells. *)
LEMMA CountIsByte ==
  ASSUME NEW S \in SUBSET Cells
  PROVE  IsFiniteSet(S) /\ Cardinality(S) \in Byte
  <1>0. PICK N \in 4..225 : Cells = 0..(N - 1)
    BY CellsAreBytes DEF Cells
  <1>1. IsFiniteSet(Cells) /\ Cardinality(Cells) = N
    <2>1. 0 \in Int /\ N - 1 \in Int
      OBVIOUS
    <2>2. /\ IsFiniteSet(0..(N - 1))
          /\ Cardinality(0..(N - 1)) = IF 0 > N - 1 THEN 0 ELSE N - 1 - 0 + 1
      BY <2>1, FS_Interval
    <2>. QED
      BY <1>0, <2>2
  <1>2. IsFiniteSet(S) /\ Cardinality(S) <= Cardinality(Cells)
    BY <1>1, FS_Subset
  <1>3. Cardinality(S) \in Nat
    BY <1>2, FS_CardinalityType
  <1>4. Cardinality(S) <= 225
    BY <1>1, <1>2, <1>3
  <1>. QED
    BY <1>2, <1>3, <1>4 DEF Byte

-----------------------------------------------------------------------------
(* The operations keep the game in its type.                               *)

(* load_level leaves a game, and puts Mario on the board unless there is no
   Mario to be found. *)
LEMMA LoadLevelType ==
  ASSUME NEW image \in Image, NEW g \in GameType
  PROVE  /\ LoadLevel(image, g) \in GameType
         /\ g.mario \in Cells => LoadLevel(image, g).mario \in Cells
  <1>. DEFINE found == SearchWindow \cap Where("MARIO", image)
              start == Min(found)
              cleared == [image EXCEPT ![start] = "NONE"]
              nCrates == CountOf("CRATE", cleared)
              nGoals == CountOf("OBJECTIVE", cleared)
  <1>1. CASE found = {}
    <2>1. LoadLevel(image, g) =
            [g EXCEPT !.map = image, !.report = "Mario missing from map"]
      BY <1>1 DEF LoadLevel
    <2>. QED
      BY <2>1 DEF GameType
  <1>2. CASE found # {}
    <2>1. start \in Cells
      BY <1>2, LeastCell DEF SearchWindow
    <2>2. cleared \in Image
      BY DEF Image, Entities
    <2>3. nCrates \in Byte /\ nGoals \in Byte
      BY CountIsByte DEF CountOf, Where
    <2>4. PICK loaded : loaded = LoadLevel(image, g)
      OBVIOUS
    <2>5. PICK m \in Image, s \in Cells, c \in Byte, o \in Byte,
            r \in {"Map error", "ok"} :
              loaded = [map |-> m, mario |-> s, crates |-> c,
                        objectives |-> o, report |-> r]
      BY <1>2, <2>1, <2>2, <2>3, <2>4 DEF LoadLevel
    <2>6. loaded.mario = s /\ s \in Byte
      BY <2>5, CellsAreBytes
    <2>7. loaded \in GameType
      BY <2>5, <2>6 DEF GameType
    <2>. QED
      BY <2>4, <2>6, <2>7
  <1>. QED
    BY <1>1, <1>2

(* Reading the file again fills the buffer with levels, wherever it ends. *)
LEMMA ReadIntoType ==
  ASSUME NEW io \in [LevelSlots -> Image], NEW file \in Files
  PROVE  ReadInto(io, file) \in [LevelSlots -> Image] /\ file.count \in Byte
  <1>1. /\ file.count \in Byte /\ file.length \in Int
        /\ file.levels \in [{l \in LevelSlots : l * (W * W) < file.length} -> Image]
    <2>1. IsFile(file)
      BY FilesAssumption
    <2>2. PICK top : top = MaxLevels * (W * W)
      OBVIOUS
    <2>3. top \in Int
      BY <2>2, LevelsAssumption, BoardAssumption
    <2>4. file.length \in 0..top
      BY <2>1, <2>2 DEF IsFile
    <2>5. file.length \in Int
      BY <2>3, <2>4
    <2>. QED
      BY <2>1, <2>5 DEF IsFile
  <1>2. ASSUME NEW l \in LevelSlots, NEW c \in Cells, l * (W * W) + c < file.length
        PROVE  file.levels[l][c] \in Entities
    <2>1. PICK at : at = l * (W * W)
      OBVIOUS
    <2>2. at \in Int /\ c \in Int /\ c >= 0
      BY <2>1, LevelsAssumption, BoardAssumption DEF LevelSlots, Cells
    <2>3. at < file.length
      BY <1>1, <1>2, <2>1, <2>2
    <2>. QED
      BY <1>1, <2>1, <2>3 DEF Image
  <1>3. ASSUME NEW l \in LevelSlots, NEW c \in Cells
        PROVE  io[l][c] \in Entities
    BY DEF Image
  <1>. QED
    BY <1>1, <1>2, <1>3 DEF ReadInto, Image

(* A file of n whole levels fills the first n of the buffer. *)
LEMMA WholeLevels ==
  ASSUME NEW n \in Nat, NEW l \in 0..(n - 1), NEW c \in Cells
  PROVE  l * (W * W) + c < n * (W * W)
  BY WidthCases, SMTT(60) DEF Cells

(* go leaves a game. *)
LEMMA MovedType ==
  ASSUME NEW dir \in Directions, NEW g \in GameType
  PROVE  Moved(dir, g) \in GameType
  <1>. DEFINE next == NextCell(dir, g.mario)
              beyond == NextCell(dir, next)
  <1>1. next \in Byte
    <2>1. g.mario \in Byte
      BY DEF GameType
    <2>2. Offset(dir) \in {-W, 1, W, -1}
      BY DEF Offset, Directions
    <2>3. g.mario + Offset(dir) \in Int
      BY <2>1, <2>2, BoardAssumption DEF Byte
    <2>4. \A i \in Int : i % 256 \in Byte
      BY DEF Byte
    <2>. QED
      BY <2>3, <2>4 DEF NextCell
  <1>2. MovedCrate(g.map, next, beyond) \in Image
    BY DEF MovedCrate, GameType, Image, Entities
  <1>3. \/ Moved(dir, g) = [g EXCEPT !.mario = next]
        \/ Moved(dir, g) = [g EXCEPT !.mario = next,
                                     !.map = MovedCrate(@, next, beyond)]
        \/ Moved(dir, g) = g
    BY DEF Moved
  <1>. QED
    BY <1>1, <1>2, <1>3 DEF GameType

(* From a cell of the board go neither reads outside the map nor leaves it. *)
LEMMA MovedOnBoard ==
  ASSUME NEW dir \in Directions, NEW g \in GameType, g.mario \in Cells
  PROVE  ~WildAccess(dir, g) /\ Moved(dir, g).mario \in Cells
  <1>1. ~AtBorder(dir, g.mario) => NextCell(dir, g.mario) \in Cells
    BY NeighbourOnBoard
  <1>2. /\ Walks(dir, g) \/ Pushes(dir, g) => ~AtBorder(dir, g.mario)
        /\ ~Walks(dir, g) /\ ~Pushes(dir, g) => Moved(dir, g) = g
        /\ Walks(dir, g) \/ Pushes(dir, g)
             => Moved(dir, g).mario = NextCell(dir, g.mario)
    BY DEF Walks, Pushes, Moved, GameType
  <1>. QED
    BY <1>1, <1>2 DEF WildAccess

-----------------------------------------------------------------------------
(* Type correctness, and what can be undefined.                            *)

(* The rendering and the completion check leave a typed state, and only a byte
   without a texture or a level beyond the buffer makes it undefined. *)
LEMMA EndIterationType ==
  ASSUME NEW g \in GameType, NEW io \in [LevelSlots -> Image], NEW n \in Byte,
         NEW on \in BOOLEAN, level \in LevelSlots, EndIteration(g, io, n, on)
  PROVE  /\ phase' \in {"running", "quit", "won", "undefined"}
         /\ game' \in GameType
         /\ level' \in Byte
         /\ phase' = "running" => level' \in LevelSlots
         /\ phase' = "undefined" => level' \notin LevelSlots \/ ~HasTextures(game'.map)
         /\ g.mario \in Cells => game'.mario \in Cells
  <1>. DEFINE next == (level + 1) % 256
  <1>1. level \in Byte /\ next \in Byte
    BY LevelsAssumption DEF LevelSlots, Byte
  <1>2. next \in LevelSlots => /\ LoadLevel(io[next], g) \in GameType
                               /\ g.mario \in Cells =>
                                    LoadLevel(io[next], g).mario \in Cells
    BY LoadLevelType
  <1>. QED
    BY <1>1, <1>2 DEF EndIteration

(* Every action keeps the types. *)
LEMMA TypeStep == TypeOK /\ [Next]_vars => TypeOK'
  <1>. SUFFICES ASSUME TypeOK, [Next]_vars
                PROVE  TypeOK'
    OBVIOUS
  <1>. USE DEF TypeOK
  <1>1. CASE Quit \/ OtherEvent
    BY <1>1, EndIterationType DEF Quit, OtherEvent
  <1>2. CASE Restart
    <2>1. level \in LevelSlots /\ mapIo[level] \in Image
      BY <1>2 DEF Restart
    <2>2. LoadLevel(mapIo[level], game) \in GameType
      BY <2>1, LoadLevelType
    <2>. QED
      BY <1>2, <2>1, <2>2, EndIterationType DEF Restart
  <1>3. CASE Reload
    <2>1. PICK file \in Files :
            /\ mapIo' = ReadInto(mapIo, file)
            /\ levelCount' = file.count
            /\ EndIteration(LoadLevel(ReadInto(mapIo, file)[level], game),
                            ReadInto(mapIo, file), file.count, TRUE)
      BY <1>3 DEF Reload
    <2>2. PICK io \in [LevelSlots -> Image] : io = ReadInto(mapIo, file)
      BY ReadIntoType
    <2>3. level \in LevelSlots /\ io[level] \in Image /\ file.count \in Byte
      BY <1>3, ReadIntoType DEF Reload
    <2>4. LoadLevel(io[level], game) \in GameType
      BY <2>3, LoadLevelType
    <2>. QED
      BY <2>1, <2>2, <2>3, <2>4, EndIterationType
  <1>4. CASE ReloadEmpty
    <2>1. levelCount' \in Byte
      BY <1>4, FilesAssumption DEF ReloadEmpty, IsFile
    <2>. QED
      BY <1>4, <2>1 DEF ReloadEmpty
  <1>5. ASSUME NEW dir \in Directions, Arrow(dir)
        PROVE  TypeOK'
    <2>1. Moved(dir, game) \in GameType
      BY MovedType
    <2>. QED
      BY <1>5, <2>1, EndIterationType DEF Arrow
  <1>6. ASSUME NEW dir \in Directions, WildArrow(dir)
        PROVE  TypeOK'
    BY <1>6 DEF WildArrow
  <1>7. CASE UNCHANGED vars
    BY <1>7 DEF vars
  <1>. QED
    BY <1>1, <1>2, <1>3, <1>4, <1>5, <1>6, <1>7 DEF Next

(* The program starts in a typed state, whatever main's variables held. *)
LEMMA TypeInit == Init => TypeOK
  <1>. SUFFICES ASSUME Init
                PROVE  TypeOK
    OBVIOUS
  <1>1. BlankIo \in [LevelSlots -> Image] /\ 0 \in LevelSlots /\ 0 \in Byte
    BY LevelsAssumption DEF BlankIo, Blank, Image, Entities, LevelSlots, Byte
  <1>2. mapIo \in [LevelSlots -> Image] /\ levelCount \in Byte
    BY <1>1, ReadIntoType DEF Init
  <1>3. mapIo[0] \in Image
    BY <1>1, <1>2
  <1>4. PICK mario \in Byte, crates \in Byte, objectives \in Byte :
          game = LoadLevel(mapIo[0],
                           [map |-> Blank, mario |-> mario, crates |-> crates,
                            objectives |-> objectives, report |-> "ok"])
    BY GarbageAssumption DEF Init
  <1>5. [map |-> Blank, mario |-> mario, crates |-> crates,
         objectives |-> objectives, report |-> "ok"] \in GameType
    BY DEF GameType, Blank, Image, Entities
  <1>6. game \in GameType
    BY <1>3, <1>4, <1>5, LoadLevelType
  <1>. QED
    BY <1>1, <1>2, <1>6 DEF Init, TypeOK

(* The variables of main keep their types for any level files, and while the
   game runs its level is one that map_io has room for. *)
THEOREM TypeCorrect == Spec => []TypeOK
  BY TypeInit, TypeStep, PTL DEF Spec

(* Whatever bytes the level files hold and wherever they end, a Mario who is on
   the board stays on it and go never reads outside the map. *)
THEOREM MarioStaysOnBoard == Spec => OnBoard
  <1>. DEFINE Stays == game.mario \in Cells =>
                         /\ game'.mario \in Cells
                         /\ phase' = "undefined" =>
                              level' \notin LevelSlots \/ ~HasTextures(game'.map)
  <1>1. TypeOK /\ Next => Stays
    <2>. SUFFICES ASSUME TypeOK, Next, game.mario \in Cells
                  PROVE  /\ game'.mario \in Cells
                         /\ phase' = "undefined" =>
                              level' \notin LevelSlots \/ ~HasTextures(game'.map)
      OBVIOUS
    <2>. USE DEF TypeOK
    <2>1. CASE Quit \/ OtherEvent
      BY <2>1, EndIterationType DEF Quit, OtherEvent
    <2>2. CASE Restart
      <3>1. level \in LevelSlots /\ mapIo[level] \in Image
        BY <2>2 DEF Restart
      <3>2. /\ LoadLevel(mapIo[level], game) \in GameType
            /\ LoadLevel(mapIo[level], game).mario \in Cells
        BY <3>1, LoadLevelType
      <3>. QED
        BY <2>2, <3>1, <3>2, EndIterationType DEF Restart
    <2>3. CASE Reload
      <3>1. PICK file \in Files :
              EndIteration(LoadLevel(ReadInto(mapIo, file)[level], game),
                           ReadInto(mapIo, file), file.count, TRUE)
        BY <2>3 DEF Reload
      <3>2. PICK io \in [LevelSlots -> Image] : io = ReadInto(mapIo, file)
        BY ReadIntoType
      <3>3. level \in LevelSlots /\ io[level] \in Image /\ file.count \in Byte
        BY <2>3, ReadIntoType DEF Reload
      <3>4. /\ LoadLevel(io[level], game) \in GameType
            /\ LoadLevel(io[level], game).mario \in Cells
        BY <3>3, LoadLevelType
      <3>. QED
        BY <3>1, <3>2, <3>3, <3>4, EndIterationType
    <2>4. CASE ReloadEmpty
      BY <2>4 DEF ReloadEmpty
    <2>5. ASSUME NEW dir \in Directions, Arrow(dir)
          PROVE  Stays
      <3>1. Moved(dir, game) \in GameType /\ Moved(dir, game).mario \in Cells
        BY MovedType, MovedOnBoard
      <3>. QED
        BY <2>5, <3>1, EndIterationType DEF Arrow
    <2>6. ASSUME NEW dir \in Directions, WildArrow(dir)
          PROVE  FALSE
      BY <2>6, MovedOnBoard DEF WildArrow
    <2>. QED
      BY <2>1, <2>2, <2>3, <2>4, <2>5, <2>6 DEF Next
  <1>2. TypeOK /\ [Next]_vars => [Stays]_vars
    BY <1>1
  <1>. QED
    BY <1>2, TypeCorrect, PTL DEF Spec, OnBoard
-----------------------------------------------------------------------------
(* Files that can be played.                                               *)


(* The game g shows the level of image with crates moved, and Mario stands on
   a cell where he may stand. *)
Shows(g, image) ==
  /\ g \in GameType
  /\ g.mario \in Cells /\ g.map[g.mario] \in Free
  /\ Where("MARIO", g.map) = {} /\ HasTextures(g.map)
  /\ Walls(g.map) = Walls(image)
  /\ Goals(g.map) = Goals(image)
  /\ Cardinality(Crates(g.map)) = Cardinality(Goals(g.map))
  /\ g.objectives = Cardinality(Goals(g.map))

(* The buffer holds n playable levels. *)
Holds(io, n) ==
  /\ io \in [LevelSlots -> Image]
  /\ n \in 1..MaxLevels
  /\ \A l \in 0..(n - 1) : PlayableImage(io[l])

(* A game that runs, or was left, is not solved: this is what makes the
   completion check after an event that changes nothing a check of nothing. *)
IInv ==
  /\ Holds(mapIo, levelCount)
  /\ \A file \in Files : file.count = levelCount
  /\ level \in 0..(levelCount - 1)
  /\ Shows(game, mapIo[level])
  /\ phase \in {"running", "quit", "won"}
  /\ phase # "won" => ~Solved(game)
  /\ WonSolved

-----------------------------------------------------------------------------
(* Cells and cardinalities.                                                *)

LEMMA CellSets ==
  ASSUME NEW map
  PROVE  /\ Goals(map) \in SUBSET Cells /\ Crates(map) \in SUBSET Cells
         /\ \A e : Where(e, map) \in SUBSET Cells
  BY DEF Goals, Crates, Where

(* load_level on a playable level. *)
LEMMA LoadedShows ==
  ASSUME NEW image \in Image, PlayableImage(image), NEW g \in GameType
  PROVE  /\ Shows(LoadLevel(image, g), image) /\ ~Solved(LoadLevel(image, g))
         /\ Crates(LoadLevel(image, g).map) = Crates(image)
         /\ Where("MARIO", image) = {LoadLevel(image, g).mario}
  <1>1. PICK c \in SearchWindow : Where("MARIO", image) = {c}
    BY DEF PlayableImage
  <1>2. c \in Cells /\ image[c] = "MARIO"
    BY <1>1 DEF Where, SearchWindow
  <1>3. SearchWindow \cap Where("MARIO", image) = {c} /\ Min({c}) = c
    <2>1. Min({c}) \in {c}
      BY <1>2, LeastCell
    <2>. QED
      BY <1>1, <2>1
  <1>4. PICK m : m = [image EXCEPT ![c] = "NONE"]
    OBVIOUS
  <1>5. /\ m \in Image /\ m[c] = "NONE"
        /\ \A x \in Cells : x # c => m[x] = image[x]
    BY <1>2, <1>4 DEF Image, Entities
  <1>6. /\ Where("MARIO", m) = {}
        /\ Where("OTHER", m) = {}
        /\ Where("WALL", m) = Where("WALL", image)
        /\ Where("CRATE", m) = Where("CRATE", image)
        /\ Where("CRATE_OK", m) = {}
        /\ Where("OBJECTIVE", m) = Where("OBJECTIVE", image)
    <2>1. \A x \in Cells : x # c => image[x] # "MARIO"
      BY <1>1 DEF Where
    <2>2. \A x \in Cells : image[x] # "CRATE_OK" /\ image[x] # "OTHER"
      BY DEF PlayableImage, Where
    <2>. QED
      BY <1>2, <1>5, <2>1, <2>2 DEF Where
  <1>7. PICK h : h = LoadLevel(image, g)
    OBVIOUS
  <1>8. h \in GameType
    BY <1>7, LoadLevelType
  <1>9. /\ h.map = m /\ h.mario = c
        /\ h.objectives = CountOf("OBJECTIVE", m)
    BY <1>3, <1>4, <1>7 DEF LoadLevel
  <1>10. /\ Goals(m) = Where("OBJECTIVE", image) /\ Goals(image) = Where("OBJECTIVE", image)
         /\ Crates(m) = Where("CRATE", image)
    BY <1>6 DEF Goals, Crates, PlayableImage
  <1>11. Cardinality(Goals(m)) > 0 /\ Cardinality(Crates(m)) = Cardinality(Goals(m))
    BY <1>10 DEF PlayableImage, CountOf
  <1>12. h.objectives = Cardinality(Goals(m))
    BY <1>6, <1>9, <1>10 DEF CountOf
  <1>13. ~Solved(h)
    BY <1>6, <1>9, <1>11, <1>12, FS_EmptySet DEF Solved, CountOf
  <1>14. Shows(h, image)
    BY <1>2, <1>5, <1>6, <1>8, <1>9, <1>10, <1>11, <1>12 DEF Shows, Walls, Free, HasTextures
  <1>15. Crates(h.map) = Crates(image) /\ Where("MARIO", image) = {h.mario}
    BY <1>1, <1>9, <1>10 DEF Crates, PlayableImage
  <1>. QED
    BY <1>7, <1>13, <1>14, <1>15

-----------------------------------------------------------------------------
(* go.                                                                     *)

(* A push, seen on the board. *)
IsPush(dir, g, next, beyond, m) ==
  /\ next # beyond
  /\ Moved(dir, g) = [g EXCEPT !.mario = next, !.map = m]
  /\ g.map[next] \in {"CRATE", "CRATE_OK"} /\ g.map[beyond] \in Free
  /\ m[beyond] = IF g.map[beyond] = "OBJECTIVE" THEN "CRATE_OK" ELSE "CRATE"
  /\ m[next] = IF g.map[next] = "CRATE_OK" THEN "OBJECTIVE" ELSE "NONE"
  /\ \A x \in Cells \ {next, beyond} : m[x] = g.map[x]

LEMMA Pushed ==
  ASSUME NEW image, NEW g, Shows(g, image), NEW dir \in Directions, Pushes(dir, g),
         ~Walks(dir, g)
  PROVE  \E next, beyond \in Cells, m \in Image :
           IsPush(dir, g, next, beyond, m)
  <1>1. PICK next : next = NextCell(dir, g.mario)
    OBVIOUS
  <1>2. PICK beyond : beyond = NextCell(dir, next)
    OBVIOUS
  <1>3. next \in Cells
    BY <1>1, NeighbourOnBoard DEF Pushes, Shows
  <1>4. beyond \in Cells /\ beyond # next
    BY <1>1, <1>2, <1>3, NeighbourOnBoard DEF Pushes
  <1>5. g.map \in Image
    BY DEF Shows, GameType
  <1>6. g.map[next] \in {"CRATE", "CRATE_OK"} /\ g.map[beyond] \in Free
    BY <1>1, <1>2, <1>3 DEF Pushes, Shows, Where, HasTextures
  <1>7. PICK m : m = MovedCrate(g.map, next, beyond)
    OBVIOUS
  <1>8. /\ m \in Image
        /\ m[beyond] = IF g.map[beyond] = "OBJECTIVE" THEN "CRATE_OK" ELSE "CRATE"
        /\ m[next] = IF g.map[next] = "CRATE_OK" THEN "OBJECTIVE" ELSE "NONE"
        /\ \A x \in Cells \ {next, beyond} : m[x] = g.map[x]
    BY <1>3, <1>4, <1>5, <1>7 DEF MovedCrate, Image, Entities
  <1>9. Moved(dir, g) = [g EXCEPT !.mario = next, !.map = m]
    BY <1>1, <1>2, <1>7 DEF Moved
  <1>. QED
    BY <1>3, <1>4, <1>6, <1>8, <1>9 DEF IsPush

(* An arrow key moves crates, and neither walls nor goals; and if it solves
   the level it does so by pushing a crate onto the last goal without one. *)
LEMMA MovedShows ==
  ASSUME NEW image, NEW g, Shows(g, image), NEW dir \in Directions
  PROVE  /\ Shows(Moved(dir, g), image)
         /\ ~Solved(g) /\ Solved(Moved(dir, g)) =>
              Pushes(dir, g) /\ Cardinality(Goals(g.map) \ Crates(g.map)) = 1
  <1>0. g \in GameType /\ g.map \in Image /\ g.mario \in Cells
    BY DEF Shows, GameType
  <1>1. CASE Walks(dir, g)
    <2>1. PICK next : next = NextCell(dir, g.mario)
      OBVIOUS
    <2>2. next \in Cells /\ g.map[next] \in Free
      BY <1>1, <2>1, NeighbourOnBoard DEF Walks, Shows
    <2>3. PICK h : h = Moved(dir, g)
      OBVIOUS
    <2>4. h \in GameType
      BY <2>3, MovedType, <1>0
    <2>5. h = [g EXCEPT !.mario = next]
      <3>1. ~Pushes(dir, g)
        BY <2>1, <2>2 DEF Pushes, Free
      <3>. QED
        BY <1>1, <2>1, <2>3, <3>1 DEF Moved
    <2>6. h.mario = next /\ h.map = g.map /\ h.objectives = g.objectives
      BY <1>0, <2>5 DEF GameType
    <2>7. Shows(h, image)
      BY <2>2, <2>4, <2>6 DEF Shows
    <2>8. Solved(h) <=> Solved(g)
      BY <2>6 DEF Solved
    <2>. QED
      BY <2>3, <2>7, <2>8
  <1>2. CASE ~Walks(dir, g) /\ ~Pushes(dir, g)
    <2>1. Moved(dir, g) = g
      BY <1>2 DEF Moved
    <2>. QED
      BY <2>1
  <1>3. CASE ~Walks(dir, g) /\ Pushes(dir, g)
    <2>1. PICK next \in Cells, beyond \in Cells, m \in Image :
            IsPush(dir, g, next, beyond, m)
      BY <1>3, Pushed
    <2>. USE <2>1 DEF IsPush
    <2>2. PICK h : h = Moved(dir, g)
      OBVIOUS
    <2>3. h.mario = next /\ h.map = m /\ h.objectives = g.objectives /\ h \in GameType
      BY <1>0, <2>1, <2>2, MovedType DEF GameType
    <2>4. Walls(m) = Walls(g.map) /\ Goals(m) = Goals(g.map)
      BY <2>1 DEF Walls, Goals, Where, Free
    <2>5. Crates(m) = (Crates(g.map) \ {next}) \cup {beyond}
      BY <2>1 DEF Crates, Where, Free
    <2>6. next \in Crates(g.map) /\ beyond \notin Crates(g.map)
      BY <2>1 DEF Crates, Where, Free
    <2>7. Cardinality(Crates(m)) = Cardinality(Crates(g.map))
      <3>1. IsFiniteSet(Crates(g.map)) /\ Cardinality(Crates(g.map)) \in Nat
        BY CellSets, CountIsByte DEF Byte
      <3>2. /\ IsFiniteSet(Crates(g.map) \ {next})
            /\ Cardinality(Crates(g.map) \ {next}) = Cardinality(Crates(g.map)) - 1
        BY <2>6, <3>1, FS_RemoveElement
      <3>3. Cardinality(Crates(m)) = Cardinality(Crates(g.map) \ {next}) + 1
        BY <2>5, <2>6, <3>2, FS_AddElement
      <3>. QED
        BY <3>1, <3>2, <3>3
    <2>8. Where("MARIO", m) = {} /\ m[next] \in Free
      BY <2>1 DEF Shows, Where, Free
    <2>8a. HasTextures(m)
      BY <2>1 DEF Shows, Where, Free, HasTextures
    <2>9. Shows(h, image)
      BY <2>1, <2>3, <2>4, <2>7, <2>8, <2>8a DEF Shows
    <2>10. ASSUME ~Solved(g), Solved(h)
           PROVE  Cardinality(Goals(g.map) \ Crates(g.map)) = 1
      <3>1. Cardinality(Where("CRATE_OK", m)) = Cardinality(Goals(m))
        BY <2>3, <2>4, <2>10 DEF Solved, CountOf, Shows
      <3>2. Where("CRATE_OK", m) = Goals(m)
        BY <3>1, CellSets, CountIsByte, FS_Subset DEF Goals
      <3>3. \A x \in Cells : m[x] # "OBJECTIVE"
        BY <3>2 DEF Goals, Where
      <3>4. \A x \in Cells : g.map[x] = "OBJECTIVE" => x = beyond
        BY <2>1, <3>3
      <3>5. g.map[beyond] = "OBJECTIVE"
        <4>. SUFFICES ASSUME g.map[beyond] # "OBJECTIVE" PROVE FALSE
          OBVIOUS
        <4>1. Where("CRATE_OK", g.map) = Goals(g.map)
          BY <3>4 DEF Goals, Where
        <4>. QED
          BY <2>10, <4>1 DEF Solved, CountOf, Shows
      <3>6. Goals(g.map) \ Crates(g.map) = {beyond}
        BY <3>4, <3>5 DEF Goals, Crates, Where
      <3>. QED
        BY <3>6, FS_Singleton
    <2>. QED
      BY <1>3, <2>2, <2>9, <2>10
  <1>. QED
    BY <1>1, <1>2, <1>3

-----------------------------------------------------------------------------
(* The completion check.                                                   *)

(* objectives_count tells a board with every crate on a goal. *)
LEMMA SolvedCrates ==
  ASSUME NEW image, NEW g, Shows(g, image)
  PROVE  Solved(g) <=> Crates(g.map) = Goals(g.map)
  <1>1. ASSUME Solved(g)
        PROVE  Crates(g.map) = Goals(g.map)
    <2>1. Cardinality(Where("CRATE_OK", g.map)) = Cardinality(Goals(g.map))
      BY <1>1 DEF Solved, CountOf, Shows
    <2>2. Where("CRATE_OK", g.map) = Goals(g.map)
      BY <2>1, CellSets, CountIsByte, FS_Subset DEF Goals
    <2>3. Where("CRATE_OK", g.map) \in SUBSET Crates(g.map)
      BY DEF Crates
    <2>4. Cardinality(Where("CRATE_OK", g.map)) = Cardinality(Crates(g.map))
      BY <2>1 DEF Shows
    <2>5. Where("CRATE_OK", g.map) = Crates(g.map)
      BY <2>3, <2>4, CellSets, CountIsByte, FS_Subset
    <2>. QED
      BY <2>2, <2>5
  <1>2. ASSUME Crates(g.map) = Goals(g.map)
        PROVE  Solved(g)
    <2>1. Where("CRATE_OK", g.map) = Goals(g.map)
      BY <1>2 DEF Crates, Goals, Where
    <2>. QED
      BY <2>1 DEF Solved, CountOf, Shows
  <1>. QED
    BY <1>1, <1>2

LEMMA CheckedShows ==
  ASSUME NEW io, NEW n, Holds(io, n), level \in 0..(n - 1), NEW on \in BOOLEAN,
         NEW g, Shows(g, io[level]), EndIteration(g, io, n, on)
  PROVE  /\ level' \in 0..(n - 1)
         /\ Shows(game', io[level'])
         /\ phase' \in {"running", "quit", "won"}
         /\ phase' # "won" => ~Solved(game')
         /\ phase' = "won" => level' = n - 1 /\ Crates(game'.map) = Goals(game'.map)
         /\ ~Solved(g) => level' = level /\ phase' # "won"
  <1>1. n \in 1..MaxLevels /\ MaxLevels \in 1..255 /\ level \in 0..254
    BY LevelsAssumption DEF Holds
  <1>0. HasTextures(g.map)
    BY DEF Shows
  <1>2. CASE ~Solved(g)
    BY <1>0, <1>2 DEF EndIteration
  <1>3. CASE Solved(g) /\ IsLast(level, n)
    <2>1. phase' = "won" /\ game' = g /\ level' = level /\ level = n - 1
      BY <1>0, <1>3 DEF EndIteration, IsLast
    <2>2. Crates(g.map) = Goals(g.map)
      BY <1>3, SolvedCrates
    <2>. QED
      BY <1>3, <2>1, <2>2
  <1>4. CASE Solved(g) /\ ~IsLast(level, n)
    <2>1. PICK next : next = (level + 1) % 256
      OBVIOUS
    <2>2. next = level + 1 /\ next \in 0..(n - 1) /\ next \in LevelSlots
      BY <1>1, <1>4, <2>1 DEF IsLast, LevelSlots
    <2>3. phase' \in {"running", "quit"} /\ game' = LoadLevel(io[next], g) /\ level' = next
      BY <1>0, <1>4, <2>1, <2>2 DEF EndIteration
    <2>4. io[next] \in Image /\ PlayableImage(io[next]) /\ g \in GameType
      BY <2>2 DEF Holds, Shows
    <2>5. Shows(LoadLevel(io[next], g), io[next]) /\ ~Solved(LoadLevel(io[next], g))
      BY <2>4, LoadedShows
    <2>. QED
      BY <1>4, <2>2, <2>3, <2>5
  <1>. QED
    BY <1>2, <1>3, <1>4

-----------------------------------------------------------------------------
(* The program.                                                            *)

(* A level that the file holds whole is read as the file has it. *)
LEMMA ReadWhole ==
  ASSUME NEW file \in Files, NEW io, NEW n \in Nat, file.length = n * (W * W),
         NEW l \in 0..(n - 1), l \in LevelSlots
  PROVE  ReadInto(io, file)[l] = file.levels[l]
  <1>1. \A c \in Cells : l * (W * W) + c < file.length
    BY WholeLevels
  <1>2. ReadInto(io, file)[l] = [c \in Cells |-> file.levels[l][c]]
    BY <1>1 DEF ReadInto
  <1>3. file.levels[l] \in Image
    <2>1. 0 \in Cells
      BY CellsAreBytes
    <2>2. l * (W * W) + 0 < file.length
      BY <1>1, <2>1
    <2>3. l * (W * W) \in Int
      BY BoardAssumption
    <2>4. l * (W * W) < file.length
      BY <2>2, <2>3
    <2>. QED
      BY <2>4, FilesAssumption DEF IsFile
  <1>. QED
    BY <1>2, <1>3 DEF Image

LEMMA ReadHolds ==
  ASSUME PlayableFiles, NEW file \in Files, NEW io \in [LevelSlots -> Image]
  PROVE  /\ DOMAIN file.levels # {}
         /\ Holds(ReadInto(io, file), file.count)
  <1>1. PlayableFile(file)
    BY DEF PlayableFiles
  <1>2. /\ file.count \in 1..MaxLevels /\ DOMAIN file.levels = 0..(file.count - 1)
        /\ file.length = file.count * (W * W)
    BY <1>1 DEF PlayableFile
  <1>3. 0 \in DOMAIN file.levels
    BY <1>2, LevelsAssumption
  <1>4. ASSUME NEW l \in 0..(file.count - 1)
        PROVE  ReadInto(io, file)[l] = file.levels[l]
    <2>. DEFINE n == file.count
    <2>0. n \in 1..MaxLevels /\ MaxLevels \in 1..255
      BY <1>2, LevelsAssumption, Zenon
    <2>. HIDE DEF n
    <2>1. n \in Nat /\ n =< MaxLevels /\ MaxLevels \in Nat
      BY <2>0, SMT
    <2>2. l \in LevelSlots
      BY <1>4, <2>1 DEF LevelSlots, n
    <2>. QED
      BY <1>2, <1>4, <2>1, <2>2, ReadWhole DEF n
  <1>5. \A l \in 0..(file.count - 1) : PlayableImage(file.levels[l])
    BY <1>1, <1>2 DEF PlayableFile
  <1>. QED
    BY <1>2, <1>3, <1>4, <1>5, ReadIntoType DEF Holds

LEMMA PlayInit ==
  ASSUME PlayableFiles, Init
  PROVE  IInv
  <1>1. PICK file \in Files : mapIo = ReadInto(BlankIo, file) /\ levelCount = file.count
    BY DEF Init, PlayableFiles
  <1>2. BlankIo \in [LevelSlots -> Image]
    BY DEF BlankIo, Blank, Image, Entities
  <1>3. Holds(mapIo, levelCount)
    BY <1>1, <1>2, ReadHolds
  <1>4. level = 0 /\ 0 \in 0..(levelCount - 1) /\ 0 \in LevelSlots /\ phase = "running"
    BY <1>3, LevelsAssumption DEF Init, Holds, LevelSlots
  <1>5. PICK mario \in Byte, crates \in Byte, objectives \in Byte :
          game = LoadLevel(mapIo[0],
                           [map |-> Blank, mario |-> mario, crates |-> crates,
                            objectives |-> objectives, report |-> "ok"])
    BY GarbageAssumption DEF Init
  <1>6. [map |-> Blank, mario |-> mario, crates |-> crates,
         objectives |-> objectives, report |-> "ok"] \in GameType
    BY DEF GameType, Blank, Image, Entities
  <1>7. mapIo[0] \in Image /\ PlayableImage(mapIo[0])
    BY <1>3, <1>4 DEF Holds
  <1>8. Shows(game, mapIo[0]) /\ ~Solved(game)
    BY <1>5, <1>6, <1>7, LoadedShows
  <1>9. \A f \in Files : f.count = levelCount
    BY <1>1 DEF PlayableFiles
  <1>. QED
    BY <1>3, <1>4, <1>8, <1>9 DEF IInv, WonSolved

(* What an event does: its effect on the buffer and the game, and then the
   completion check. *)
LEMMA PlayStep ==
  ASSUME PlayableFiles, IInv, Next
  PROVE  /\ IInv'
         /\ level' # level \/ phase' = "won" =>
              /\ Cardinality(Goals(game.map) \ Crates(game.map)) = 1
              /\ \E dir \in Directions : Pushes(dir, game)
              /\ mapIo' = mapIo
  <1>0. /\ Holds(mapIo, levelCount) /\ level \in 0..(levelCount - 1)
        /\ level \in LevelSlots /\ Shows(game, mapIo[level]) /\ game \in GameType
        /\ \A file \in Files : file.count = levelCount
    <2>1. Holds(mapIo, levelCount) /\ level \in 0..(levelCount - 1)
      BY DEF IInv
    <2>2. level \in LevelSlots
      BY <2>1, LevelsAssumption DEF Holds, LevelSlots
    <2>. QED
      BY <2>1, <2>2 DEF IInv, Shows
  <1>1. ASSUME NEW io, NEW n, Holds(io, n), n = levelCount, NEW on \in BOOLEAN,
               NEW g, Shows(g, io[level]), EndIteration(g, io, n, on),
               mapIo' = io, levelCount' = n
        PROVE  IInv' /\ (~Solved(g) => level' = level /\ phase' # "won")
    <2>1. /\ level' \in 0..(n - 1)
          /\ Shows(game', io[level'])
          /\ phase' \in {"running", "quit", "won"}
          /\ phase' # "won" => ~Solved(game')
          /\ phase' = "won" => level' = n - 1 /\ Crates(game'.map) = Goals(game'.map)
          /\ ~Solved(g) => level' = level /\ phase' # "won"
      BY <1>0, <1>1, CheckedShows
    <2>. QED
      BY <1>0, <1>1, <2>1 DEF IInv, WonSolved, Shows, Solved, Holds
  <1>2. CASE Quit \/ OtherEvent
    <2>1. ~Solved(game)
      BY <1>2 DEF Quit, OtherEvent, IInv
    <2>. QED
      BY <1>0, <1>1, <1>2, <2>1 DEF Quit, OtherEvent
  <1>3. CASE Restart
    <2>1. mapIo[level] \in Image /\ PlayableImage(mapIo[level])
      BY <1>0 DEF Holds
    <2>2. PICK g : g = LoadLevel(mapIo[level], game)
      OBVIOUS
    <2>3. Shows(g, mapIo[level]) /\ ~Solved(g)
      BY <1>0, <2>1, <2>2, LoadedShows
    <2>4. EndIteration(g, mapIo, levelCount, TRUE) /\ mapIo' = mapIo /\ levelCount' = levelCount
      BY <1>3, <2>2 DEF Restart
    <2>. QED
      BY <1>0, <1>1, <2>3, <2>4
  <1>4. CASE Reload
    <2>1. PICK file \in Files :
            /\ mapIo' = ReadInto(mapIo, file)
            /\ levelCount' = file.count
            /\ EndIteration(LoadLevel(ReadInto(mapIo, file)[level], game),
                            ReadInto(mapIo, file), file.count, TRUE)
      BY <1>4 DEF Reload
    <2>2. PICK io : io = ReadInto(mapIo, file)
      OBVIOUS
    <2>3. Holds(io, file.count) /\ file.count = levelCount
      BY <1>0, <2>2, ReadHolds DEF Holds
    <2>4. io[level] \in Image /\ PlayableImage(io[level])
      BY <1>0, <2>3 DEF Holds
    <2>5. PICK g : g = LoadLevel(io[level], game)
      OBVIOUS
    <2>6. Shows(g, io[level]) /\ ~Solved(g)
      BY <1>0, <2>4, <2>5, LoadedShows
    <2>7. EndIteration(g, io, file.count, TRUE) /\ mapIo' = io /\ levelCount' = file.count
      BY <2>1, <2>2, <2>5
    <2>. QED
      BY <1>1, <2>3, <2>6, <2>7
  <1>5. ~ReloadEmpty
    BY <1>0, ReadHolds DEF ReloadEmpty, Holds
  <1>6. ASSUME NEW dir \in Directions, Arrow(dir)
        PROVE  /\ IInv'
               /\ level' # level \/ phase' = "won" =>
                    /\ Cardinality(Goals(game.map) \ Crates(game.map)) = 1
                    /\ Pushes(dir, game)
                    /\ mapIo' = mapIo
    <2>1. PICK g : g = Moved(dir, game)
      OBVIOUS
    <2>2. Shows(g, mapIo[level])
      BY <1>0, <2>1, MovedShows
    <2>3. EndIteration(g, mapIo, levelCount, TRUE) /\ mapIo' = mapIo /\ levelCount' = levelCount
      BY <1>6, <2>1 DEF Arrow
    <2>4. IInv' /\ (~Solved(g) => level' = level /\ phase' # "won")
      BY <1>0, <1>1, <2>2, <2>3
    <2>5. ~Solved(game)
      BY <1>6 DEF Arrow, IInv
    <2>6. Solved(g) => Pushes(dir, game) /\ Cardinality(Goals(game.map) \ Crates(game.map)) = 1
      BY <1>0, <2>1, <2>5, MovedShows
    <2>. QED
      BY <2>3, <2>4, <2>6
  <1>7. ASSUME NEW dir \in Directions, WildArrow(dir)
        PROVE  FALSE
    BY <1>0, <1>7, MovedOnBoard DEF WildArrow, Shows
  <1>. QED
    BY <1>2, <1>3, <1>4, <1>5, <1>6, <1>7 DEF Next

LEMMA PlayInvariance ==
  ASSUME PlayableFiles
  PROVE  Spec => []IInv
  <1>1. Init => IInv
    BY PlayInit
  <1>2. IInv /\ [Next]_vars => IInv'
    <2>1. IInv /\ Next => IInv'
      BY PlayStep
    <2>2. IInv /\ UNCHANGED vars => IInv'
      BY DEF vars, IInv, Holds, Shows, Solved, WonSolved
    <2>. QED
      BY <2>1, <2>2
  <1>. QED
    BY <1>1, <1>2, PTL DEF Spec

(* On any board the walls and goals a player sees stay those of the file, and
   no push loses or makes a crate. *)
THEOREM BoardStaysFaithful ==
  ASSUME PlayableFiles
  PROVE  Spec => []BoardFaithful
  <1>1. IInv => BoardFaithful
    BY DEF IInv, Shows, BoardFaithful
  <1>. QED
    BY <1>1, PlayInvariance, PTL

(* Mario is never inside a wall or a crate, and there is one of him. *)
THEOREM MarioStaysFree ==
  ASSUME PlayableFiles
  PROVE  Spec => []MarioFree
  <1>1. IInv => MarioFree
    BY DEF IInv, Shows, MarioFree
  <1>. QED
    BY <1>1, PlayInvariance, PTL

(* Nothing outside the map or the buffer of levels is read. *)
THEOREM PlayIsDefined ==
  ASSUME PlayableFiles
  PROVE  Spec => []NeverUndefined
  <1>1. IInv => NeverUndefined
    BY DEF IInv, NeverUndefined
  <1>. QED
    BY <1>1, PlayInvariance, PTL

(* The game is won on the last level, with a crate on every goal. *)
THEOREM WonIsSolved ==
  ASSUME PlayableFiles
  PROVE  Spec => []WonSolved
  <1>1. IInv => WonSolved
    BY DEF IInv
  <1>. QED
    BY <1>1, PlayInvariance, PTL

(* Only the push that covers the last goal ends a level, although the
   completion check runs after every event. *)
THEOREM LevelsEndByPush ==
  ASSUME PlayableFiles
  PROVE  Spec => AdvanceByLastPush
  <1>. DEFINE Ends == level' # level \/ phase' = "won" =>
                        /\ Cardinality(Goals(game.map) \ Crates(game.map)) = 1
                        /\ \E dir \in Directions : Pushes(dir, game)
                        /\ mapIo' = mapIo
  <1>1. IInv /\ Next => Ends
    BY PlayStep
  <1>2. IInv /\ [Next]_vars => [Ends]_vars
    BY <1>1
  <1>. QED
    BY <1>2, PlayInvariance, PTL DEF Spec, AdvanceByLastPush
-----------------------------------------------------------------------------
(* The rules of the game.                                                  *)

(* A cell number is a row and a column, and they are one cell number. *)
LEMMA Divided ==
  ASSUME NEW cell \in Cells
  PROVE  /\ cell \div W \in 0..W - 1 /\ cell % W \in 0..W - 1
         /\ cell = W * (cell \div W) + (cell % W)
  BY WidthCases, SMTT(60) DEF Cells

LEMMA Divides ==
  ASSUME NEW q \in 0..W - 1, NEW r \in 0..W - 1
  PROVE  (W * q + r) \div W = q /\ (W * q + r) % W = r
  BY WidthCases, SMTT(60)

StepOf(dir) ==
  CASE dir = "UP" -> <<-1, 0>> [] dir = "RIGHT" -> <<0, 1>>
    [] dir = "DOWN" -> <<1, 0>> [] dir = "LEFT" -> <<0, -1>>

(* get_next_cell_i takes a step on the board, wherever the border test lets it. *)
LEMMA NextSquare ==
  ASSUME NEW dir \in Directions, NEW cell \in Cells, ~AtBorder(dir, cell)
  PROVE  /\ StepOf(dir) \in Rules!Steps
         /\ Square(NextCell(dir, cell)) = Rules!Beside(Square(cell), StepOf(dir))
  <1>. DEFINE q == cell \div W
              r == cell % W
  <1>1. q \in 0..W - 1 /\ r \in 0..W - 1 /\ cell = W * q + r
    BY Divided
  <1>2. Square(cell) = <<q, r>>
    BY DEF Square
  <1>3. NextCell(dir, cell) = cell + Offset(dir)
    BY WidthCases, SMTT(60) DEF Directions, Cells, AtBorder, NextCell, Offset
  <1>4. dir = "LEFT" => r # 0
    BY DEF AtBorder
  <1>5. dir = "RIGHT" => r # W - 1
    BY WidthCases, SMTT(60) DEF AtBorder, Cells
  <1>6. dir = "UP" => q # 0
    BY WidthCases, SMTT(60) DEF AtBorder, Cells
  <1>7. dir = "DOWN" => q # W - 1
    BY WidthCases, SMTT(60) DEF AtBorder, Cells
  <1>. HIDE DEF q, r
  <1>8. W \in 2..15
    BY BoardAssumption
  <1>9. ASSUME NEW x \in 0..W - 1, NEW y \in 0..W - 1, cell + Offset(dir) = W * x + y,
               StepOf(dir) \in Rules!Steps, StepOf(dir)[1] = x - q, StepOf(dir)[2] = y - r
        PROVE  Square(NextCell(dir, cell)) = Rules!Beside(Square(cell), StepOf(dir))
    <2>1. Square(NextCell(dir, cell)) = <<x, y>>
      BY <1>3, <1>9, Divides DEF Square
    <2>2. q + (x - q) = x /\ r + (y - r) = y
      BY <1>1, <1>8
    <2>. QED
      BY <1>2, <1>9, <2>1, <2>2 DEF Rules!Beside
  <1>10. CASE dir = "UP"
    <2>1. q - 1 \in 0..W - 1 /\ cell + (-W) = W * (q - 1) + r /\ -1 = (q - 1) - q /\ 0 = r - r
      BY <1>1, <1>6, <1>8, <1>10
    <2>2. StepOf(dir) = <<-1, 0>> /\ Offset(dir) = -W /\ StepOf(dir) \in Rules!Steps
      BY <1>10 DEF StepOf, Offset, Rules!Steps
    <2>. QED
      BY <1>1, <1>9, <2>1, <2>2
  <1>11. CASE dir = "DOWN"
    <2>1. q + 1 \in 0..W - 1 /\ cell + W = W * (q + 1) + r /\ 1 = (q + 1) - q /\ 0 = r - r
      BY <1>1, <1>7, <1>8, <1>11
    <2>2. StepOf(dir) = <<1, 0>> /\ Offset(dir) = W /\ StepOf(dir) \in Rules!Steps
      BY <1>11 DEF StepOf, Offset, Rules!Steps
    <2>. QED
      BY <1>1, <1>9, <2>1, <2>2
  <1>12. CASE dir = "LEFT"
    <2>1. r - 1 \in 0..W - 1 /\ cell + (-1) = W * q + (r - 1) /\ -1 = (r - 1) - r /\ 0 = q - q
      BY <1>1, <1>4, <1>8, <1>12
    <2>2. StepOf(dir) = <<0, -1>> /\ Offset(dir) = -1 /\ StepOf(dir) \in Rules!Steps
      BY <1>12 DEF StepOf, Offset, Rules!Steps
    <2>. QED
      BY <1>1, <1>9, <2>1, <2>2
  <1>13. CASE dir = "RIGHT"
    <2>1. r + 1 \in 0..W - 1 /\ cell + 1 = W * q + (r + 1) /\ 1 = (r + 1) - r /\ 0 = q - q
      BY <1>1, <1>5, <1>8, <1>13
    <2>2. StepOf(dir) = <<0, 1>> /\ Offset(dir) = 1 /\ StepOf(dir) \in Rules!Steps
      BY <1>13 DEF StepOf, Offset, Rules!Steps
    <2>. QED
      BY <1>1, <1>9, <2>1, <2>2
  <1>14. StepOf(dir) \in Rules!Steps
    BY DEF StepOf, Directions, Rules!Steps
  <1>. QED
    BY <1>10, <1>11, <1>12, <1>13, <1>14 DEF Directions

(* Squares tell cells apart, so sets of them say what sets of cells say. *)
LEMMA SquaresTell ==
  /\ \A cell \in Cells : Square(cell) \in Rules!Squares
  /\ \A a, b \in Cells : Square(a) = Square(b) => a = b
  <1>1. \A cell \in Cells : Square(cell) \in Rules!Squares
    BY Divided DEF Square, Rules!Squares
  <1>2. ASSUME NEW a \in Cells, NEW b \in Cells, Square(a) = Square(b)
        PROVE  a = b
    <2>1. a \div W = b \div W /\ a % W = b % W
      BY <1>2 DEF Square
    <2>. QED
      BY <2>1, Divided
  <1>. QED
    BY <1>1, <1>2

LEMMA SquaresOfCells ==
  ASSUME NEW A \in SUBSET Cells
  PROVE  /\ \A x \in Cells : Square(x) \in SquaresOf(A) <=> x \in A
         /\ \A B \in SUBSET Cells : SquaresOf(A) = SquaresOf(B) <=> A = B
         /\ \A x, y \in Cells : SquaresOf((A \ {x}) \cup {y})
                                 = (SquaresOf(A) \ {Square(x)}) \cup {Square(y)}
  <1>1. \A D \in SUBSET Cells : \A x \in Cells : Square(x) \in SquaresOf(D) <=> x \in D
    BY SquaresTell DEF SquaresOf
  <1>2. \A B \in SUBSET Cells : SquaresOf(A) = SquaresOf(B) <=> A = B
    BY <1>1
  <1>3. ASSUME NEW x \in Cells, NEW y \in Cells
        PROVE  SquaresOf((A \ {x}) \cup {y}) = (SquaresOf(A) \ {Square(x)}) \cup {Square(y)}
    BY SquaresTell DEF SquaresOf
  <1>. QED
    BY <1>1, <1>2, <1>3

(* load_level shows the board the image stands for. *)
LEMMA LoadedPicture ==
  ASSUME NEW image \in Image, PlayableImage(image), NEW g \in GameType
  PROVE  Picture(LoadLevel(image, g).map, LoadLevel(image, g).mario) = PictureOf(image)
  <1>1. PICK h : h = LoadLevel(image, g)
    OBVIOUS
  <1>2. Shows(h, image) /\ Crates(h.map) = Crates(image) /\ Where("MARIO", image) = {h.mario}
    BY <1>1, LoadedShows
  <1>3. Min({h.mario}) = h.mario
    <2>1. {h.mario} \in SUBSET Cells /\ {h.mario} # {}
      BY <1>2 DEF Shows
    <2>. QED
      BY <2>1, LeastCell
  <1>4. Walls(h.map) = Walls(image) /\ Goals(h.map) = Goals(image)
    BY <1>2 DEF Shows
  <1>. QED
    BY <1>1, <1>2, <1>3, <1>4 DEF Picture, PictureOf

LEMMA ReadBook ==
  ASSUME PlayableFiles, NEW file \in Files, NEW io
  PROVE  BookOf(ReadInto(io, file), file.count) = BookOf(file.levels, file.count)
  <1>1. /\ file.count \in 1..MaxLevels /\ DOMAIN file.levels = 0..(file.count - 1)
        /\ file.length = file.count * (W * W)
    BY DEF PlayableFiles, PlayableFile
  <1>2. ASSUME NEW l \in 0..(file.count - 1)
        PROVE  ReadInto(io, file)[l] = file.levels[l]
    <2>. DEFINE n == file.count
    <2>0. n \in 1..MaxLevels /\ MaxLevels \in 1..255
      BY <1>1, LevelsAssumption, Zenon
    <2>. HIDE DEF n
    <2>1. n \in Nat /\ n =< MaxLevels /\ MaxLevels \in Nat
      BY <2>0, SMT
    <2>2. l \in LevelSlots
      BY <1>2, <2>1 DEF LevelSlots, n
    <2>. QED
      BY <1>1, <1>2, <2>1, <2>2, ReadWhole DEF n
  <1>. QED
    BY <1>2 DEF BookOf

(* R and F9: the completion check finds nothing to do on a level just loaded. *)
LEMMA PlaysAgain ==
  ASSUME IInv, phase = "running", NEW io, Holds(io, levelCount),
         mapIo' = io, levelCount' = levelCount,
         BookOf(io, levelCount) \in AllBooks \cup {Book},
         EndIteration(LoadLevel(io[level], game), io, levelCount, TRUE)
  PROVE  Rules!Again
  <1>1. level \in 0..(levelCount - 1) /\ game \in GameType
    BY DEF IInv, Shows
  <1>2. io[level] \in Image /\ PlayableImage(io[level])
    <2>1. level \in LevelSlots
      BY <1>1, LevelsAssumption DEF Holds, LevelSlots
    <2>. QED
      BY <1>1, <2>1 DEF Holds
  <1>3. PICK g : g = LoadLevel(io[level], game)
    OBVIOUS
  <1>4. /\ ~Solved(g) /\ HasTextures(g.map)
        /\ Picture(g.map, g.mario) = PictureOf(io[level])
    BY <1>1, <1>2, <1>3, LoadedShows, LoadedPicture DEF Shows
  <1>5. phase' = "running" /\ game' = g /\ level' = level
    BY <1>3, <1>4 DEF EndIteration
  <1>6. Book' = BookOf(io, levelCount) /\ Board' = PictureOf(io[level])
    BY <1>4, <1>5 DEF Book, Board
  <1>7. level \in DOMAIN Book' /\ Board' = Book'[level]
    BY <1>1, <1>6 DEF BookOf
  <1>8. Outcome = "playing" /\ Outcome' = "playing"
    BY <1>5 DEF Outcome
  <1>. QED
    BY <1>5, <1>6, <1>7, <1>8 DEF Rules!Again

(* An arrow key: a step, a push with what it ends, or nothing. *)
LEMMA PlaysArrow ==
  ASSUME IInv, NEW dir \in Directions, Arrow(dir)
  PROVE  \/ Rules!Walk(StepOf(dir)) \/ Rules!Push(StepOf(dir))
         \/ UNCHANGED <<Book, level, Board, Outcome>>
  <1>1. /\ Holds(mapIo, levelCount) /\ level \in 0..(levelCount - 1)
        /\ Shows(game, mapIo[level]) /\ ~Solved(game) /\ phase = "running"
        /\ mapIo' = mapIo /\ levelCount' = levelCount
        /\ EndIteration(Moved(dir, game), mapIo, levelCount, TRUE)
    BY DEF IInv, Arrow
  <1>2. /\ game \in GameType /\ game.map \in Image /\ game.mario \in Cells
        /\ levelCount \in 1..MaxLevels /\ MaxLevels \in 1..255
    BY <1>1, LevelsAssumption DEF Shows, Holds, GameType
  <1>3. PICK h : h = Moved(dir, game)
    OBVIOUS
  <1>4. Shows(h, mapIo[level]) /\ h \in GameType /\ HasTextures(h.map)
    <2>1. Shows(h, mapIo[level])
      BY <1>1, <1>3, MovedShows
    <2>. QED
      BY <2>1 DEF Shows
  <1>5. Book' = Book /\ Outcome = "playing"
    BY <1>1 DEF Book, Outcome
  <1>6. CASE ~Walks(dir, game) /\ ~Pushes(dir, game)
    <2>1. h = game
      BY <1>3, <1>6 DEF Moved
    <2>2. game' = game /\ level' = level /\ phase' = "running"
      BY <1>1, <1>3, <1>4, <2>1 DEF EndIteration
    <2>. QED
      BY <1>1, <1>5, <2>2 DEF Board, Outcome
  <1>7. PICK next : next = NextCell(dir, game.mario)
    OBVIOUS
  <1>8. CASE Walks(dir, game)
    <2>1. ~AtBorder(dir, game.mario) /\ game.map[next] \in Free
      BY <1>7, <1>8 DEF Walks
    <2>2. next \in Cells
      BY <1>2, <1>7, <2>1, NeighbourOnBoard
    <2>3. h = [game EXCEPT !.mario = next]
      <3>1. ~Pushes(dir, game)
        BY <1>7, <2>1 DEF Pushes, Free
      <3>. QED
        BY <1>3, <1>7, <1>8, <3>1 DEF Moved
    <2>4. h.map = game.map /\ h.mario = next /\ h.objectives = game.objectives
      BY <1>2, <2>3 DEF GameType
    <2>5. ~Solved(h)
      BY <1>1, <2>4 DEF Solved
    <2>6. game' = h /\ level' = level /\ phase' = "running"
      BY <1>1, <1>3, <1>4, <2>5 DEF EndIteration
    <2>7. Square(next) = Rules!Beside(Square(game.mario), StepOf(dir))
      BY <1>2, <1>7, <2>1, NextSquare
    <2>8. Board.player = Square(game.mario) /\ Board' = [Board EXCEPT !.player = Square(next)]
      BY <2>4, <2>6 DEF Board, Picture
    <2>9. Square(next) \in Rules!Open
      <3>1. next \notin Walls(game.map) /\ next \notin Crates(game.map)
        BY <2>1 DEF Walls, Crates, Where, Free
      <3>2. Walls(game.map) \in SUBSET Cells /\ Crates(game.map) \in SUBSET Cells
        BY CellSets DEF Walls
      <3>3. Square(next) \notin SquaresOf(Walls(game.map))
            /\ Square(next) \notin SquaresOf(Crates(game.map))
        BY <2>2, <3>1, <3>2, SquaresOfCells
      <3>. QED
        BY <2>2, <3>3, SquaresTell DEF Rules!Open, Board, Picture
    <2>10. Outcome' = Outcome
      BY <1>1, <2>6 DEF Outcome
    <2>. QED
      BY <1>5, <2>6, <2>7, <2>8, <2>9, <2>10 DEF Rules!Walk
  <1>9. CASE ~Walks(dir, game) /\ Pushes(dir, game)
    <2>1. PICK beyond : beyond = NextCell(dir, next)
      OBVIOUS
    <2>2. /\ ~AtBorder(dir, game.mario) /\ ~AtBorder(dir, next)
          /\ next \in Cells /\ beyond \in Cells /\ beyond # next
      BY <1>2, <1>7, <1>9, <2>1, NeighbourOnBoard DEF Pushes
    <2>3. game.map[next] \in {"CRATE", "CRATE_OK"} /\ game.map[beyond] \in Free
      BY <1>1, <1>7, <1>9, <2>1, <2>2 DEF Pushes, Shows, Where, HasTextures
    <2>4. PICK m : m = MovedCrate(game.map, next, beyond)
      OBVIOUS
    <2>5. /\ m[beyond] = IF game.map[beyond] = "OBJECTIVE" THEN "CRATE_OK" ELSE "CRATE"
          /\ m[next] = IF game.map[next] = "CRATE_OK" THEN "OBJECTIVE" ELSE "NONE"
          /\ \A x \in Cells \ {next, beyond} : m[x] = game.map[x]
      BY <1>2, <2>2, <2>4 DEF MovedCrate, Image
    <2>6. h.map = m /\ h.mario = next
      <3>1. h = [game EXCEPT !.mario = next, !.map = m]
        BY <1>3, <1>7, <1>9, <2>1, <2>4 DEF Moved
      <3>. QED
        BY <1>2, <3>1 DEF GameType
    <2>7. /\ Walls(m) = Walls(game.map) /\ Goals(m) = Goals(game.map)
          /\ Crates(m) = (Crates(game.map) \ {next}) \cup {beyond}
          /\ next \in Crates(game.map)
          /\ beyond \notin Crates(game.map) /\ beyond \notin Walls(game.map)
      <3>1. Walls(m) = Walls(game.map) /\ Goals(m) = Goals(game.map)
        BY <2>2, <2>3, <2>5 DEF Walls, Goals, Where, Free
      <3>2. Crates(m) = (Crates(game.map) \ {next}) \cup {beyond}
        BY <2>2, <2>3, <2>5 DEF Crates, Where, Free
      <3>3. /\ next \in Crates(game.map)
            /\ beyond \notin Crates(game.map) /\ beyond \notin Walls(game.map)
        BY <2>2, <2>3 DEF Crates, Walls, Where, Free
      <3>. QED
        BY <3>1, <3>2, <3>3
    <2>8. /\ Walls(game.map) \in SUBSET Cells /\ Crates(game.map) \in SUBSET Cells
          /\ Goals(game.map) \in SUBSET Cells /\ Crates(m) \in SUBSET Cells
      BY CellSets DEF Walls
    <2>. DEFINE step == StepOf(dir)
                to == Rules!Beside(Board.player, step)
                off == Rules!Beside(to, step)
                crates == (Board.crates \ {to}) \cup {off}
                pushed == [Board EXCEPT !.player = to, !.crates = crates]
    <2>9. to = Square(next) /\ off = Square(beyond)
      BY <1>2, <1>7, <2>1, <2>2, NextSquare DEF Board, Picture
    <2>10. to \in Board.crates /\ off \in Rules!Open
      <3>1. Square(next) \in SquaresOf(Crates(game.map))
        BY <2>2, <2>7, <2>8, SquaresOfCells
      <3>2. Square(beyond) \notin SquaresOf(Crates(game.map))
            /\ Square(beyond) \notin SquaresOf(Walls(game.map))
        BY <2>2, <2>7, <2>8, SquaresOfCells
      <3>. QED
        BY <2>2, <2>9, <3>1, <3>2, SquaresTell DEF Rules!Open, Board, Picture
    <2>11. crates = SquaresOf(Crates(m))
      BY <2>2, <2>7, <2>8, <2>9, SquaresOfCells DEF Board, Picture
    <2>12. Picture(h.map, h.mario) = pushed
      <3>1. PICK a, b : a = to /\ b = crates
        OBVIOUS
      <3>2. pushed = [Board EXCEPT !.player = a, !.crates = b]
        BY <3>1
      <3>3. a = Square(next) /\ b = SquaresOf(Crates(m))
        BY <2>9, <2>11, <3>1
      <3>. HIDE DEF to, crates, pushed
      <3>4. PICK w, o, x, p :
              /\ Board = [walls |-> w, goals |-> o, crates |-> x, player |-> p]
              /\ w = SquaresOf(Walls(game.map)) /\ o = SquaresOf(Goals(game.map))
        BY DEF Board, Picture
      <3>5. [[walls |-> w, goals |-> o, crates |-> x, player |-> p] EXCEPT !.player = a, !.crates = b]
              = [walls |-> w, goals |-> o, crates |-> b, player |-> a]
        <4>1. [[walls |-> w, goals |-> o, crates |-> x, player |-> p] EXCEPT !.player = a]
                = [walls |-> w, goals |-> o, crates |-> x, player |-> a]
          OBVIOUS
        <4>2. [[walls |-> w, goals |-> o, crates |-> x, player |-> a] EXCEPT !.crates = b]
                = [walls |-> w, goals |-> o, crates |-> b, player |-> a]
          OBVIOUS
        <4>. QED
          BY <4>1, <4>2, Zenon
      <3>. QED
        BY <2>6, <2>7, <3>2, <3>3, <3>4, <3>5 DEF Picture
    <2>13. Solved(h) <=> crates = Board.goals
      <3>1. Solved(h) <=> Crates(m) = Goals(game.map)
        BY <1>4, <2>6, <2>7, SolvedCrates
      <3>2. SquaresOf(Crates(m)) = SquaresOf(Goals(game.map)) <=> Crates(m) = Goals(game.map)
        BY <2>8, SquaresOfCells
      <3>. QED
        BY <2>11, <3>1, <3>2 DEF Board, Picture
    <2>14. EndIteration(h, mapIo, levelCount, TRUE)
      BY <1>1, <1>3
    <2>15. DOMAIN Book = 0..(levelCount - 1)
           /\ \A l \in 0..(levelCount - 1) : Book[l] = PictureOf(mapIo[l])
      BY DEF Book, BookOf
    <2>. HIDE DEF crates, pushed, off, to, step
    <2>16. \/ crates # Board.goals /\ Board' = pushed /\ level' = level /\ Outcome' = Outcome
           \/ /\ crates = Board.goals /\ level + 1 \in DOMAIN Book
              /\ level' = level + 1 /\ Board' = Book[level + 1] /\ Outcome' = Outcome
           \/ /\ crates = Board.goals /\ level + 1 \notin DOMAIN Book
              /\ Board' = pushed /\ Outcome' = "won" /\ level' = level
      <3>1. CASE ~Solved(h)
        <4>1. phase' = "running" /\ game' = h /\ level' = level
          BY <1>4, <2>14, <3>1 DEF EndIteration
        <4>. QED
          BY <1>1, <2>12, <2>13, <3>1, <4>1 DEF Board, Outcome
      <3>2. CASE Solved(h) /\ IsLast(level, levelCount)
        <4>1. phase' = "won" /\ game' = h /\ level' = level /\ level = levelCount - 1
          BY <1>4, <2>14, <3>2 DEF EndIteration, IsLast
        <4>2. level + 1 \notin DOMAIN Book
          BY <1>2, <2>15, <4>1
        <4>3. Board' = pushed /\ Outcome' = "won"
          BY <2>12, <4>1 DEF Board, Outcome
        <4>. QED
          BY <2>13, <3>2, <4>1, <4>2, <4>3
      <3>3. CASE Solved(h) /\ ~IsLast(level, levelCount)
        <4>1. PICK l : l = (level + 1) % 256
          OBVIOUS
        <4>2. l = level + 1 /\ l \in 0..(levelCount - 1) /\ l \in LevelSlots
          BY <1>1, <1>2, <3>3, <4>1 DEF IsLast, LevelSlots
        <4>3. phase' = "running" /\ game' = LoadLevel(mapIo[l], h) /\ level' = l
          BY <1>4, <2>14, <3>3, <4>1, <4>2 DEF EndIteration
        <4>4. mapIo[l] \in Image /\ PlayableImage(mapIo[l])
          BY <1>1, <4>2 DEF Holds
        <4>5. Board' = PictureOf(mapIo[l])
          BY <1>4, <4>3, <4>4, LoadedPicture DEF Board
        <4>6. Outcome' = Outcome
          BY <1>1, <4>3 DEF Outcome
        <4>. QED
          BY <2>13, <2>15, <3>3, <4>2, <4>3, <4>5, <4>6
      <3>. QED
        BY <3>1, <3>2, <3>3
    <2>17. Rules!Push(StepOf(dir))
      BY <1>5, <2>10, <2>16 DEF Rules!Push, crates, pushed, off, to, step
    <2>. QED
      BY <2>17
  <1>. QED
    BY <1>6, <1>8, <1>9

(* Whatever the board and the playable levels: the program, with its flat array,
   its 8-bit cells and the check at the end of every iteration, implements the
   rules of the game. *)
THEOREM ImplementsTheRules ==
  ASSUME PlayableFiles
  PROVE  Spec => PlaysByTheRules
  <1>1. Init => Rules!RulesInit
    <2>. SUFFICES ASSUME Init PROVE Rules!RulesInit
      OBVIOUS
    <2>1. PICK file \in Files : mapIo = ReadInto(BlankIo, file) /\ levelCount = file.count
      BY DEF Init, PlayableFiles
    <2>2. Book = BookOf(file.levels, file.count) /\ Book \in AllBooks
      BY <2>1, ReadBook DEF Book, AllBooks
    <2>3. IInv /\ level = 0 /\ phase = "running"
      BY PlayInit DEF Init
    <2>4. 0 \in 0..(levelCount - 1) /\ 0 \in LevelSlots
      BY <2>3, LevelsAssumption DEF IInv, Holds, LevelSlots
    <2>5. mapIo[0] \in Image /\ PlayableImage(mapIo[0])
      BY <2>3, <2>4 DEF IInv, Holds
    <2>6. PICK mario \in Byte, crates \in Byte, objectives \in Byte :
            game = LoadLevel(mapIo[0],
                             [map |-> Blank, mario |-> mario, crates |-> crates,
                              objectives |-> objectives, report |-> "ok"])
      BY GarbageAssumption DEF Init
    <2>7. [map |-> Blank, mario |-> mario, crates |-> crates,
           objectives |-> objectives, report |-> "ok"] \in GameType
      BY DEF GameType, Blank, Image, Entities
    <2>8. Board = PictureOf(mapIo[0])
      BY <2>5, <2>6, <2>7, LoadedPicture DEF Board
    <2>9. Book[0] = PictureOf(mapIo[0])
      BY <2>4 DEF Book, BookOf
    <2>10. Outcome = "playing"
      BY <2>3 DEF Outcome
    <2>. QED
      BY <2>2, <2>3, <2>8, <2>9, <2>10 DEF Rules!RulesInit
  <1>2. IInv /\ [Next]_vars => [Rules!RulesNext]_(Rules!rulesVars)
    <2>. SUFFICES ASSUME IInv, [Next]_vars
                  PROVE  Rules!RulesNext \/ UNCHANGED <<Book, level, Board, Outcome>>
      BY DEF Rules!rulesVars
    <2>0. Holds(mapIo, levelCount) /\ \A file \in Files : file.count = levelCount
      BY DEF IInv
    <2>1. CASE UNCHANGED vars
      BY <2>1 DEF vars, Book, Board, Outcome
    <2>2. CASE Quit
      <3>1. phase = "running" /\ ~Solved(game) /\ mapIo' = mapIo /\ levelCount' = levelCount
            /\ EndIteration(game, mapIo, levelCount, FALSE)
        BY <2>2 DEF Quit, IInv
      <3>2. phase' = "quit" /\ game' = game /\ level' = level
        BY <3>1 DEF EndIteration, IInv, Shows
      <3>. QED
        BY <3>1, <3>2 DEF Rules!RulesNext, Rules!Stop, Book, Board, Outcome
    <2>2a. CASE OtherEvent
      <3>1. phase = "running" /\ ~Solved(game) /\ mapIo' = mapIo /\ levelCount' = levelCount
            /\ EndIteration(game, mapIo, levelCount, TRUE)
        BY <2>2a DEF OtherEvent, IInv
      <3>2. phase' = "running" /\ game' = game /\ level' = level
        BY <3>1 DEF EndIteration, IInv, Shows
      <3>. QED
        BY <3>1, <3>2 DEF Book, Board, Outcome
    <2>3. CASE Restart
      <3>1. Rules!Again
        BY <2>0, <2>3, PlaysAgain DEF Restart, Book
      <3>. QED
        BY <3>1 DEF Rules!RulesNext
    <2>4. CASE Reload
      <3>1. PICK file \in Files :
              /\ mapIo' = ReadInto(mapIo, file)
              /\ levelCount' = file.count
              /\ EndIteration(LoadLevel(ReadInto(mapIo, file)[level], game),
                              ReadInto(mapIo, file), file.count, TRUE)
        BY <2>4 DEF Reload
      <3>2. PICK io : io = ReadInto(mapIo, file)
        OBVIOUS
      <3>3. Holds(io, file.count) /\ file.count = levelCount
        BY <2>0, <3>2, ReadHolds DEF Holds
      <3>4. BookOf(io, levelCount) \in AllBooks
        BY <3>2, <3>3, ReadBook DEF AllBooks
      <3>5. Rules!Again
        BY <2>4, <3>1, <3>2, <3>3, <3>4, PlaysAgain DEF Reload
      <3>. QED
        BY <3>5 DEF Rules!RulesNext
    <2>5. ~ReloadEmpty
      BY <2>0, ReadHolds DEF ReloadEmpty, Holds
    <2>6. ASSUME NEW dir \in Directions, Arrow(dir)
          PROVE  Rules!RulesNext \/ UNCHANGED <<Book, level, Board, Outcome>>
      <3>1. StepOf(dir) \in Rules!Steps
        BY DEF StepOf, Directions, Rules!Steps
      <3>. QED
        BY <2>6, <3>1, PlaysArrow DEF Rules!RulesNext
    <2>7. ASSUME NEW dir \in Directions, WildArrow(dir)
          PROVE  FALSE
      BY <2>7, MovedOnBoard DEF WildArrow, IInv, Shows
    <2>. QED
      BY <2>1, <2>2, <2>2a, <2>3, <2>4, <2>5, <2>6, <2>7 DEF Next
  <1>. QED
    BY <1>1, <1>2, PlayInvariance, PTL DEF Spec, PlaysByTheRules, Rules!RulesSpec
=============================================================================
