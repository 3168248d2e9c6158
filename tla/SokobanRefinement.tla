------------------------- MODULE SokobanRefinement -------------------------
(***************************************************************************)
(* The program of Sokoban.tla plays by the rules of SokobanRules.tla: the  *)
(* flat array, the 8-bit cell numbers and the entity that encodes a crate  *)
(* on its goal are mapped to squares and sets.                             *)
(***************************************************************************)
EXTENDS Sokoban

Square(cell) == <<cell \div W, cell % W>>

SquaresOf(cells) == {Square(c) : c \in cells}

Picture(map, mario) ==
    [walls  |-> SquaresOf(Walls(map)),
     goals  |-> SquaresOf(Goals(map)),
     crates |-> SquaresOf(Crates(map)),
     player |-> Square(mario)]

\* The board an image of the file stands for.
PictureOf(image) == Picture(image, Min(Where("MARIO", image)))

BookOf(io, n) == [l \in 0..(n - 1) |-> PictureOf(io[l])]

AllBooks == {BookOf(file.levels, file.count) : file \in Files}
Book == BookOf(mapIo, levelCount)
Board == Picture(game.map, game.mario)
Outcome ==
    CASE phase = "running" -> "playing" [] phase = "won" -> "won" [] OTHER -> "stopped"

Rules == INSTANCE SokobanRules WITH
    Side <- W, Books <- AllBooks,
    book <- Book, stage <- level, board <- Board, outcome <- Outcome

(* With playable files the event loop of main, its go, its load_level and its
   completion check do what the rules of the game say, and nothing else. *)
PlaysByTheRules == Rules!RulesSpec
=============================================================================
