---------------------------- MODULE SokobanRules ----------------------------
(***************************************************************************)
(* The rules of Sokoban, with nothing of the program in them: squares are  *)
(* pairs <<row, column>>, a board is four sets, and a book is a sequence   *)
(* of boards numbered from 0.  Sokoban.tla is shown to play by these rules *)
(* when its level file is playable.                                        *)
(***************************************************************************)
EXTENDS Integers

CONSTANTS
    Side,    \* squares along one side of the board
    Books    \* the books the player may open

VARIABLES
    book, stage,    \* the open book and the number of the current board
    board,          \* [walls, goals, crates, player]
    outcome         \* "playing", "stopped" or "won"

rulesVars == <<book, stage, board, outcome>>

Squares == (0..(Side - 1)) \X (0..(Side - 1))

Steps == {<<-1, 0>>, <<0, 1>>, <<1, 0>>, <<0, -1>>}

Beside(square, step) == <<square[1] + step[1], square[2] + step[2]>>

\* Squares something can move onto.
Open == Squares \ (board.walls \cup board.crates)

RulesInit ==
    /\ book \in Books
    /\ stage = 0
    /\ board = book[0]
    /\ outcome = "playing"

Walk(step) ==
    /\ outcome = "playing"
    /\ Beside(board.player, step) \in Open
    /\ board' = [board EXCEPT !.player = Beside(board.player, step)]
    /\ UNCHANGED <<book, stage, outcome>>

\* Pushing one crate onto an open square; a board with every crate on a goal
\* gives way to the next one, and the last one is a win.
Push(step) ==
    LET to == Beside(board.player, step)
        beyond == Beside(to, step)
        crates == (board.crates \ {to}) \cup {beyond}
        pushed == [board EXCEPT !.player = to, !.crates = crates]
    IN  /\ outcome = "playing"
        /\ to \in board.crates
        /\ beyond \in Open
        /\ book' = book
        /\ \/ /\ crates # board.goals
              /\ board' = pushed
              /\ UNCHANGED <<stage, outcome>>
           \/ /\ crates = board.goals
              /\ stage + 1 \in DOMAIN book
              /\ stage' = stage + 1
              /\ board' = book[stage + 1]
              /\ outcome' = outcome
           \/ /\ crates = board.goals
              /\ stage + 1 \notin DOMAIN book
              /\ board' = pushed
              /\ outcome' = "won"
              /\ stage' = stage

\* Starting the current board again, from the same book or from a new one.
Again ==
    /\ outcome = "playing"
    /\ book' \in Books \cup {book}
    /\ stage \in DOMAIN book'
    /\ board' = book'[stage]
    /\ UNCHANGED <<stage, outcome>>

Stop ==
    /\ outcome = "playing"
    /\ outcome' = "stopped"
    /\ UNCHANGED <<book, stage, board>>

RulesNext ==
    \/ Again \/ Stop
    \/ \E step \in Steps : Walk(step) \/ Push(step)

RulesSpec == RulesInit /\ [][RulesNext]_rulesVars
=============================================================================
