----------------------------- MODULE MCSokoban -----------------------------
(***************************************************************************)
(* Small boards for TLC.  memchr's window is the first quarter of the      *)
(* cells: 0..6 on the 5 x 5 board, 0..3 on the 4 x 4 one.                  *)
(***************************************************************************)
EXTENDS SokobanRefinement

Draw(walls, crates, placed, objectives, marios) ==
    [c \in Cells |->
        CASE c \in walls      -> "WALL"
          [] c \in crates     -> "CRATE"
          [] c \in placed     -> "CRATE_OK"
          [] c \in objectives -> "OBJECTIVE"
          [] c \in marios     -> "MARIO"
          [] OTHER            -> "NONE"]

\* A file of n whole levels.
File(count, levels, n) ==
    [count |-> count, length |-> n * W * W, levels |-> [l \in 0..(n - 1) |-> levels[l + 1]]]

CutShort(file, length) ==
    [count |-> file.count, length |-> length,
     levels |-> [l \in {k \in DOMAIN file.levels : k * W * W < length} |-> file.levels[l]]]

-----------------------------------------------------------------------------
(* 5 x 5: two versions of a file of two playable levels.                   *)

OneCrate  == Draw({0, 4, 12, 20, 24}, {7}, {}, {17}, {6})
TwoCrates == Draw({3, 4, 9}, {6, 12}, {}, {16, 13}, {1})
Edited    == Draw({0, 12}, {7, 11}, {}, {23, 10}, {5})

PlayableVersions ==
    {File(2, <<OneCrate, TwoCrates>>, 2), File(2, <<Edited, TwoCrates>>, 2)}

-----------------------------------------------------------------------------
(* 4 x 4: levels that load_level accepts, refuses, or does not understand. *)

Plain      == Draw({0}, {6}, {}, {10}, {2})
FarMario   == Draw({3}, {6}, {}, {10}, {9})
NoGoal     == Draw({3}, {5}, {}, {}, {1})
Uneven     == Draw({}, {5, 10}, {}, {9}, {1})
TwoMarios  == Draw({}, {6}, {}, {10}, {2, 5})
HalfSolved == Draw({3}, {6}, {13}, {10}, {1})

\* A byte that is no entity, where Mario can push it and where he cannot.
Pushable   == [Draw({}, {6}, {}, {10}, {2}) EXCEPT ![1] = "OTHER"]
Unknown    == [Draw({3}, {6}, {}, {10}, {2}) EXCEPT ![12] = "OTHER"]

\* A file longer than it announces, one shorter, one with no level at all, one
\* that announces more levels than the buffer holds, one that ends in the middle
\* of a level, and two with bytes that are no entities.
OddVersions ==
    {File(1, <<Plain, FarMario>>, 2),
     File(2, <<FarMario, NoGoal>>, 2),
     File(2, <<TwoMarios>>, 1),
     File(2, <<HalfSolved, Uneven>>, 2),
     File(3, <<Plain, Plain>>, 2),
     CutShort(File(2, <<Plain, HalfSolved>>, 2), 23),
     File(2, <<Pushable>>, 1),
     File(2, <<Plain, Unknown>>, 2),
     File(0, <<>>, 0)}

\* An in-range cell, cells just outside the board, and the last byte values.
OddBytes == {0, 1, 18, 255}

\* One goal is already covered when the last level starts.
HalfSolvedVersions == {File(1, <<HalfSolved>>, 1)}

FarMarioVersions == {File(1, <<FarMario>>, 1)}
=============================================================================
