---------------------------- MODULE ParenCounter ----------------------------
(***************************************************************************)
(* What parens.c promises of its answer, with no tree at all: a counter of *)
(* the parentheses that are open, and a flag that is raised by a closing   *)
(* one that has nothing to close and is never lowered again.  Parens       *)
(* implements it.                                                          *)
(***************************************************************************)
EXTENDS Naturals

VARIABLES
  depth,        \* how many parentheses are open
  refused,      \* a closing parenthesis had nothing to close
  answer        \* what is_parens_expr_valid returned

Init == depth = 0 /\ refused = FALSE /\ answer = "none"

Open == ~refused /\ answer = "none" /\ depth' = depth + 1 /\ UNCHANGED <<refused, answer>>

Close == ~refused /\ answer = "none" /\ depth > 0 /\ depth' = depth - 1 /\ UNCHANGED <<refused, answer>>

Excess == ~refused /\ answer = "none" /\ depth = 0 /\ refused' = TRUE /\ UNCHANGED <<depth, answer>>

\* An expression that leaves parentheses open is accepted.  The counter is
\* thrown away.
Answer ==
  /\ answer = "none"
  /\ answer' = IF refused THEN "invalid" ELSE "valid"
  /\ depth' = 0 /\ refused' = FALSE

CounterSpec == Init /\ [][Open \/ Close \/ Excess \/ Answer]_<<depth, refused, answer>>
=============================================================================
