----------------------------- MODULE Countdown -----------------------------
(***************************************************************************)
(* What src/dispatch_timer.c promises: every timer ticks its number of     *)
(* times, and the program says goodbye once all of them are done.          *)
(***************************************************************************)
EXTENDS Naturals

CONSTANTS Timers, Ticks     \* the timers, and how often each is to tick

VARIABLES left, bye

countdownVars == <<left, bye>>

CountdownInit == left = Ticks /\ bye = FALSE

Tick(t) ==
    /\ left[t] > 0
    /\ left' = [left EXCEPT ![t] = @ - 1]
    /\ bye' = bye

Goodbye ==
    /\ \A t \in Timers : left[t] = 0
    /\ bye' = TRUE
    /\ left' = left

CountdownNext == ~bye /\ (Goodbye \/ \E t \in Timers : Tick(t))

CountdownSteps == CountdownInit /\ [][CountdownNext]_countdownVars

CountdownSpec == CountdownSteps /\ WF_countdownVars(CountdownNext)
=============================================================================
