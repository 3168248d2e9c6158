--------------------------- MODULE DispatchTimer ---------------------------
(***************************************************************************)
(* The countdown timers of src/dispatch_timer.c.  The main thread creates  *)
(* one timer for every pair of arguments and then drains the main queue,   *)
(* which runs the timers' event handlers one after the other; a worker     *)
(* thread drains the print queue at the same time.  A print block does not *)
(* carry the value it prints: it reads the timer's __block variable when   *)
(* it runs.                                                                *)
(*                                                                         *)
(* libdispatch is modelled from its use: a timer that is due again before  *)
(* its handler has run is delivered once, a cancelled one is not delivered *)
(* any more, a serial queue runs its blocks in order and dispatch_sync     *)
(* waits for the block it submits.  The ntimer_serial queue is only ever   *)
(* used with dispatch_sync by one thread: its blocks are part of the       *)
(* action that submits them.                                               *)
(***************************************************************************)
EXTENDS Integers, FiniteSets, Sequences

CONSTANTS
    NTimers,    \* pairs of arguments
    CountMod,   \* stands for 2^32: count is a uint32_t
    Start       \* the count of each pair, after atoi

Timers == 1..NTimers
Counts == 0..(CountMod - 1)
Bye == 0        \* in the print queue, and printed: the goodbye

\* An argument list is far shorter than 2^32.
ASSUME TimersAssumption == NTimers \in Nat /\ CountMod \in Nat /\ 1 < CountMod
                           /\ NTimers < CountMod
ASSUME StartAssumption == Start \in [Timers -> Counts]

VARIABLES
    pc,         \* where the main thread is
    arg,        \* the next pair of arguments to be taken up
    cur,        \* the timer whose handler is running
    count,      \* the __block variable of each timer
    active,     \* timers resumed and not cancelled
    due,        \* timers whose handler is to run
    ntimers,
    queue,      \* print_serial: timers whose count is to be printed, or Bye
    out         \* what was printed: pairs of a timer and a count

vars == <<pc, arg, cur, count, active, due, ntimers, queue, out>>

Init ==
    /\ pc = "create" /\ arg = 1 /\ cur = 0
    /\ count = Start
    /\ active = {} /\ due = {}
    /\ ntimers = 0
    /\ queue = <<>> /\ out = <<>>

-----------------------------------------------------------------------------
(* The main thread.                                                        *)

\* One turn of the loop over the arguments.  The handlers all target the
\* main queue, so none runs before dispatch_main.
Create ==
    /\ pc = "create"
    /\ arg <= NTimers
    /\ count' = [count EXCEPT ![arg] = Start[arg]]
    /\ ntimers' = (ntimers + 1) % CountMod
    /\ active' = active \cup {arg}
    /\ arg' = arg + 1
    /\ UNCHANGED <<pc, cur, due, queue, out>>

DispatchMain ==
    /\ pc = "create"
    /\ arg > NTimers
    /\ pc' = "idle"
    /\ UNCHANGED <<arg, cur, count, active, due, ntimers, queue, out>>

DecrementSigned(n) == n - 1   \* mutant: count is an int

\* count--, which wraps a count of 0.
Decrement(n) == (n - 1) % CountMod

\* The handler begins.
Handle(t) ==
    /\ pc = "idle"
    /\ t \in due
    /\ pc' = "print"
    /\ cur' = t
    /\ due' = due \ {t}
    /\ count' = [count EXCEPT ![t] = Decrement(@)]
    /\ UNCHANGED <<arg, active, ntimers, queue, out>>

AsyncPrint ==
    /\ pc = "print"
    /\ pc' = "test"
    /\ queue' = Append(queue, cur)
    /\ UNCHANGED <<arg, cur, count, active, due, ntimers, out>>

CancelAtOne == count[cur] <= 1   \* mutant

AtZero == count[cur] = 0

\* Lines 78-87: cancel and release the timer, and count it out.
TestCount ==
    /\ pc = "test"
    /\ pc' = "last"
    /\ IF AtZero
       THEN /\ active' = active \ {cur}
            /\ due' = due \ {cur}
            /\ ntimers' = (ntimers - 1) % CountMod
       ELSE UNCHANGED <<active, due, ntimers>>
    /\ UNCHANGED <<arg, cur, count, queue, out>>

NoneLeftEarly == ntimers <= 1   \* mutant

NoneLeftBelow == ntimers < 0   \* mutant: never true of a uint32_t

NoneLeft == ntimers = 0

\* Lines 89-96: the goodbye is submitted and waited for.
LastTimer ==
    /\ pc = "last"
    /\ NoneLeft
    /\ pc' = "sync"
    /\ queue' = Append(queue, Bye)
    /\ UNCHANGED <<arg, cur, count, active, due, ntimers, out>>

NotLastTimer ==
    /\ pc = "last"
    /\ ~NoneLeft
    /\ pc' = "idle"
    /\ cur' = 0
    /\ UNCHANGED <<arg, count, active, due, ntimers, queue, out>>

SyncUnordered == pc = "sync" /\ pc' = "exited"   \* mutant: no waiting

\* dispatch_sync has returned, because its block has run.
SyncReturns ==
    /\ pc = "sync"
    /\ \E i \in DOMAIN out : out[i][1] = Bye
    /\ pc' = "exited"

Exit ==
    /\ SyncReturns
    /\ UNCHANGED <<arg, cur, count, active, due, ntimers, queue, out>>

-----------------------------------------------------------------------------
(* The timers and the print queue.                                         *)

\* A timer is due; if it already was, the two events are one.
Fire(t) ==
    /\ pc # "exited"
    /\ t \in active \ due
    /\ due' = due \cup {t}
    /\ UNCHANGED <<pc, arg, cur, count, active, ntimers, queue, out>>

ShownAtCreation(t) == IF t = Bye THEN 0 ELSE Start[t]   \* mutant: no __block

\* What a print block shows: the count at the time it runs.
Shown(t) == IF t = Bye THEN 0 ELSE count[t]

PrintBlock ==
    /\ pc # "exited"
    /\ queue # <<>>
    /\ out' = Append(out, <<Head(queue), Shown(Head(queue))>>)
    /\ queue' = Tail(queue)
    /\ UNCHANGED <<pc, arg, cur, count, active, due, ntimers>>

-----------------------------------------------------------------------------

Main ==
    \/ Create \/ DispatchMain \/ AsyncPrint \/ TestCount
    \/ LastTimer \/ NotLastTimer \/ Exit
    \/ \E t \in Timers : Handle(t)

\* dispatch_main waits for something to be due, if need be for ever.
Sleep == pc = "idle" /\ due = {} /\ UNCHANGED vars

\* The process is gone.
Terminated == pc = "exited" /\ UNCHANGED vars

Next == Main \/ PrintBlock \/ Sleep \/ Terminated \/ \E t \in Timers : Fire(t)

\* The main thread and the print worker run, and a timer that is not
\* cancelled keeps firing.
Fairness ==
    /\ WF_vars(Main)
    /\ WF_vars(PrintBlock)
    /\ \A t \in Timers : WF_vars(Fire(t))

Spec == Init /\ [][Next]_vars /\ Fairness

-----------------------------------------------------------------------------
(* Properties.                                                             *)

TypeOK ==
    /\ pc \in {"create", "idle", "print", "test", "last", "sync", "exited"}
    /\ arg \in 1..(NTimers + 1)
    /\ cur \in 0..NTimers
    /\ count \in [Timers -> Counts]
    /\ active \subseteq Timers /\ due \subseteq active
    /\ ntimers \in Counts
    /\ queue \in Seq(0..NTimers)
    /\ out \in Seq((0..NTimers) \X Counts)

\* How often a timer ticks: a count of 0 wraps and is a whole cycle.
Ticks == [t \in Timers |-> IF Start[t] = 0 THEN CountMod ELSE Start[t]]

\* The places in "out" of the lines of a timer, or of the goodbyes.
LinesOf(t) == {i \in DOMAIN out : out[i][1] = t}

(* The program says goodbye only when every timer has been created and has
   counted down to zero. *)
GoodbyeOnlyWhenDone ==
    pc \in {"sync", "exited"} =>
        /\ arg = NTimers + 1
        /\ active = {}
        /\ \A t \in Timers : count[t] = 0

(* When the process is gone nothing it had to print is lost: there is one
   line for every tick, the last of each timer shows 0, and the goodbye is
   the last line of all.  Only the order of print_serial ensures it: exit(0)
   does not wait for the blocks of line 76. *)
NothingLost ==
    pc = "exited" =>
        /\ queue = <<>>
        /\ LinesOf(Bye) = {Len(out)}
        /\ \A t \in Timers :
              /\ Cardinality(LinesOf(t)) = Ticks[t]
              /\ \A i \in LinesOf(t) :
                    (\A j \in LinesOf(t) : j <= i) => out[i][2] = 0

(* A print block that runs late shows a smaller count, never a larger one:
   the k-th line of a timer shows at most what is left after k ticks. *)
NeverAhead ==
    \A t \in Timers : \A i \in LinesOf(t) :
        LET sofar == {j \in LinesOf(t) : j <= i}
        IN  /\ out[i][2] <= Ticks[t] - Cardinality(sofar)
            /\ \A j \in sofar : out[i][2] <= out[j][2]

(* Every timer ends and so does the program. *)
Finishes == <>(pc = "exited")

\* A timer whose count is 0 because it has not ticked yet, not because it is
\* done, has a whole cycle to go.
Untouched(t) ==
    /\ t \in active \/ t >= arg
    /\ ~(t = cur /\ pc \in {"print", "test"})

Left == [t \in Timers |-> IF count[t] = 0 /\ Untouched(t) THEN CountMod
                                                         ELSE count[t]]

Abstract == INSTANCE Countdown WITH left <- Left, bye <- (pc = "exited")

(* The program is a countdown: its handlers tick the timers, its exit is the
   goodbye, and it gets there. *)
IsCountdown == Abstract!CountdownSpec
=============================================================================
