------------------------------- MODULE GuardLog -------------------------------
(***************************************************************************)
(* aoc4.c: from the lines of a log, in any order, to the guard who sleeps  *)
(* most and the minute at which he mostly does.  A line is an event with a *)
(* time in minutes, a kind, and a guard where the line names one.  An hour *)
(* has Hour minutes and a byte counts up to ByteSize: both are smaller in  *)
(* the instances than in the code, so that both wrap.                      *)
(*                                                                         *)
(* A time is what main has made of the date.  It sets one year for all of  *)
(* them, so that the lines of a log over New Year are not sorted in time:  *)
(* such a log is outside this model.                                       *)
(*                                                                         *)
(* The second part of the program loops from a minute to the same minute   *)
(* modulo the hour: it counts nothing and prints nothing.                  *)
(***************************************************************************)
EXTENDS Integers, FiniteSets, SequencesExt

CONSTANTS Hour, ByteSize

Event(t, kind, g) == [time |-> t, kind |-> kind, guard |-> g]
Nobody == 0             \* guard_id of an event that names no guard
-----------------------------------------------------------------------------
\* Mutant: the first guard of the log stays on duty.
AttributedToFirst(events) ==
  [k \in DOMAIN events |-> [events[k] EXCEPT !.guard = events[1].guard]]
-----------------------------------------------------------------------------
\* qsort by time.  The times of the lines are different.
Sorted(lines) == SortSeq(lines, LAMBDA d, e : d.time < e.time)

\* Every event is of the guard named last.
Attributed(events) ==
  FoldLeft(LAMBDA done, e :
             Append(done, IF e.guard = Nobody /\ done # <<>>
                          THEN [e EXCEPT !.guard = Last(done).guard] ELSE e), <<>>, events)

\* minutes_asleep_per_guard, a function of the guards that woke up.  A sleep is
\* measured from the last time anyone fell asleep, and from 0 once that is used.
Account(events) ==
  FoldLeft(LAMBDA st, e :
             CASE e.kind = "asleep" -> [st EXCEPT !.fell = e.time]
               [] e.kind = "awake"  ->
                    [fell |-> 0,
                     minutes |-> (e.guard :> (e.time - st.fell +
                                   (IF e.guard \in DOMAIN st.minutes THEN st.minutes[e.guard] ELSE 0)))
                                 @@ st.minutes]
               [] OTHER -> st,
           [fell |-> 0, minutes |-> <<>>], events).minutes

\* kh_foreach meets the guards in any order: the first of those with most minutes
\* stays.  Nobody, if nobody has slept for a minute.
LongestAsleep(minutes) ==
  LET most == Max({minutes[g] : g \in DOMAIN minutes} \union {0})
  IN  IF most = 0 THEN {Nobody} ELSE {g \in DOMAIN minutes : minutes[g] = most}

\* The minutes of the hour of a sleep, one after another
MinutesOf(fell, woke) == [j \in 1..woke - fell |-> (fell + j - 1) % Hour]

\* sleep_minute_count of one guard
MinuteCount(events, g) ==
  FoldLeft(LAMBDA st, e :
             CASE e.guard = g /\ e.kind = "asleep" -> [st EXCEPT !.fell = e.time]
               [] e.guard = g /\ e.kind = "awake"  ->
                    [fell |-> 0,
                     count |-> FoldLeft(LAMBDA count, m : [count EXCEPT ![m] = @ + 1],
                                        st.count, MinutesOf(st.fell, e.time))]
               [] OTHER -> st,
           [fell |-> 0, count |-> [m \in 0..Hour - 1 |-> 0]], events).count

\* The first minute with the largest count, which is kept in a byte
BestMinute(count) ==
  FoldLeft(LAMBDA best, m :
             IF best.count < count[m] THEN [minute |-> m, count |-> count[m] % ByteSize] ELSE best,
           [minute |-> 0, count |-> 0], [m \in 1..Hour |-> m - 1])

\* What main may print: one of the guards that sleep most, and his minute
Main(lines) ==
  LET events == Attributed(Sorted(lines))
      answer(g) == [guard |-> g, minute |-> BestMinute(MinuteCount(events, g)).minute]
  IN  {answer(g) : g \in LongestAsleep(Account(events))}
-----------------------------------------------------------------------------
\* A log is made of nights: a guard, and the sleeps, from a minute of the hour to
\* a later one, of his shift, which begins a minute before the hour.
Lines(nights) ==
  LET midnight(k) == 2 * Hour * k
      shift(k) == <<Event(midnight(k) - 1, "begins", nights[k].guard)>>
                  \o FlattenSeq([j \in DOMAIN nights[k].sleeps |->
                       <<Event(midnight(k) + nights[k].sleeps[j][1], "asleep", Nobody),
                         Event(midnight(k) + nights[k].sleeps[j][2], "awake", Nobody)>>])
  IN  FlattenSeq([k \in DOMAIN nights |-> shift(k)])

SleepsOf(nights, g) ==
  {kj \in (DOMAIN nights) \X (1..Hour) :
     nights[kj[1]].guard = g /\ kj[2] \in DOMAIN nights[kj[1]].sleeps}
AsleepAt(nights, g, m) ==
  Cardinality({kj \in SleepsOf(nights, g) :
    LET sleep == nights[kj[1]].sleeps[kj[2]] IN sleep[1] <= m /\ m < sleep[2]})
Total(nights, g) == FoldFunction(+, 0, [m \in 0..Hour - 1 |-> AsleepAt(nights, g, m)])

\* Of a log in which whoever falls asleep wakes up in the same shift, in whatever
\* order its lines are, the guard printed is one who sleeps most, and the minute
\* is the first of those at which he is asleep most often, unless that is as often
\* as a byte cannot count.
AccountsFor(nights, lines) ==
  LET guards == {nights[k].guard : k \in DOMAIN nights}
      most   == Max({Total(nights, g) : g \in guards})
      often(g)  == Max({AsleepAt(nights, g, m) : m \in 0..Hour - 1})
      minute(g) == Min({m \in 0..Hour - 1 : AsleepAt(nights, g, m) = often(g)})
      answers == {[guard |-> g, minute |-> minute(g)] : g \in {h \in guards : Total(nights, h) = most}}
  IN  (\A g \in guards : often(g) < ByteSize) =>
        Main(lines) = IF most = 0 THEN {[guard |-> Nobody, minute |-> 0]} ELSE answers
=============================================================================
