------------------------ MODULE DispatchTimerProofs ------------------------
(***************************************************************************)
(* Theorems about DispatchTimer.tla, for any number of timers and any      *)
(* counts.  The counter ntimers is correct although the handler reads it   *)
(* without the queue that guards its updates, because timers are only      *)
(* created before the first handler runs, and handlers run one at a time.  *)
(***************************************************************************)
EXTENDS DispatchTimer, FiniteSetTheorems, SequenceTheorems, TLAPS

(* The inductive invariant: ntimers counts the active timers; a timer that
   was created and is no longer active has a count of zero, and stays so
   because its handler is not delivered again; handlers run only when all
   timers exist. *)
IInv ==
    /\ TypeOK
    /\ active \subseteq 1..(arg - 1)
    /\ ntimers = Cardinality(active)
    /\ \A t \in 1..(arg - 1) : t \notin active => count[t] = 0
    /\ pc # "create" => arg = NTimers + 1
    /\ pc \in {"print", "test"} => cur \in active
    /\ pc = "last" => cur \in Timers
    /\ pc \in {"sync", "exited"} => active = {}

(* Sets of timers are finite, and an empty one is one with no elements. *)
LEMMA TimerSets ==
  ASSUME NEW S \in SUBSET Timers
  PROVE  /\ IsFiniteSet(S)
         /\ Cardinality(S) \in 0..NTimers
         /\ Cardinality(S) = 0 <=> S = {}
  <1>1. IsFiniteSet(1..NTimers) /\ Cardinality(1..NTimers) = NTimers
    <2>1. 1 \in Int /\ NTimers \in Int
      BY TimersAssumption
    <2>2. /\ IsFiniteSet(1..NTimers)
          /\ Cardinality(1..NTimers) = IF 1 > NTimers THEN 0 ELSE NTimers - 1 + 1
      BY <2>1, FS_Interval
    <2>. QED
      BY <2>2, TimersAssumption
  <1>2. IsFiniteSet(S) /\ Cardinality(S) <= NTimers
    BY <1>1, FS_Subset DEF Timers
  <1>3. Cardinality(S) \in Nat
    BY <1>2, FS_CardinalityType
  <1>4. Cardinality(S) = 0 <=> S = {}
    BY <1>2, FS_EmptySet
  <1>. QED
    BY <1>2, <1>3, <1>4, TimersAssumption

(* A number of timers does not wrap. *)
LEMMA NoWrap ==
  ASSUME NEW n \in 0..NTimers
  PROVE  n % CountMod = n /\ n \in Counts
  BY TimersAssumption DEF Counts

LEMMA InvInit == Init => IInv
  <1>. SUFFICES ASSUME Init
                PROVE  IInv
    OBVIOUS
  <1>1. Cardinality({}) = 0
    BY FS_EmptySet
  <1>2. TypeOK
    BY TimersAssumption, StartAssumption DEF Init, TypeOK, Counts
  <1>. QED
    BY <1>1, <1>2 DEF Init, IInv

LEMMA InvStep == IInv /\ [Next]_vars => IInv'
  <1>. SUFFICES ASSUME IInv, [Next]_vars
                PROVE  IInv'
    OBVIOUS
  <1>. USE TimersAssumption, StartAssumption DEF IInv, TypeOK
  <1>1. CASE Create
    <2>1. arg \in Timers /\ arg \notin active /\ pc' = "create"
      BY <1>1 DEF Create, Timers
    <2>2. /\ IsFiniteSet(active)
          /\ Cardinality(active \cup {arg}) = Cardinality(active) + 1
      BY <2>1, TimerSets, FS_AddElement
    <2>3. Cardinality(active \cup {arg}) \in 0..NTimers
      BY <2>1, TimerSets
    <2>4. ntimers' = ntimers + 1 /\ ntimers' \in Counts
      BY <1>1, <2>2, <2>3, NoWrap DEF Create
    <2>5. count' = [count EXCEPT ![arg] = Start[arg]] /\ count' \in [Timers -> Counts]
      BY <1>1, <2>1 DEF Create
    <2>6. \A t \in 1..(arg' - 1) : t \notin active' => count'[t] = 0
      <3>1. arg' = arg + 1 /\ active' = active \cup {arg}
        BY <1>1 DEF Create
      <3>2. ASSUME NEW t \in 1..arg, t \notin active, t # arg
            PROVE  count'[t] = 0
        BY <2>1, <2>5, <3>2 DEF Timers
      <3>. QED
        BY <3>1, <3>2
    <2>7. TypeOK'
      <3>1. arg' \in 1..(NTimers + 1)
        BY <1>1 DEF Create
      <3>2. active' \subseteq Timers /\ due' \subseteq active'
        BY <1>1, <2>1 DEF Create
      <3>3. UNCHANGED <<pc, cur, queue, out>>
        BY <1>1 DEF Create
      <3>. QED
        BY <2>4, <2>5, <3>1, <3>2, <3>3
    <2>8. active' \subseteq 1..(arg' - 1)
      BY <1>1, <2>1 DEF Create, Timers
    <2>9. ntimers' = Cardinality(active') /\ pc' = "create"
      BY <1>1, <2>1, <2>2, <2>4 DEF Create
    <2>. QED
      BY <2>6, <2>7, <2>8, <2>9
  <1>2. CASE DispatchMain
    BY <1>2 DEF DispatchMain
  <1>3. ASSUME NEW t \in Timers, Handle(t)
        PROVE  IInv'
    <2>1. count'[t] \in Counts
      BY <1>3 DEF Handle, Decrement, Counts
    <2>. QED
      BY <1>3, <2>1 DEF Handle, Timers
  <1>4. CASE AsyncPrint
    <2>1. cur \in 0..NTimers /\ queue' = Append(queue, cur)
      BY <1>4 DEF AsyncPrint
    <2>2. queue' \in Seq(0..NTimers)
      BY <2>1, AppendProperties
    <2>. QED
      BY <1>4, <2>2 DEF AsyncPrint
  <1>5. CASE TestCount
    <2>1. CASE AtZero
      <3>1. cur \in active /\ active' = active \ {cur} /\ count[cur] = 0
        BY <1>5, <2>1 DEF TestCount, AtZero
      <3>2. Cardinality(active') = Cardinality(active) - 1
        BY <3>1, TimerSets, FS_RemoveElement
      <3>3. Cardinality(active') \in 0..NTimers
        BY <3>1, TimerSets
      <3>4. ntimers' = ntimers - 1 /\ ntimers' \in Counts
        BY <1>5, <2>1, <3>2, <3>3, NoWrap DEF TestCount
      <3>. QED
        BY <1>5, <2>1, <3>1, <3>2, <3>4 DEF TestCount, Timers
    <2>2. CASE ~AtZero
      BY <1>5, <2>2 DEF TestCount
    <2>. QED
      BY <2>1, <2>2
  <1>6. CASE LastTimer
    <2>1. active = {}
      BY <1>6, TimerSets DEF LastTimer, NoneLeft
    <2>2. Bye \in 0..NTimers /\ queue' = Append(queue, Bye)
      BY <1>6 DEF LastTimer, Bye
    <2>3. queue' \in Seq(0..NTimers)
      BY <2>2, AppendProperties
    <2>. QED
      BY <1>6, <2>1, <2>3 DEF LastTimer
  <1>7. CASE NotLastTimer
    BY <1>7 DEF NotLastTimer
  <1>8. CASE Exit
    BY <1>8 DEF Exit, SyncReturns
  <1>9. CASE PrintBlock
    <2>1. Head(queue) \in 0..NTimers /\ queue' \in Seq(0..NTimers)
      BY <1>9, HeadTailProperties DEF PrintBlock
    <2>2. Shown(Head(queue)) \in Counts
      BY <2>1 DEF Shown, Counts, Timers, Bye
    <2>3. out' \in Seq((0..NTimers) \X Counts)
      BY <1>9, <2>1, <2>2, AppendProperties DEF PrintBlock
    <2>. QED
      BY <1>9, <2>1, <2>3 DEF PrintBlock
  <1>10. ASSUME NEW t \in Timers, Fire(t)
         PROVE  IInv'
    BY <1>10 DEF Fire
  <1>11. CASE UNCHANGED vars
    BY <1>11 DEF vars
  <1>. QED
    BY <1>1, <1>2, <1>3, <1>4, <1>5, <1>6, <1>7, <1>8, <1>9, <1>10, <1>11
       DEF Next, Main, Sleep, Terminated

(* The invariant holds of every behaviour. *)
LEMMA Invariance == Spec => []IInv
  BY InvInit, InvStep, PTL DEF Spec

(* The variables of the program keep their types; in particular a print block
   shows a value of the counter's own range. *)
THEOREM TypeCorrect == Spec => []TypeOK
  BY Invariance, PTL DEF IInv

(* The program never says goodbye, and never exits, before every timer has
   been created and has counted down to zero. *)
THEOREM GoodbyeIsLast == Spec => []GoodbyeOnlyWhenDone
  <1>1. IInv => GoodbyeOnlyWhenDone
    BY TimersAssumption DEF IInv, GoodbyeOnlyWhenDone, Timers, TypeOK
  <1>. QED
    BY <1>1, Invariance, PTL

-----------------------------------------------------------------------------
(* What becomes of the ticks.  Every tick of a timer is, until it is printed, *)
(* in one place: about to be submitted, or in the print queue.               *)

QueuedOf(t) == {i \in DOMAIN queue : queue[i] = t}

Pending(t) == IF pc = "print" /\ cur = t THEN 1 ELSE 0

(* The ticks of a timer are the lines printed, those to be printed, and what
   is left. *)
Tallied ==
    \A t \in Timers :
        Cardinality(LinesOf(t)) + Cardinality(QueuedOf(t)) + Pending(t) + Left[t] = Ticks[t]

(* No line of a timer shows less than what is left. *)
LinesAbove == \A t \in Timers : \A i \in LinesOf(t) : Left[t] <= out[i][2]

(* The goodbye is submitted once and is the last of what is queued or printed. *)
ByeLast ==
    /\ pc \notin {"sync", "exited"} => QueuedOf(Bye) = {} /\ LinesOf(Bye) = {}
    /\ pc \in {"sync", "exited"} =>
          \/ pc = "sync" /\ QueuedOf(Bye) = {Len(queue)} /\ LinesOf(Bye) = {}
          \/ queue = <<>> /\ LinesOf(Bye) = {Len(out)}

Unstarted == \A t \in Timers : t >= arg => count[t] = Start[t]

TallyInv == Tallied /\ LinesAbove /\ ByeLast /\ Unstarted /\ NeverAhead


LEMMA OneMore ==
  ASSUME NEW n \in Nat, NEW A \in SUBSET (1..n)
  PROVE  /\ IsFiniteSet(A) /\ Cardinality(A) \in Nat
         /\ Cardinality(A \cup {n + 1}) = Cardinality(A) + 1
  <1>1. IsFiniteSet(A)
    <2>1. IsFiniteSet(1..n)
      BY FS_Interval
    <2>. QED
      BY <2>1, FS_Subset
  <1>2. n + 1 \notin A
    OBVIOUS
  <1>. QED
    BY <1>1, <1>2, FS_AddElement, FS_CardinalityType

(* A block is submitted. *)
LEMMA Submitted ==
  ASSUME IInv, NEW x \in 0..NTimers, queue' = Append(queue, x), NEW t
  PROVE  /\ Cardinality(QueuedOf(t)) \in Nat
         /\ x # t => QueuedOf(t)' = QueuedOf(t)
         /\ x = t => /\ QueuedOf(t)' = QueuedOf(t) \cup {Len(queue')}
                     /\ Cardinality(QueuedOf(t))' = Cardinality(QueuedOf(t)) + 1
  <1>1. queue \in Seq(0..NTimers) /\ Len(queue) \in Nat /\ DOMAIN queue = 1..Len(queue)
    BY LenProperties DEF IInv, TypeOK
  <1>2. /\ DOMAIN queue' = 1..(Len(queue) + 1) /\ Len(queue') = Len(queue) + 1
        /\ \A i \in 1..Len(queue) : queue'[i] = queue[i]
        /\ queue'[Len(queue) + 1] = x
    BY <1>1
  <1>3. QueuedOf(t)' = IF x = t THEN QueuedOf(t) \cup {Len(queue) + 1} ELSE QueuedOf(t)
    BY <1>1, <1>2 DEF QueuedOf
  <1>4. QueuedOf(t) \in SUBSET (1..Len(queue))
    BY <1>1 DEF QueuedOf
  <1>. QED
    BY <1>1, <1>2, <1>3, <1>4, OneMore

(* A line is printed. *)
LEMMA Printed ==
  ASSUME IInv, NEW x \in 0..NTimers, NEW n \in Counts, out' = Append(out, <<x, n>>), NEW t
  PROVE  /\ LinesOf(t) \in SUBSET (1..Len(out)) /\ Len(out) \in Nat
         /\ Cardinality(LinesOf(t)) \in Nat
         /\ Len(out') = Len(out) + 1 /\ out'[Len(out')] = <<x, n>>
         /\ \A i \in 1..Len(out) : out'[i] = out[i]
         /\ x # t => LinesOf(t)' = LinesOf(t)
         /\ x = t => /\ LinesOf(t)' = LinesOf(t) \cup {Len(out')}
                     /\ Cardinality(LinesOf(t))' = Cardinality(LinesOf(t)) + 1
  <1>1. /\ out \in Seq((0..NTimers) \X Counts) /\ Len(out) \in Nat
        /\ DOMAIN out = 1..Len(out)
    BY LenProperties DEF IInv, TypeOK
  <1>2. /\ DOMAIN out' = 1..(Len(out) + 1) /\ Len(out') = Len(out) + 1
        /\ \A i \in 1..Len(out) : out'[i] = out[i]
        /\ out'[Len(out) + 1] = <<x, n>>
    BY <1>1
  <1>3. LinesOf(t)' = IF x = t THEN LinesOf(t) \cup {Len(out) + 1} ELSE LinesOf(t)
    BY <1>1, <1>2 DEF LinesOf
  <1>4. LinesOf(t) \in SUBSET (1..Len(out))
    BY <1>1 DEF LinesOf
  <1>. QED
    BY <1>1, <1>2, <1>3, <1>4, OneMore

(* A block is taken out of the queue. *)
LEMMA Taken ==
  ASSUME IInv, queue # <<>>, queue' = Tail(queue), NEW t
  PROVE  /\ Cardinality(QueuedOf(t)) \in Nat /\ Cardinality(QueuedOf(t))' \in Nat
         /\ Cardinality(QueuedOf(t)) =
              Cardinality(QueuedOf(t))' + (IF Head(queue) = t THEN 1 ELSE 0)
  <1>. DEFINE q == queue
              A == QueuedOf(t)
              B == QueuedOf(t)'
              f == [i \in B |-> i + 1]
  <1>1. q \in Seq(0..NTimers) /\ Len(q) \in Nat \ {0} /\ DOMAIN q = 1..Len(q)
    BY LenProperties, EmptySeq DEF IInv, TypeOK
  <1>2. /\ DOMAIN Tail(q) = 1..(Len(q) - 1)
        /\ \A i \in 1..(Len(q) - 1) : Tail(q)[i] = q[i + 1]
        /\ Head(q) = q[1]
    BY <1>1
  <1>3. IsFiniteSet(A) /\ IsFiniteSet(B)
    <2>1. A \subseteq 1..Len(q) /\ B \subseteq 1..Len(q) /\ IsFiniteSet(1..Len(q))
      BY <1>1, <1>2, FS_Interval DEF QueuedOf
    <2>. QED
      BY <2>1, FS_Subset
  <1>4. f \in Bijection(B, A \ {1})
    <2>1. f \in [B -> A \ {1}]
      BY <1>1, <1>2 DEF QueuedOf
    <2>2. \A i, j \in B : f[i] = f[j] => i = j
      BY <1>2 DEF QueuedOf
    <2>3. \A j \in A \ {1} : j - 1 \in B /\ f[j - 1] = j
      BY <1>1, <1>2 DEF QueuedOf
    <2>. QED
      BY <2>1, <2>2, <2>3 DEF Bijection, Injection, Surjection, IsInjective
  <1>5. Cardinality(A \ {1}) = Cardinality(B)
    BY <1>3, <1>4, FS_Bijection DEF ExistsBijection
  <1>6. 1 \in A <=> Head(q) = t
    BY <1>1, <1>2 DEF QueuedOf
  <1>7. Cardinality(A \ {1}) = IF 1 \in A THEN Cardinality(A) - 1 ELSE Cardinality(A)
    BY <1>3, FS_RemoveElement
  <1>8. Cardinality(A) \in Nat /\ Cardinality(B) \in Nat
    BY <1>3, FS_CardinalityType
  <1>. HIDE DEF A, B
  <1>9. Cardinality(A) = Cardinality(B) + (IF Head(q) = t THEN 1 ELSE 0)
    BY <1>5, <1>6, <1>7, <1>8
  <1>. QED
    BY <1>8, <1>9 DEF A, B


LEMMA LeftType ==
  ASSUME IInv, NEW t \in Timers
  PROVE  /\ Left[t] \in 0..CountMod /\ count[t] \in 0..CountMod - 1
         /\ Left[t] = IF count[t] = 0 /\ Untouched(t) THEN CountMod ELSE count[t]
         /\ Ticks[t] = IF Start[t] = 0 THEN CountMod ELSE Start[t]
         /\ Ticks[t] \in 1..CountMod
  BY TimersAssumption, StartAssumption DEF IInv, TypeOK, Left, Ticks, Counts

(* Only a handler that begins takes something off what is left. *)
LEMMA HandleTicks ==
  ASSUME IInv, NEW t \in Timers, Handle(t)
  PROVE  Left[t] > 0 /\ Left' = [Left EXCEPT ![t] = @ - 1]
  <1>1. /\ t \in active /\ cur' = t /\ pc' = "print" /\ pc = "idle"
        /\ count' = [count EXCEPT ![t] = Decrement(@)]
        /\ active' = active /\ arg' = arg
    BY DEF Handle, IInv, TypeOK
  <1>2. Untouched(t) /\ ~Untouched(t)'
    BY <1>1 DEF Untouched
  <1>3. Left[t] > 0 /\ Left'[t] = Left[t] - 1
    <2>1. count'[t] = (count[t] - 1) % CountMod
      BY <1>1 DEF Decrement, IInv, TypeOK
    <2>2. count[t] = 0 => (count[t] - 1) % CountMod = CountMod - 1
      BY TimersAssumption
    <2>3. count[t] > 0 => (count[t] - 1) % CountMod = count[t] - 1
      BY LeftType, TimersAssumption
    <2>4. Left'[t] = count'[t]
      BY <1>2 DEF Left
    <2>. QED
      BY <1>2, <2>1, <2>2, <2>3, <2>4, LeftType, TimersAssumption
  <1>4. ASSUME NEW u \in Timers, u # t
        PROVE  Left'[u] = Left[u]
    <2>1. Untouched(u)' <=> Untouched(u)
      BY <1>1, <1>4 DEF Untouched
    <2>2. count'[u] = count[u]
      BY <1>1, <1>4 DEF IInv, TypeOK
    <2>. QED
      BY <2>1, <2>2 DEF Left
  <1>. QED
    BY <1>3, <1>4 DEF Left

LEMMA OthersLeave ==
  ASSUME IInv, Unstarted, [Next]_vars, \A t \in Timers : ~Handle(t)
  PROVE  Left' = Left
  <1>. SUFFICES ASSUME NEW t \in Timers
                PROVE  Left'[t] = Left[t]
    BY DEF Left
  <1>. USE DEF IInv, TypeOK
  <1>1. CASE Create
    <2>1. arg \in Timers /\ count' = count
      BY <1>1 DEF Create, Unstarted, Timers
    <2>2. Untouched(t)' <=> Untouched(t)
      BY <1>1, <2>1 DEF Create, Untouched, Timers
    <2>. QED
      BY <2>1, <2>2 DEF Left
  <1>2. CASE TestCount
    <2>1. count' = count /\ cur \in Timers /\ cur' = cur /\ arg' = arg /\ arg > t
      <3>1. arg = NTimers + 1 /\ cur \in active
        BY <1>2 DEF TestCount
      <3>2. arg > t
        BY <3>1, TimersAssumption DEF Timers
      <3>. QED
        BY <1>2, <3>1, <3>2 DEF TestCount
    <2>2. CASE t = cur
      <3>1. ~Untouched(t)
        BY <1>2, <2>2 DEF TestCount, Untouched
      <3>2. count[t] = 0 => ~Untouched(t)'
        BY <1>2, <2>1, <2>2 DEF TestCount, Untouched, AtZero, Timers
      <3>. QED
        BY <2>1, <3>1, <3>2 DEF Left
    <2>3. CASE t # cur
      <3>1. Untouched(t)' <=> Untouched(t)
        BY <1>2, <2>1, <2>3 DEF TestCount, Untouched
      <3>. QED
        BY <2>1, <3>1 DEF Left
    <2>. QED
      BY <2>2, <2>3
  <1>3. CASE DispatchMain \/ AsyncPrint \/ LastTimer \/ NotLastTimer \/ Exit \/ PrintBlock
    <2>1. count' = count /\ active' = active /\ arg' = arg
      BY <1>3 DEF DispatchMain, AsyncPrint, LastTimer, NotLastTimer, Exit, PrintBlock
    <2>2. (t = cur /\ pc \in {"print", "test"})' <=> (t = cur /\ pc \in {"print", "test"})
      BY <1>3 DEF DispatchMain, AsyncPrint, LastTimer, NotLastTimer, Exit, SyncReturns,
                  PrintBlock
    <2>. QED
      BY <2>1, <2>2 DEF Left, Untouched
  <1>4. ASSUME NEW u \in Timers, Fire(u)
        PROVE  Left'[t] = Left[t]
    BY <1>4 DEF Fire, Left, Untouched
  <1>5. CASE UNCHANGED vars
    BY <1>5 DEF vars, Left, Untouched
  <1>. QED
    BY <1>1, <1>2, <1>3, <1>4, <1>5 DEF Next, Main, Sleep, Terminated


LEMMA TallyInit == Init => TallyInv
  <1>. SUFFICES ASSUME Init
                PROVE  TallyInv
    OBVIOUS
  <1>1. IInv
    BY InvInit
  <1>2. \A t : LinesOf(t) = {} /\ QueuedOf(t) = {}
    BY DEF Init, LinesOf, QueuedOf
  <1>3. ASSUME NEW t \in Timers
        PROVE  Left[t] = Ticks[t]
    <2>1. count[t] = Start[t] /\ Untouched(t)
      BY DEF Init, Untouched, Timers
    <2>. QED
      BY <1>1, <2>1, LeftType
  <1>4. Tallied
    <2>1. ASSUME NEW t \in Timers
          PROVE  /\ Cardinality(LinesOf(t)) = 0 /\ Cardinality(QueuedOf(t)) = 0
                 /\ Pending(t) = 0 /\ Left[t] = Ticks[t] /\ Ticks[t] \in Int
      <3>1. Cardinality(LinesOf(t)) = 0 /\ Cardinality(QueuedOf(t)) = 0
        BY <1>2, FS_EmptySet, Zenon
      <3>2. Pending(t) = 0
        BY DEF Init, Pending
      <3>3. Ticks[t] \in Int
        BY <1>1, LeftType, TimersAssumption
      <3>. QED
        BY <1>3, <3>1, <3>2, <3>3
    <2>. QED
      BY <2>1 DEF Tallied
  <1>. QED
    BY <1>2, <1>4 DEF Init, TallyInv, LinesAbove, ByeLast, Unstarted, NeverAhead

(* What a block prints is what is left of its timer, for it has ticked. *)
LEMMA ShownIsLeft ==
  ASSUME IInv, TallyInv, queue # <<>>, Head(queue) \in Timers
  PROVE  Shown(Head(queue)) = Left[Head(queue)]
  <1>. DEFINE t == Head(queue)
  <1>1. 1 \in QueuedOf(t)
    BY HeadTailProperties, EmptySeq, LenProperties DEF QueuedOf, IInv, TypeOK
  <1>2. Cardinality(QueuedOf(t)) \in Nat \ {0}
    <2>1. IsFiniteSet(QueuedOf(t))
      BY OneMore, LenProperties DEF QueuedOf, IInv, TypeOK
    <2>. QED
      BY <1>1, <2>1, FS_EmptySet, FS_CardinalityType
  <1>3. Cardinality(LinesOf(t)) \in Nat
    BY OneMore, LenProperties DEF LinesOf, IInv, TypeOK
  <1>4. Left[t] < Ticks[t]
    BY <1>2, <1>3, LeftType DEF TallyInv, Tallied, Pending
  <1>5. Left[t] = count[t]
    BY <1>4, LeftType, TimersAssumption
  <1>. QED
    BY <1>5 DEF Shown, Bye, Timers

LEMMA NothingPrinted ==
  ASSUME IInv, TallyInv, UNCHANGED out, \A t \in Timers : Left'[t] <= Left[t],
         Left' \in [Timers -> Int], Left \in [Timers -> Int]
  PROVE  LinesAbove' /\ NeverAhead'
  <1>1. \A t : LinesOf(t)' = LinesOf(t)
    BY DEF LinesOf
  <1>2. NeverAhead'
    BY <1>1 DEF NeverAhead, TallyInv
  <1>3. \A t \in Timers : \A i \in LinesOf(t) : out[i][2] \in Int
    BY DEF LinesOf, IInv, TypeOK, Counts
  <1>4. LinesAbove'
    BY <1>1, <1>3 DEF LinesAbove, TallyInv
  <1>. QED
    BY <1>2, <1>4

(* What is last in a queue is last in its tail. *)
LEMMA LastOfTail ==
  ASSUME NEW q \in Seq(0..NTimers), q # <<>>, NEW t, Head(q) # t,
         {i \in DOMAIN q : q[i] = t} = {Len(q)}
  PROVE  {i \in DOMAIN Tail(q) : Tail(q)[i] = t} = {Len(Tail(q))}
  <1>1. /\ Len(q) \in Nat \ {0} /\ DOMAIN q = 1..Len(q)
        /\ Len(Tail(q)) = Len(q) - 1 /\ DOMAIN Tail(q) = 1..(Len(q) - 1)
        /\ Head(q) = q[1]
    BY EmptySeq, LenProperties, HeadTailProperties
  <1>2. \A i \in 1..(Len(q) - 1) : Tail(q)[i] = q[i + 1]
    BY <1>1
  <1>3. q[Len(q)] = t /\ \A i \in 1..Len(q) : q[i] = t => i = Len(q)
    BY <1>1
  <1>4. Len(q) # 1
    BY <1>1, <1>3
  <1>. DEFINE n == Len(q)
              tl == Tail(q)
  <1>5. n \in Nat /\ n > 1 /\ DOMAIN tl = 1..(n - 1) /\ Len(tl) = n - 1
    BY <1>1, <1>4
  <1>6. \A i \in 1..(n - 1) : tl[i] = t <=> i = n - 1
    <2>. SUFFICES ASSUME NEW i \in 1..(n - 1)
                  PROVE  tl[i] = t <=> i = n - 1
      OBVIOUS
    <2>1. tl[i] = q[i + 1] /\ i + 1 \in 1..n
      BY <1>2, <1>5
    <2>2. q[i + 1] = t <=> i + 1 = n
      BY <1>3, <2>1
    <2>. HIDE DEF n, tl
    <2>. QED
      BY <1>5, <2>1, <2>2
  <1>. HIDE DEF n, tl
  <1>7. {i \in DOMAIN tl : tl[i] = t} = {Len(tl)}
    BY <1>5, <1>6
  <1>. QED
    BY <1>7 DEF tl

LEMMA CountedPlaces ==
  ASSUME IInv, NEW t
  PROVE  Cardinality(LinesOf(t)) \in Nat /\ Cardinality(QueuedOf(t)) \in Nat
  BY OneMore, LenProperties DEF LinesOf, QueuedOf, IInv, TypeOK

(* A line is the next of its timer, shows what is left, and so is ahead of
   nothing. *)
LEMMA PrintTallies ==
  ASSUME IInv, TallyInv, IInv', PrintBlock, Left' = Left, Unstarted'
  PROVE  TallyInv'
  <1>. DEFINE x == Head(queue)
              n == Shown(x)
  <1>1. /\ x \in 0..NTimers /\ queue # <<>> /\ queue' = Tail(queue)
        /\ out' = Append(out, <<x, n>>)
        /\ pc' = pc /\ cur' = cur /\ pc # "exited"
    BY HeadTailProperties DEF PrintBlock, IInv, TypeOK
  <1>2. n \in Counts /\ (x \in Timers => n = Left[x])
    <2>1. x \in Timers => n = Left[x] /\ n = count[x]
      BY <1>1, ShownIsLeft DEF Shown, Bye, Timers
    <2>2. x \notin Timers => n = 0
      BY <1>1 DEF Shown, Bye, Timers
    <2>. QED
      <3>1. x \in Timers => count[x] \in Counts
        BY DEF IInv, TypeOK
      <3>2. 0 \in Counts
        BY TimersAssumption DEF Counts
      <3>. HIDE DEF x, n
      <3>. QED
        BY <2>1, <2>2, <3>1, <3>2
  <1>. HIDE DEF x, n
  <1>3. Tallied'
    <2>. SUFFICES ASSUME NEW u \in Timers
                  PROVE  (Cardinality(LinesOf(u)) + Cardinality(QueuedOf(u))
                            + Pending(u) + Left[u] = Ticks[u])'
      BY DEF Tallied
    <2>1. Cardinality(LinesOf(u)) + Cardinality(QueuedOf(u)) + Pending(u) + Left[u] = Ticks[u]
      BY DEF Tallied, TallyInv
    <2>2. Pending(u)' = Pending(u) /\ Pending(u) \in Nat
      BY <1>1 DEF Pending
    <2>3. /\ Cardinality(QueuedOf(u)) \in Nat /\ Cardinality(QueuedOf(u))' \in Nat
          /\ Cardinality(QueuedOf(u)) =
               Cardinality(QueuedOf(u))' + (IF x = u THEN 1 ELSE 0)
      BY <1>1, Taken DEF x
    <2>4. /\ Cardinality(LinesOf(u)) \in Nat
          /\ Cardinality(LinesOf(u))' = Cardinality(LinesOf(u)) + (IF x = u THEN 1 ELSE 0)
      <3>1. /\ Cardinality(LinesOf(u)) \in Nat
            /\ x # u => LinesOf(u)' = LinesOf(u)
            /\ x = u => Cardinality(LinesOf(u))' = Cardinality(LinesOf(u)) + 1
        BY <1>1, <1>2, Printed
      <3>2. CASE x = u
        BY <3>1, <3>2
      <3>3. CASE x # u
        BY <3>1, <3>3
      <3>. QED
        BY <3>2, <3>3
    <2>5. Left[u] \in Int
      BY LeftType
    <2>. QED
      BY <2>1, <2>2, <2>3, <2>4, <2>5
  <1>4. LinesAbove'
    <2>. SUFFICES ASSUME NEW u \in Timers, NEW i \in LinesOf(u)'
                  PROVE  Left[u] <= out'[i][2]
      BY DEF LinesAbove
    <2>1. CASE i \in LinesOf(u)
      BY <1>1, <1>2, <2>1, Printed DEF LinesAbove, TallyInv
    <2>2. CASE i \notin LinesOf(u)
      <3>1. x = u /\ out'[i] = <<x, n>>
        BY <1>1, <1>2, <2>2, Printed
      <3>. QED
        BY <1>2, <3>1, LeftType
    <2>. QED
      BY <2>1, <2>2
  <1>5. NeverAhead'
    <2>. SUFFICES ASSUME NEW u \in Timers, NEW i \in LinesOf(u)'
                  PROVE  /\ out'[i][2] <= Ticks[u] - Cardinality({j \in LinesOf(u)' : j <= i})
                         /\ \A j \in LinesOf(u)' : j <= i => out'[i][2] <= out'[j][2]
      BY DEF NeverAhead
    <2>1. /\ LinesOf(u) \in SUBSET (1..Len(out)) /\ Len(out) \in Nat
          /\ Len(out') = Len(out) + 1 /\ out'[Len(out')] = <<x, n>>
          /\ \A k \in 1..Len(out) : out'[k] = out[k]
          /\ x # u => LinesOf(u)' = LinesOf(u)
          /\ x = u => LinesOf(u)' = LinesOf(u) \cup {Len(out')}
      BY <1>1, <1>2, Printed
    <2>2. CASE i \in LinesOf(u)
      <3>1. {j \in LinesOf(u)' : j <= i} = {j \in LinesOf(u) : j <= i}
        BY <2>1, <2>2
      <3>2. \A j \in LinesOf(u)' : j <= i => j \in LinesOf(u) /\ out'[j] = out[j]
        BY <2>1, <2>2
      <3>3. out'[i] = out[i]
        BY <2>1, <2>2
      <3>4. /\ out[i][2] <= Ticks[u] - Cardinality({j \in LinesOf(u) : j <= i})
            /\ \A j \in LinesOf(u) : j <= i => out[i][2] <= out[j][2]
        BY <2>2 DEF NeverAhead, TallyInv
      <3>. QED
        BY <3>1, <3>2, <3>3, <3>4
    <2>3. CASE i \notin LinesOf(u)
      <3>1. x = u /\ i = Len(out') /\ out'[i][2] = Left[u]
        BY <1>2, <2>1, <2>3
      <3>2. {j \in LinesOf(u)' : j <= i} = LinesOf(u)'
        BY <2>1, <3>1
      <3>3. Left[u] <= Ticks[u] - Cardinality(LinesOf(u))'
        <4>1. /\ Cardinality(LinesOf(u))' \in Nat /\ Cardinality(QueuedOf(u))' \in Nat
          BY <1>1, <1>2, Printed, Taken
        <4>2. (Cardinality(LinesOf(u)) + Cardinality(QueuedOf(u)) + Pending(u) + Left[u] = Ticks[u])'
          BY <1>3 DEF Tallied
        <4>3. Pending(u)' \in Nat /\ Ticks[u] \in Int /\ Left[u] \in Int
          BY LeftType DEF Pending
        <4>. QED
          BY <4>1, <4>2, <4>3
      <3>4. \A j \in LinesOf(u)' : Left[u] <= out'[j][2]
        BY <1>4 DEF LinesAbove
      <3>. QED
        BY <3>1, <3>2, <3>3, <3>4
    <2>. QED
      BY <2>2, <2>3
  <1>6. ByeLast'
    <2>1. CASE x = Bye
      <3>1. 1 \in QueuedOf(Bye) /\ Len(queue) \in Nat \ {0}
        <4>1. /\ Len(queue) \in Nat \ {0} /\ DOMAIN queue = 1..Len(queue)
              /\ x = queue[1]
          BY <1>1, EmptySeq, LenProperties DEF IInv, TypeOK, x
        <4>. QED
          BY <2>1, <4>1 DEF QueuedOf
      <3>2. pc = "sync" /\ QueuedOf(Bye) = {Len(queue)} /\ LinesOf(Bye) = {}
        BY <1>1, <3>1 DEF ByeLast, TallyInv
      <3>3. queue' = <<>>
        <4>1. queue \in Seq(0..NTimers) /\ Len(queue) = 1
          BY <3>1, <3>2 DEF IInv, TypeOK
        <4>2. queue' \in Seq(0..NTimers) /\ Len(queue') = 0
          BY <1>1, <4>1, HeadTailProperties
        <4>. QED
          BY <4>2, EmptySeq
      <3>4. LinesOf(Bye)' = {Len(out')}
        BY <1>1, <1>2, <2>1, <3>2, Printed
      <3>. QED
        BY <1>1, <3>2, <3>3, <3>4 DEF ByeLast
    <2>2. CASE x # Bye
      <3>1. LinesOf(Bye)' = LinesOf(Bye)
        BY <1>1, <1>2, <2>2, Printed
      <3>2. queue \in Seq(0..NTimers) /\ queue # <<>> /\ queue' = Tail(queue) /\ x = Head(queue)
        BY <1>1 DEF IInv, TypeOK, x
      <3>3. QueuedOf(Bye) = {} => QueuedOf(Bye)' = {}
        BY <3>2, HeadTailProperties, LenProperties, EmptySeq DEF QueuedOf
      <3>4. QueuedOf(Bye) = {Len(queue)} => QueuedOf(Bye)' = {Len(queue')}
        BY <2>2, <3>2, LastOfTail DEF QueuedOf
      <3>. QED
        BY <1>1, <3>1, <3>3, <3>4 DEF ByeLast, TallyInv
    <2>. QED
      BY <2>1, <2>2
  <1>. QED
    BY <1>3, <1>4, <1>5, <1>6 DEF TallyInv

LEMMA TallyStep == IInv /\ TallyInv /\ IInv' /\ [Next]_vars => TallyInv'
  <1>. SUFFICES ASSUME IInv, TallyInv, IInv', [Next]_vars
                PROVE  TallyInv'
    OBVIOUS
  <1>0. Left \in [Timers -> Int] /\ Left' \in [Timers -> Int]
    <2>1. \A t \in Timers : Left[t] \in Int
      BY LeftType
    <2>2. \A t \in Timers : Left'[t] \in Int
      BY TimersAssumption DEF IInv, TypeOK, Left, Counts
    <2>. QED
      BY <2>1, <2>2 DEF Left
  <1>1. Unstarted'
    <2>1. CASE Create
      BY <2>1, TimersAssumption DEF Create, Unstarted, TallyInv, IInv, TypeOK, Timers
    <2>2. ASSUME NEW t \in Timers, Handle(t)
          PROVE  Unstarted'
      BY <2>2, TimersAssumption DEF Handle, Unstarted, TallyInv, IInv, TypeOK, Timers
    <2>. QED
      BY <2>1, <2>2 DEF Next, Main, DispatchMain, AsyncPrint, TestCount, LastTimer,
           NotLastTimer, Exit, PrintBlock, Sleep, Terminated, Fire, vars, Unstarted, TallyInv
  <1>2. ASSUME NEW t \in Timers, Handle(t)
        PROVE  TallyInv'
    <2>1. UNCHANGED <<queue, out>> /\ pc = "idle" /\ pc' = "print" /\ cur' = t
      BY <1>2 DEF Handle
    <2>2. \A u : LinesOf(u)' = LinesOf(u) /\ QueuedOf(u)' = QueuedOf(u)
      BY <2>1 DEF LinesOf, QueuedOf
    <2>3. ByeLast'
      BY <2>1, <2>2 DEF ByeLast, TallyInv
    <2>4. Left[t] > 0 /\ Left' = [Left EXCEPT ![t] = @ - 1]
      BY <1>2, HandleTicks
    <2>5. Tallied'
      <3>. SUFFICES ASSUME NEW u \in Timers
                    PROVE  (Cardinality(LinesOf(u)) + Cardinality(QueuedOf(u))
                              + Pending(u) + Left[u] = Ticks[u])'
        BY DEF Tallied
      <3>1. Cardinality(LinesOf(u)) + Cardinality(QueuedOf(u)) + Pending(u) + Left[u] = Ticks[u]
        BY DEF Tallied, TallyInv
      <3>2. /\ Pending(u) = 0 /\ Pending(u)' = (IF u = t THEN 1 ELSE 0)
            /\ Left'[u] = IF u = t THEN Left[u] - 1 ELSE Left[u]
        BY <1>0, <2>1, <2>4 DEF Pending
      <3>3. Cardinality(LinesOf(u)) \in Nat /\ Cardinality(QueuedOf(u)) \in Nat /\ Left[u] \in Int
        BY <1>0, CountedPlaces
      <3>. QED
        BY <2>2, <3>1, <3>2, <3>3
    <2>6. \A u \in Timers : Left'[u] <= Left[u]
      BY <1>0, <2>4
    <2>. QED
      BY <1>0, <1>1, <2>1, <2>3, <2>5, <2>6, NothingPrinted DEF TallyInv
  <1>3. CASE \A t \in Timers : ~Handle(t)
    <2>0. Left' = Left
      BY <1>3, OthersLeave DEF TallyInv
    <2>1. CASE AsyncPrint
      <3>1. /\ cur \in Timers /\ queue' = Append(queue, cur) /\ out' = out
            /\ pc = "print" /\ pc' = "test" /\ cur' = cur
        BY <2>1 DEF AsyncPrint, IInv, TypeOK
      <3>2. \A u : LinesOf(u)' = LinesOf(u)
        BY <3>1 DEF LinesOf
      <3>3. Tallied'
        <4>. SUFFICES ASSUME NEW u \in Timers
                      PROVE  (Cardinality(LinesOf(u)) + Cardinality(QueuedOf(u))
                                + Pending(u) + Left[u] = Ticks[u])'
          BY DEF Tallied
        <4>1. Cardinality(LinesOf(u)) + Cardinality(QueuedOf(u)) + Pending(u) + Left[u] = Ticks[u]
          BY DEF Tallied, TallyInv
        <4>2. Pending(u) = (IF cur = u THEN 1 ELSE 0) /\ Pending(u)' = 0
          BY <3>1 DEF Pending
        <4>3. Cardinality(QueuedOf(u))' = Cardinality(QueuedOf(u)) + Pending(u)
          BY <3>1, <4>2, Submitted DEF Timers
        <4>4. Cardinality(LinesOf(u)) \in Nat /\ Cardinality(QueuedOf(u)) \in Nat /\ Left[u] \in Int
          BY <1>0, CountedPlaces
        <4>. QED
          BY <2>0, <3>2, <4>1, <4>2, <4>3, <4>4
      <3>4. ByeLast'
        <4>1. QueuedOf(Bye)' = QueuedOf(Bye)
          BY <3>1, Submitted DEF Timers, Bye
        <4>. QED
          BY <3>1, <3>2, <4>1 DEF ByeLast, TallyInv
      <3>. QED
        BY <1>0, <1>1, <2>0, <3>1, <3>3, <3>4, NothingPrinted DEF TallyInv
    <2>2. CASE LastTimer
      <3>1. /\ Bye \in 0..NTimers /\ queue' = Append(queue, Bye) /\ out' = out
            /\ pc = "last" /\ pc' = "sync" /\ cur' = cur
        BY <2>2, TimersAssumption DEF LastTimer, Bye
      <3>2. \A u : LinesOf(u)' = LinesOf(u)
        BY <3>1 DEF LinesOf
      <3>3. Tallied'
        <4>. SUFFICES ASSUME NEW u \in Timers
                      PROVE  (Cardinality(LinesOf(u)) + Cardinality(QueuedOf(u))
                                + Pending(u) + Left[u] = Ticks[u])'
          BY DEF Tallied
        <4>1. Pending(u) = 0 /\ Pending(u)' = 0
          BY <3>1 DEF Pending
        <4>2. QueuedOf(u)' = QueuedOf(u)
          BY <3>1, Submitted DEF Timers, Bye
        <4>. QED
          BY <2>0, <3>2, <4>1, <4>2 DEF Tallied, TallyInv
      <3>4. ByeLast'
        <4>1. QueuedOf(Bye) = {} /\ LinesOf(Bye) = {}
          BY <3>1 DEF ByeLast, TallyInv
        <4>2. QueuedOf(Bye)' = {Len(queue')}
          BY <3>1, <4>1, Submitted
        <4>. QED
          BY <3>1, <3>2, <4>1, <4>2 DEF ByeLast
      <3>. QED
        BY <1>0, <1>1, <2>0, <3>1, <3>3, <3>4, NothingPrinted DEF TallyInv
    <2>3. CASE PrintBlock
      BY <2>0, <2>3, <1>1, PrintTallies
    <2>4. CASE ~(AsyncPrint \/ LastTimer \/ PrintBlock)
      <3>1. UNCHANGED <<queue, out>>
        BY <1>3, <2>4 DEF Next, Main, Create, DispatchMain, TestCount, NotLastTimer, Exit,
             Sleep, Terminated, Fire, vars
      <3>2. \A u : LinesOf(u)' = LinesOf(u) /\ QueuedOf(u)' = QueuedOf(u)
        BY <3>1 DEF LinesOf, QueuedOf
      <3>3. \A u \in Timers : Pending(u)' = Pending(u)
        BY <1>3, <2>4 DEF Next, Main, Create, DispatchMain, TestCount, NotLastTimer, Exit,
             SyncReturns, Sleep, Terminated, Fire, vars, Pending
      <3>4. Tallied'
        BY <2>0, <3>2, <3>3 DEF Tallied, TallyInv
      <3>5. ByeLast'
        <4>1. CASE Exit
          BY <3>1, <3>2, <4>1 DEF Exit, SyncReturns, ByeLast, TallyInv, LinesOf
        <4>2. CASE ~Exit
          <5>1. (pc \in {"sync", "exited"})' <=> pc \in {"sync", "exited"}
            BY <1>3, <2>4, <4>2 DEF Next, Main, Create, DispatchMain, TestCount,
                 NotLastTimer, Sleep, Terminated, Fire, vars
          <5>2. pc = "sync" => pc' = "sync"
            BY <1>3, <2>4, <4>2 DEF Next, Main, Create, DispatchMain, TestCount,
                 NotLastTimer, Sleep, Terminated, Fire, vars
          <5>. QED
            BY <3>1, <3>2, <5>1, <5>2 DEF ByeLast, TallyInv
        <4>. QED
          BY <4>1, <4>2
      <3>. QED
        BY <1>0, <1>1, <2>0, <3>1, <3>4, <3>5, NothingPrinted DEF TallyInv
    <2>. QED
      BY <2>1, <2>2, <2>3, <2>4
  <1>. QED
    BY <1>2, <1>3


LEMMA TallyInvariance == Spec => [](IInv /\ TallyInv)
  <1>1. IInv /\ TallyInv /\ [Next]_vars => (IInv /\ TallyInv)'
    BY InvStep, TallyStep
  <1>. QED
    BY <1>1, InvInit, TallyInit, PTL DEF Spec

(* A print block that runs late shows a smaller count of its timer, never a
   larger one, although it reads the variable the handlers decrement. *)
THEOREM LinesNeverAhead == Spec => []NeverAhead
  BY TallyInvariance, PTL DEF TallyInv

(* When all timers are done nothing is left of any. *)
LEMMA DoneLeavesNothing ==
  ASSUME IInv, pc \in {"sync", "exited"}, NEW t \in Timers
  PROVE  Left[t] = 0
  <1>1. t \in 1..(arg - 1) /\ active = {} /\ arg = NTimers + 1
    BY TimersAssumption DEF IInv, Timers
  <1>2. count[t] = 0 /\ ~Untouched(t)
    BY <1>1, TimersAssumption DEF IInv, Untouched, Timers
  <1>. QED
    BY <1>2, LeftType

(* exit(0) loses no line: every tick of every timer has been printed, the last
   line of a timer shows 0 and the goodbye is the last line of all, for any
   number of timers and any interleaving of handlers and print blocks. *)
THEOREM ExitLosesNothing == Spec => []NothingLost
  <1>1. IInv /\ TallyInv => NothingLost
    <2>. SUFFICES ASSUME IInv, TallyInv, pc = "exited"
                  PROVE  /\ queue = <<>> /\ LinesOf(Bye) = {Len(out)}
                         /\ \A t \in Timers :
                              /\ Cardinality(LinesOf(t)) = Ticks[t]
                              /\ \A i \in LinesOf(t) :
                                    (\A j \in LinesOf(t) : j <= i) => out[i][2] = 0
      BY DEF NothingLost
    <2>1. queue = <<>> /\ LinesOf(Bye) = {Len(out)}
      BY DEF ByeLast, TallyInv
    <2>2. ASSUME NEW t \in Timers
          PROVE  Cardinality(LinesOf(t)) = Ticks[t]
      <3>1. QueuedOf(t) = {}
        BY <2>1 DEF QueuedOf
      <3>2. Cardinality(QueuedOf(t)) = 0 /\ Pending(t) = 0 /\ Left[t] = 0
        BY <3>1, DoneLeavesNothing, FS_EmptySet DEF Pending
      <3>. QED
        BY <3>2, CountedPlaces DEF Tallied, TallyInv
    <2>3. ASSUME NEW t \in Timers, NEW i \in LinesOf(t), \A j \in LinesOf(t) : j <= i
          PROVE  out[i][2] = 0
      <3>1. {j \in LinesOf(t) : j <= i} = LinesOf(t)
        BY <2>3
      <3>2. out[i][2] <= Ticks[t] - Ticks[t]
        BY <2>2, <3>1 DEF NeverAhead, TallyInv
      <3>3. out[i][2] \in Nat
        BY TimersAssumption DEF LinesOf, IInv, TypeOK, Counts
      <3>. QED
        BY <3>2, <3>3, LeftType
    <2>. QED
      BY <2>1, <2>2, <2>3
  <1>. QED
    BY <1>1, TallyInvariance, PTL

(* The handlers' wrapping counters, the coalesced events and the two queues
   implement the countdown: every step ticks one timer that has something left,
   says the only goodbye after all are done, or is not seen. *)
THEOREM ImplementsCountdown == Spec => Abstract!CountdownSteps
  <1>1. Init => Abstract!CountdownInit
    <2>. SUFFICES ASSUME Init
                  PROVE  Left = Ticks /\ (pc = "exited") = FALSE
      BY DEF Abstract!CountdownInit
    <2>1. \A t \in Timers : Left[t] = Ticks[t]
      BY InvInit, LeftType DEF Init, Untouched, Timers
    <2>. QED
      BY <2>1 DEF Left, Ticks, Init
  <1>2. IInv /\ TallyInv /\ [Next]_vars
          => [Abstract!CountdownNext]_(Abstract!countdownVars)
    <2>. SUFFICES ASSUME IInv, TallyInv, [Next]_vars
                  PROVE  \/ Abstract!CountdownNext
                         \/ Left' = Left /\ (pc = "exited")' = (pc = "exited")
      BY DEF Abstract!countdownVars
    <2>1. ASSUME NEW t \in Timers, Handle(t)
          PROVE  Abstract!CountdownNext
      <3>1. Left[t] > 0 /\ Left' = [Left EXCEPT ![t] = @ - 1]
        BY <2>1, HandleTicks
      <3>2. pc = "idle" /\ pc' = "print"
        BY <2>1 DEF Handle
      <3>. QED
        BY <3>1, <3>2 DEF Abstract!CountdownNext, Abstract!Tick
    <2>2. CASE \A t \in Timers : ~Handle(t)
      <3>1. Left' = Left
        BY <2>2, OthersLeave DEF TallyInv
      <3>2. CASE Exit
        <4>1. pc = "sync" /\ pc' = "exited"
          BY <3>2 DEF Exit, SyncReturns
        <4>2. \A t \in Timers : Left[t] = 0
          BY <4>1, DoneLeavesNothing
        <4>. QED
          BY <3>1, <4>1, <4>2 DEF Abstract!CountdownNext, Abstract!Goodbye
      <3>3. CASE ~Exit
        <4>1. pc' = "exited" <=> pc = "exited"
          BY <2>2, <3>3 DEF Next, Main, Create, DispatchMain, AsyncPrint, TestCount,
               LastTimer, NotLastTimer, PrintBlock, Sleep, Terminated, Fire, vars
        <4>. QED
          BY <3>1, <4>1
      <3>. QED
        BY <3>2, <3>3
    <2>. QED
      BY <2>1, <2>2
  <1>. QED
    BY <1>1, <1>2, TallyInvariance, PTL DEF Spec, Abstract!CountdownSteps

=============================================================================
