----------------------------- MODULE ClosestPair -----------------------------
(***************************************************************************)
(* house.c and house_2.c: the closest two of some points, by comparing all *)
(* of them and by dividing them.  Every level of divide_conquer is given   *)
(* the same a and b, points[0] and points[1] of the array it searches: the *)
(* points it finds replace the first two.  Coordinates are integers and    *)
(* DBL_EPSILON is less than the distance of two points.  "order" is a      *)
(* history variable: the points as qsort has left them.                    *)
(***************************************************************************)
EXTENDS Integers, SequencesExt

CONSTANTS
  Points,                \* [x, y]
  MaxHouses,             \* bound: the points of the file
  NaiveLimit,            \* of more points only the second search is made
  DblMax                 \* DBL_MAX: more than any distance

Dist(p, q) == (p.x - q.x) * (p.x - q.x) + (p.y - q.y) * (p.y - q.y)

ASSUME HousesAssumption ==
  /\ Points \subseteq [x : Int, y : Int]
  /\ MaxHouses \in Nat /\ NaiveLimit \in Nat /\ DblMax \in Nat
  /\ \A p, q \in Points : Dist(p, q) < DblMax

VARIABLES
  houses,        \* the points in the order of the file
  points, order,
  calls,         \* the calls at work, the last one on top
  row, column,   \* i and j of the loop at work
  distance,      \* what the loop has found so far, then what the call returns
  naive,         \* the distance of the first search
  stage          \* "naive" | "dividing" | "done"

houseVars == <<houses, points, order, calls, row, column, distance, naive, stage>>

\* A call is of divide_conquer, or of brute_force once its loops have begun; "at"
\* is how far it has come, "best" the smaller of the distances it has.
Level(from, count, at) == [from |-> from, count |-> count, at |-> at, best |-> DblMax]

Top == calls[Len(calls)]
Beyond(call) == call.from + call.count
Half(call) == call.count \div 2
LeftCall(call) == Level(call.from, Half(call), "enter")
RightCall(call) == Level(call.from + Half(call), call.count - Half(call), "enter")

SearchesAll == Len(houses) <= NaiveLimit

\* main reads one point more than there is from a file of one; none has no search.
HouseInit ==
  /\ houses \in UNION {[1..n -> Points] : n \in 2..MaxHouses}
  /\ points = houses /\ order = houses
  /\ calls = <<Level(1, Len(houses), "compare")>>
  /\ row = 1 /\ column = 2
  /\ distance = DblMax /\ naive = DblMax
  /\ stage = "naive"
-----------------------------------------------------------------------------
\* Mutant: copies of one point are a pair, too.
NearerOrSame(d, best) == d < best

Nearer(d, best) == 0 < d /\ d < best

At(place) == stage # "done" /\ Top.at = place

\* The loops of brute_force, which counts a point and its double as two.  Its a and
\* b are copies of its caller's.
ComparePair ==
  /\ At("compare") /\ column < Beyond(Top) /\ (stage = "naive" => SearchesAll)
  /\ LET d == Dist(points[row], points[column])
     IN  distance' = IF d < distance THEN d ELSE distance
  /\ IF column + 1 < Beyond(Top)
     THEN row' = row /\ column' = column + 1
     ELSE row' = row + 1 /\ column' = row + 2
  /\ UNCHANGED <<houses, points, order, calls, naive, stage>>

\* cmp_x: points of one x come in any order.
SortByX ==
  /\ stage = "naive" /\ (SearchesAll => column >= Beyond(Top))
  /\ \E f \in [1..Len(points) -> 1..Len(points)] :
       /\ \A k \in 2..Len(points) : points[f[k - 1]].x <= points[f[k]].x
       /\ IsInjective(f)
       /\ points' = [k \in 1..Len(points) |-> points[f[k]]]
  /\ order' = points'
  /\ naive' = distance /\ stage' = "dividing"
  /\ calls' = <<Level(1, Len(points), "enter")>> /\ distance' = DblMax
  /\ UNCHANGED <<houses, row, column>>

Leaf ==
  /\ At("enter") /\ Top.count < 3
  /\ calls' = [calls EXCEPT ![Len(calls)].at = "compare"]
  /\ row' = Top.from /\ column' = Top.from + 1 /\ distance' = DblMax
  /\ UNCHANGED <<houses, points, order, naive, stage>>

DivideLeft ==
  /\ At("enter") /\ Top.count >= 3
  /\ calls' = Append([calls EXCEPT ![Len(calls)].at = "left"], LeftCall(Top))
  /\ UNCHANGED <<houses, points, order, row, column, distance, naive, stage>>

DivideRight ==
  /\ At("left")
  /\ calls' = Append([calls EXCEPT ![Len(calls)].at = "right", ![Len(calls)].best = distance],
                     RightCall(Top))
  /\ UNCHANGED <<houses, points, order, row, column, distance, naive, stage>>

\* *a and *b are assigned to themselves.
BeginSplit ==
  /\ At("right")
  /\ calls' = [calls EXCEPT ![Len(calls)].at = "split",
                            ![Len(calls)].best = IF Top.best < distance THEN Top.best ELSE distance]
  /\ row' = Top.from /\ column' = Top.from + Half(Top) /\ distance' = DblMax
  /\ UNCHANGED <<houses, points, order, naive, stage>>

\* *a = points[i] comes before points[j] is read.
Stored == LET one == [points EXCEPT ![1] = points[row]]
          IN  [one EXCEPT ![2] = one[column]]

CompareAcross ==
  /\ At("split") /\ row < Top.from + Half(Top)
  /\ LET d == Dist(points[row], points[column])
     IN  IF Nearer(d, distance)
         THEN points' = Stored /\ distance' = d
         ELSE UNCHANGED <<points, distance>>
  /\ IF column + 1 < Beyond(Top)
     THEN row' = row /\ column' = column + 1
     ELSE row' = row + 1 /\ column' = Top.from + Half(Top)
  /\ UNCHANGED <<houses, order, calls, naive, stage>>

Return(d) ==
  /\ calls' = Front(calls)
  /\ distance' = d
  /\ stage' = IF Len(calls) = 1 THEN "done" ELSE stage
  /\ UNCHANGED <<houses, points, order, row, column, naive>>

Compared == stage = "dividing" /\ At("compare") /\ column >= Beyond(Top) /\ Return(distance)

Combined ==
  /\ At("split") /\ row >= Top.from + Half(Top)
  /\ Return(IF Nearer(distance, Top.best) THEN distance ELSE Top.best)

Printed == stage = "done" /\ UNCHANGED houseVars

HouseNext ==
  \/ ComparePair \/ SortByX \/ Leaf \/ DivideLeft \/ DivideRight
  \/ BeginSplit \/ CompareAcross \/ Compared \/ Combined \/ Printed

HouseSpec == HouseInit /\ [][HouseNext]_houseVars
-----------------------------------------------------------------------------
\* The distances of any two of the points
Distances(s) == {Dist(s[p[1]], s[p[2]]) : p \in {q \in (1..Len(s)) \X (1..Len(s)) : q[1] < q[2]}}

IsClosest(d, s) == d \in Distances(s) /\ \A e \in Distances(s) : d <= e

\* Four points or more are divided twice, and a split may then overwrite the first
\* two before all their pairs are compared.
FirstKept == IF Len(order) <= 3 THEN 1 ELSE 3

\* house.c: the naive search finds the smallest distance.  Although divide_conquer
\* overwrites two of the points it searches, what it reports is the distance of two
\* points that there are; and it misses no pair that is nearer, but of the two
\* leftmost points if there are more than three, and of points in one place.
ClosestDistance ==
  /\ stage # "naive" /\ SearchesAll => IsClosest(naive, houses)
  /\ stage = "done" =>
       /\ distance \in Distances(houses)
       /\ \A k \in FirstKept..Len(order), l \in FirstKept..Len(order) :
            k < l /\ 0 < Dist(order[k], order[l]) => distance <= Dist(order[k], order[l])
=============================================================================
