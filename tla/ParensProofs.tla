----------------------------- MODULE ParensProofs -----------------------------
(***************************************************************************)
(* Theorems about Parens.tla, for strings of any length and any choice of  *)
(* reallocs that move.  Parent pointers dangle, but not those the parser   *)
(* may follow: the nodes from the current one up to the root are on a path *)
(* along which parent and children agree, and an array that is moved lies  *)
(* below all of it but the current node.  The tree answers what a counter  *)
(* of the open parentheses would.                                          *)
(***************************************************************************)
EXTENDS Parens, FiniteSetTheorems, SequenceTheorems, WellFoundedInduction, TLAPS

Pointers == Nat \X Nat
Nodes == [status : Statuses, parent : Pointers, kids : Nat]

Typed ==
  /\ fresh \in Nat
  /\ DOMAIN heap \subseteq 1..fresh - 1
  /\ heap \in [DOMAIN heap -> Seq(Nodes)]
  /\ cur \in Pointers
  /\ read \in 0..MaxLen
  /\ c \in Chars

Kids(a, i) == heap[a][i].kids

(* Arrays form a tree of which d is the depth: children are a level deeper,
   and every array but the root's belongs to one node. *)
TreeWith(d) ==
  /\ d \in [DOMAIN heap -> Nat]
  /\ 1 \in DOMAIN heap /\ Len(heap[1]) = 1 /\ d[1] = 0
  /\ \A a \in DOMAIN heap : \A i \in DOMAIN heap[a] :
       Kids(a, i) # NullArray => Kids(a, i) \in DOMAIN heap /\ d[Kids(a, i)] = d[a] + 1
  /\ \A b \in DOMAIN heap \ {1} :
       \E a \in DOMAIN heap : \E i \in DOMAIN heap[a] : Kids(a, i) = b
  /\ \A a, b \in DOMAIN heap : \A i \in DOMAIN heap[a], j \in DOMAIN heap[b] :
       Kids(a, i) = Kids(b, j) /\ Kids(a, i) # NullArray => a = b /\ i = j

(* The nodes of S are those between the current one and the root. *)
PathWith(d, S) ==
  /\ S \subseteq Pointers /\ cur \in S /\ Root \in S
  /\ \A r \in S : Live(r) /\ d[r[1]] =< d[cur[1]]
  /\ \A r \in S \ {Root} : Node(r).parent \in S /\ Node(Node(r).parent).kids = r[1]
  /\ Node(Root).parent = NullNode

(* They are one to a level: the path goes down to the current node. *)
Unbranched(d, S) ==
  /\ \A r, s \in S : d[r[1]] = d[s[1]] => r = s
  /\ \A r \in S \ {cur} : \E s \in S : Node(r).kids = s[1]

(* Only nodes of the path are open, and all of them but its two ends must be.
   Nothing is Invalid but the current node, which is then not left, and no node
   is open when the current one is Unknown: it is the first node, or the root
   that a ")" too many has climbed to and will make Invalid. *)
Marked(S) ==
  /\ NodesWith("Opening") \subseteq S /\ IsFiniteSet(NodesWith("Opening"))
  /\ \A r \in S \ {cur, Root} : StatusOf(r) = "Opening"
  /\ StatusOf(Root) \in {"Unknown", "Invalid"}
  /\ NodesWith("Invalid") \subseteq {cur}
  /\ StatusOf(cur) = "Unknown" => NodesWith("Opening") = {}
  /\ cur = Root => StatusOf(Root) = "Invalid" \/ (pc = "parse" /\ c = ")")

(* A character adds at most one level. *)
Shallow(d) == \A a \in DOMAIN heap : d[a] =< read + (IF pc = "read" THEN 1 ELSE 0)

Path(d, S) == TreeWith(d) /\ PathWith(d, S) /\ Unbranched(d, S) /\ Marked(S) /\ Shallow(d)

IInv == pc # "done" => Typed /\ \E d, S : Path(d, S)

-----------------------------------------------------------------------------
(* The recursion of parse_char and the reallocs.                           *)

LEMMA KidsAreDeeper ==
  ASSUME NEW d, TreeWith(d), NEW a \in DOMAIN heap, NEW i \in DOMAIN heap[a],
         heap[a][i].kids # NullArray
  PROVE  heap[a][i].kids \in DOMAIN heap /\ d[heap[a][i].kids] = d[a] + 1
  BY DEF TreeWith, Kids

(* A node is counted where it lies. *)
LEMMA NodesAre ==
  ASSUME NEW st, NEW r
  PROVE  /\ r \in NodesWith(st) <=>
              \E a \in DOMAIN heap : \E i \in DOMAIN heap[a] :
                r = <<a, i>> /\ heap[a][i].status = st
         /\ r \in NodesWith(st)' <=>
              \E a \in DOMAIN heap' : \E i \in DOMAIN heap'[a] :
                r = <<a, i>> /\ heap'[a][i].status = st
  <1>1. r \in NodesWith(st) <=>
          \E a \in DOMAIN heap : \E i \in DOMAIN heap[a] :
            r = <<a, i>> /\ heap[a][i].status = st
    BY DEF NodesWith, StatusOf, Node
  <1>2. r \in NodesWith(st)' <=>
          \E a \in DOMAIN heap' : \E i \in DOMAIN heap'[a] :
            r = <<a, i>> /\ heap'[a][i].status = st
    BY DEF NodesWith, StatusOf, Node
  <1>. QED
    BY <1>1, <1>2

(* A step up the path is a level up the tree. *)
LEMMA PathClimbs ==
  ASSUME Typed, NEW d, NEW S, TreeWith(d), PathWith(d, S), NEW r \in S \ {Root}
  PROVE  \E u \in S : /\ u = Node(r).parent /\ Node(u).kids = r[1]
                      /\ u[1] \in DOMAIN heap /\ r[1] \in DOMAIN heap
                      /\ d[r[1]] = d[u[1]] + 1
  <1>1. PICK u \in S : u = Node(r).parent /\ Node(u).kids = r[1]
    BY DEF PathWith
  <1>2. /\ u[1] \in DOMAIN heap /\ u[2] \in DOMAIN heap[u[1]]
        /\ r[1] \in DOMAIN heap
    BY DEF PathWith, Live
  <1>3. PICK a, i, b : a = u[1] /\ i = u[2] /\ b = r[1]
    OBVIOUS
  <1>4. a \in DOMAIN heap /\ i \in DOMAIN heap[a] /\ heap[a][i].kids = b
    BY <1>1, <1>2, <1>3 DEF Node
  <1>5. b # NullArray
    BY <1>2, <1>3 DEF Typed, NullArray
  <1>6. d[b] = d[a] + 1
    BY <1>4, <1>5, KidsAreDeeper
  <1>. QED
    BY <1>1, <1>2, <1>3, <1>6

(* A step down it is one level the other way. *)
LEMMA PathDescends ==
  ASSUME Typed, NEW d, NEW S, TreeWith(d), PathWith(d, S), Unbranched(d, S),
         NEW r \in S \ {cur}
  PROVE  \E v \in S : Node(r).kids = v[1] /\ d[v[1]] = d[r[1]] + 1
  <1>1. PICK v \in S : Node(r).kids = v[1]
    BY DEF Unbranched
  <1>2. /\ r[1] \in DOMAIN heap /\ r[2] \in DOMAIN heap[r[1]] /\ v[1] \in DOMAIN heap
        /\ heap[r[1]][r[2]].kids = v[1]
    BY <1>1 DEF PathWith, Live, Node
  <1>3. v[1] # NullArray
    BY <1>2 DEF Typed, NullArray
  <1>4. d[v[1]] = d[r[1]] + 1
    BY <1>2, <1>3, KidsAreDeeper
  <1>. QED
    BY <1>1, <1>4

LEMMA InvInit == Init => IInv
  <1>. SUFFICES ASSUME Init PROVE IInv
    OBVIOUS
  <1>. DEFINE root == [status |-> "Unknown", parent |-> NullNode, kids |-> 2]
              first == [status |-> "Unknown", parent |-> Root, kids |-> NullArray]
              d == [a \in {1, 2} |-> a - 1]
              S == {<<1, 1>>, <<2, 1>>}
  <1>1. heap = << <<root>>, <<first>> >> /\ cur = <<2, 1>> /\ fresh = 3 /\ read = 0 /\ c = "x"
        /\ pc = "read"
    BY DEF Init, NewNode
  <1>2. root \in Nodes /\ first \in Nodes
    BY DEF Nodes, Pointers, Statuses, NullNode, Root, NullArray
  <1>3. DOMAIN heap = {1, 2} /\ heap[1] = <<root>> /\ heap[2] = <<first>>
    BY <1>1
  <1>4. /\ Len(heap[1]) = 1 /\ DOMAIN heap[1] = {1} /\ heap[1][1] = root
        /\ Len(heap[2]) = 1 /\ DOMAIN heap[2] = {1} /\ heap[2][1] = first
    BY <1>3
  <1>. HIDE DEF root, first
  <1>5. Typed
    <2>1. <<root>> \in Seq(Nodes) /\ <<first>> \in Seq(Nodes)
      BY <1>2
    <2>2. heap \in [1..2 -> Seq(Nodes)]
      BY <1>1, <2>1
    <2>3. DOMAIN heap \subseteq 1..fresh - 1
      BY <1>1, <1>3
    <2>. QED
      BY <1>1, <2>2, <2>3, MaxLenAssumption DEF Typed, Pointers, Chars
  <1>6. TreeWith(d)
    <2>1. Kids(1, 1) = 2 /\ Kids(2, 1) = NullArray
      BY <1>4 DEF Kids, root, first
    <2>. QED
      BY <1>3, <1>4, <2>1 DEF TreeWith, NullArray
  <1>7. PathWith(d, S)
    <2>1. Node(<<1, 1>>).parent = NullNode /\ Node(<<1, 1>>).kids = 2
          /\ Node(<<2, 1>>).parent = <<1, 1>>
      BY <1>4 DEF Node, root, first, Root
    <2>2. Live(<<1, 1>>) /\ Live(<<2, 1>>)
      BY <1>3, <1>4 DEF Live
    <2>. QED
      BY <1>1, <2>1, <2>2 DEF PathWith, Pointers, Root
  <1>8. Shallow(d)
    BY <1>1, <1>3 DEF Shallow
  <1>9. Unbranched(d, S)
    BY <1>1, <1>4 DEF Unbranched, Node, root
  <1>10. Marked(S)
    <2>1. \A a \in DOMAIN heap : \A i \in DOMAIN heap[a] : heap[a][i].status = "Unknown"
      BY <1>3, <1>4 DEF root, first
    <2>2. NodesWith("Opening") = {} /\ NodesWith("Invalid") = {}
      BY <2>1, NodesAre
    <2>3. StatusOf(Root) = "Unknown"
      BY <1>3, <1>4, <2>1 DEF StatusOf, Node, Root
    <2>. QED
      BY <1>1, <2>2, <2>3, FS_EmptySet DEF Marked, Root
  <1>. QED
    BY <1>5, <1>6, <1>7, <1>8, <1>9, <1>10 DEF IInv, Path

(* A step that changes only the statuses of nodes keeps tree and path. *)
LEMMA SameShape ==
  ASSUME NEW d, NEW S, TreeWith(d), PathWith(d, S),
         DOMAIN heap' = DOMAIN heap, cur' = cur,
         \A a \in DOMAIN heap :
           /\ DOMAIN heap'[a] = DOMAIN heap[a] /\ Len(heap'[a]) = Len(heap[a])
           /\ \A i \in DOMAIN heap[a] : /\ heap'[a][i].kids = heap[a][i].kids
                                        /\ heap'[a][i].parent = heap[a][i].parent
  PROVE  TreeWith(d)' /\ PathWith(d, S)'
  <1>1. TreeWith(d)'
    <2>1. \A a \in DOMAIN heap : \A i \in DOMAIN heap[a] : Kids(a, i)' = Kids(a, i)
      BY DEF Kids
    <2>2. 1 \in DOMAIN heap /\ Len(heap'[1]) = 1
      BY DEF TreeWith
    <2>3. \A b \in DOMAIN heap \ {1} :
            \E a \in DOMAIN heap : \E i \in DOMAIN heap'[a] : Kids(a, i)' = b
      BY <2>1 DEF TreeWith
    <2>4. \A a \in DOMAIN heap : \A i \in DOMAIN heap'[a] : Kids(a, i)' # NullArray =>
            Kids(a, i)' \in DOMAIN heap /\ d[Kids(a, i)'] = d[a] + 1
      BY <2>1 DEF TreeWith
    <2>5. \A a, b \in DOMAIN heap : \A i \in DOMAIN heap'[a], j \in DOMAIN heap'[b] :
            Kids(a, i)' = Kids(b, j)' /\ Kids(a, i)' # NullArray => a = b /\ i = j
      BY <2>1 DEF TreeWith
    <2>. QED
      BY <2>2, <2>3, <2>4, <2>5 DEF TreeWith
  <1>2. \A r \in S : Live(r)' /\ Node(r)'.kids = Node(r).kids /\ Node(r)'.parent = Node(r).parent
    BY DEF PathWith, Live, Node
  <1>3. PathWith(d, S)'
    BY <1>2 DEF PathWith
  <1>. QED
    BY <1>1, <1>3

Elder(p) == IF Node(p).kids = NullArray THEN <<>> ELSE heap[Node(p).kids]

(* What realloc and the new node leave in the heap. *)
GrownHeap(q, j, st, id) ==
  /\ DOMAIN heap' = (DOMAIN heap \ {Kids(q, j)}) \cup {id}
  /\ q # id /\ q # Kids(q, j) /\ id # 1 /\ id \in 1..fresh
  /\ heap' \in [DOMAIN heap' -> Seq(Nodes)]
  /\ \A a \in DOMAIN heap' \ {id} :
       /\ a \in DOMAIN heap /\ Len(heap'[a]) = Len(heap[a])
       /\ DOMAIN heap'[a] = DOMAIN heap[a]
       /\ \A i \in DOMAIN heap[a] :
            /\ heap'[a][i].kids = IF a = q /\ i = j THEN id ELSE heap[a][i].kids
            /\ heap'[a][i].parent = heap[a][i].parent
            /\ heap'[a][i].status = heap[a][i].status
  /\ Elder(<<q, j>>) \in Seq(Nodes)
  /\ heap'[id] = Append(Elder(<<q, j>>), NewNode(st, <<q, j>>))

LEMMA Grown ==
  ASSUME Typed, NEW d, TreeWith(d), NEW q \in DOMAIN heap, NEW j \in DOMAIN heap[q],
         NEW st \in Statuses, NEW id \in {Kids(q, j), fresh} \ {NullArray},
         grow(<<q, j>>, st, id)
  PROVE  GrownHeap(q, j, st, id)
  <1>. DEFINE old == Kids(q, j)
              new == NewNode(st, <<q, j>>)
              elder == Elder(<<q, j>>)
  <1>0. Node(<<q, j>>).kids = old
    BY DEF Node, Kids
  <1>1. heap' = [a \in (DOMAIN heap \ {old}) \cup {id} |->
                   IF a = id THEN Append(elder, new)
                   ELSE IF a = q THEN [heap[a] EXCEPT ![j].kids = id]
                   ELSE heap[a]]
    BY <1>0 DEF grow, Elder
  <1>2. old # NullArray => old \in DOMAIN heap /\ d[old] = d[q] + 1
    BY DEF TreeWith
  <1>3. /\ q \in 1..fresh - 1 /\ d[q] \in Nat /\ fresh \in Nat
        /\ old # NullArray => old \in 1..fresh - 1
    BY <1>2 DEF Typed, TreeWith
  <1>4. q # old
    BY <1>2, <1>3 DEF NullArray
  <1>5. old # 1
    BY <1>2, <1>3 DEF TreeWith, NullArray
  <1>6. q # id /\ id # 1 /\ id \in 1..fresh
    <2>1. fresh - 1 >= 1
      BY <1>3
    <2>. QED
      BY <1>3, <1>4, <1>5, <2>1 DEF NullArray
  <1>7. new \in Nodes
    <2>1. heap[q] \in Seq(Nodes)
      BY DEF Typed
    <2>2. j \in Nat
      BY <2>1, LenProperties
    <2>3. <<q, j>> \in Pointers
      BY <1>3, <2>2 DEF Pointers
    <2>. QED
      BY <2>3 DEF NewNode, Nodes, NullArray
  <1>8. elder \in Seq(Nodes)
    <2>1. CASE old = NullArray
      BY <1>0, <2>1 DEF Elder
    <2>2. CASE old # NullArray
      BY <1>0, <1>2, <2>2 DEF Elder, Typed
    <2>. QED
      BY <2>1, <2>2
  <1>9. Append(elder, new) \in Seq(Nodes)
    BY <1>7, <1>8
  <1>10. heap[q] \in Seq(Nodes) /\ heap[q][j] \in Nodes
    BY DEF Typed
  <1>11. PICK s, t, k : heap[q][j] = [status |-> s, parent |-> t, kids |-> k]
                        /\ s \in Statuses /\ t \in Pointers /\ k \in Nat
    BY <1>10 DEF Nodes
  <1>12. [heap[q][j] EXCEPT !.kids = id] = [status |-> s, parent |-> t, kids |-> id]
    BY <1>11
  <1>13. [status |-> s, parent |-> t, kids |-> id] \in Nodes
    BY <1>6, <1>11, <1>3 DEF Nodes
  <1>14. PICK m : m = [status |-> s, parent |-> t, kids |-> id]
    OBVIOUS
  <1>15. /\ m \in Nodes /\ m.kids = id
         /\ m.parent = heap[q][j].parent /\ m.status = heap[q][j].status
    BY <1>11, <1>13, <1>14
  <1>16. [heap[q] EXCEPT ![j].kids = id] = [heap[q] EXCEPT ![j] = m]
    BY <1>12, <1>14
  <1>17. /\ heap'[q] = [heap[q] EXCEPT ![j] = m]
         /\ heap'[id] = Append(elder, new)
         /\ \A a \in DOMAIN heap \ {old, id, q} : heap'[a] = heap[a]
         /\ DOMAIN heap' = (DOMAIN heap \ {old}) \cup {id}
    BY <1>1, <1>4, <1>6, <1>16
  <1>. HIDE DEF old, new, elder
  <1>18. heap'[q] \in Seq(Nodes) /\ Len(heap'[q]) = Len(heap[q])
         /\ DOMAIN heap'[q] = DOMAIN heap[q]
         /\ heap'[q][j] = m /\ \A i \in DOMAIN heap[q] \ {j} : heap'[q][i] = heap[q][i]
    BY <1>10, <1>15, <1>17
  <1>19. \A a \in DOMAIN heap' : heap'[a] \in Seq(Nodes)
    BY <1>9, <1>17, <1>18 DEF Typed
  <1>20. heap' = [a \in DOMAIN heap' |-> heap'[a]]
    BY <1>1
  <1>21. heap' \in [DOMAIN heap' -> Seq(Nodes)]
    BY <1>19, <1>20
  <1>22. ASSUME NEW a \in DOMAIN heap' \ {id}
         PROVE  /\ a \in DOMAIN heap /\ Len(heap'[a]) = Len(heap[a])
                /\ DOMAIN heap'[a] = DOMAIN heap[a]
                /\ \A i \in DOMAIN heap[a] :
                   /\ heap'[a][i].kids = IF a = q /\ i = j THEN id ELSE heap[a][i].kids
                   /\ heap'[a][i].parent = heap[a][i].parent
                   /\ heap'[a][i].status = heap[a][i].status
    <2>1. CASE a = q
      BY <1>15, <1>18, <2>1
    <2>2. CASE a # q
      BY <1>17, <2>2
    <2>. QED
      BY <2>1, <2>2
  <1>. QED
    BY <1>4, <1>6, <1>8, <1>17, <1>21, <1>22 DEF old, new, elder, GrownHeap

(* The tree is one again, with a node more and, it may be, another array. *)
LEMMA GrownTree ==
  ASSUME Typed, NEW d, TreeWith(d), NEW q \in DOMAIN heap, NEW j \in DOMAIN heap[q],
         NEW st \in Statuses, NEW id \in {Kids(q, j), fresh} \ {NullArray},
         grow(<<q, j>>, st, id)
  PROVE  \E e : /\ TreeWith(e)'
                /\ e[id] = d[q] + 1
                /\ \A a \in DOMAIN heap' \ {id} : e[a] = d[a]
  <1>. DEFINE old == Kids(q, j)
              new == NewNode(st, <<q, j>>)
              elder == Elder(<<q, j>>)
  <1>0. GrownHeap(q, j, st, id)
    BY Grown
  <1>1. /\ DOMAIN heap' = (DOMAIN heap \ {old}) \cup {id}
        /\ q # id /\ q # old /\ id # 1 /\ id \in 1..fresh
        /\ \A a \in DOMAIN heap' \ {id} :
              /\ a \in DOMAIN heap /\ Len(heap'[a]) = Len(heap[a])
              /\ DOMAIN heap'[a] = DOMAIN heap[a]
              /\ \A i \in DOMAIN heap[a] :
                   heap'[a][i].kids = IF a = q /\ i = j THEN id ELSE heap[a][i].kids
        /\ elder \in Seq(Nodes)
        /\ heap'[id] = Append(elder, new)
    BY <1>0 DEF GrownHeap
  <1>2. /\ \A a \in DOMAIN heap : d[a] \in Nat /\ a # NullArray
        /\ old # NullArray => old \in DOMAIN heap /\ d[old] = d[q] + 1
    BY DEF TreeWith, Typed, NullArray
  <1>3. id = old \/ id \notin DOMAIN heap
    BY DEF Typed
  <1>4. new.kids = NullArray
    BY DEF NewNode
  <1>5. /\ old # NullArray => elder = heap[old]
        /\ old = NullArray => elder = <<>>
    BY DEF Elder, Node, Kids
  <1>. HIDE DEF new, elder
  <1>6. /\ DOMAIN heap'[id] = 1..Len(elder) + 1
        /\ \A i \in 1..Len(elder) : heap'[id][i] = elder[i]
        /\ heap'[id][Len(elder) + 1] = new
    BY <1>1, AppendProperties
  <1>7. ASSUME NEW i \in DOMAIN heap'[id], heap'[id][i].kids # NullArray
        PROVE  /\ old # NullArray /\ old \in DOMAIN heap /\ i \in DOMAIN heap[old]
               /\ heap'[id][i].kids = heap[old][i].kids
    <2>1. i \in 1..Len(elder)
      BY <1>1, <1>4, <1>6, <1>7
    <2>2. old # NullArray
      BY <1>5, <2>1
    <2>3. DOMAIN elder = 1..Len(elder)
      BY <1>1
    <2>. QED
      BY <1>2, <1>5, <1>6, <2>1, <2>2, <2>3
  <1>8. ASSUME old # NullArray, NEW i \in DOMAIN heap[old]
        PROVE  i \in DOMAIN heap'[id] /\ heap'[id][i].kids = heap[old][i].kids
    <2>1. DOMAIN elder = 1..Len(elder) /\ elder = heap[old] /\ Len(elder) \in Nat
      BY <1>1, <1>5, <1>8
    <2>. QED
      BY <1>6, <1>8, <2>1
  <1>e. PICK e : e = [a \in DOMAIN heap' |-> IF a = id THEN d[q] + 1 ELSE d[a]]
    OBVIOUS
  <1>. DEFINE From(b) == IF b = id THEN old ELSE b
  <1>9. ASSUME NEW b \in DOMAIN heap', NEW i \in DOMAIN heap'[b],
               heap'[b][i].kids # NullArray, ~(b = q /\ i = j)
        PROVE  /\ From(b) \in DOMAIN heap /\ i \in DOMAIN heap[From(b)]
               /\ heap[From(b)][i].kids = heap'[b][i].kids
               /\ heap'[b][i].kids \in DOMAIN heap' \ {id}
               /\ d[heap'[b][i].kids] = e[b] + 1
    <2>1. /\ From(b) \in DOMAIN heap /\ i \in DOMAIN heap[From(b)]
          /\ heap[From(b)][i].kids = heap'[b][i].kids
      <3>1. CASE b = id
        BY <1>7, <1>9, <3>1
      <3>2. CASE b # id
        BY <1>1, <1>9, <3>2
      <3>. QED
        BY <3>1, <3>2
    <2>2. ~(From(b) = q /\ i = j)
      BY <1>1, <1>9
    <2>3. heap[From(b)][i].kids \in DOMAIN heap /\ d[heap[From(b)][i].kids] = d[From(b)] + 1
      BY <1>9, <2>1 DEF TreeWith, Kids
    <2>4. heap[From(b)][i].kids # old
      BY <1>9, <2>1, <2>2 DEF TreeWith, Kids
    <2>5. e[b] = d[From(b)]
      <3>1. CASE b = id
        BY <1>2, <1>7, <1>9, <1>e, <3>1
      <3>2. CASE b # id
        BY <1>e, <3>2
      <3>. QED
        BY <3>1, <3>2
    <2>. QED
      BY <1>1, <1>3, <2>1, <2>3, <2>4, <2>5
  <1>10. q \in DOMAIN heap' /\ j \in DOMAIN heap'[q] /\ heap'[q][j].kids = id /\ e[q] = d[q]
    BY <1>1, <1>e
  <1>11. e \in [DOMAIN heap' -> Nat] /\ 1 \in DOMAIN heap' /\ Len(heap'[1]) = 1 /\ e[1] = 0
    <2>1. 1 \in DOMAIN heap /\ d[1] = 0 /\ Len(heap[1]) = 1
      BY DEF TreeWith
    <2>2. old # 1
      BY <1>2, <2>1 DEF NullArray
    <2>3. 1 \in DOMAIN heap' \ {id}
      BY <1>1, <2>1, <2>2
    <2>. QED
      BY <1>1, <1>2, <1>e, <2>1, <2>3
  <1>12. ASSUME NEW a \in DOMAIN heap', NEW i \in DOMAIN heap'[a], heap'[a][i].kids # NullArray
         PROVE  heap'[a][i].kids \in DOMAIN heap' /\ e[heap'[a][i].kids] = e[a] + 1
    <2>1. CASE a = q /\ i = j
      BY <1>1, <1>10, <1>e, <2>1
    <2>2. CASE ~(a = q /\ i = j)
      BY <1>9, <1>12, <1>e, <2>2
    <2>. QED
      BY <2>1, <2>2
  <1>13. ASSUME NEW b \in DOMAIN heap' \ {1}
         PROVE  \E a \in DOMAIN heap' : \E i \in DOMAIN heap'[a] : heap'[a][i].kids = b
    <2>1. CASE b = id
      BY <1>10, <2>1
    <2>2. CASE b # id
      <3>1. b \in DOMAIN heap \ {1, old}
        BY <1>1, <2>2
      <3>2. PICK a \in DOMAIN heap : \E i \in DOMAIN heap[a] : heap[a][i].kids = b
        BY <3>1 DEF TreeWith, Kids
      <3>3. PICK i \in DOMAIN heap[a] : heap[a][i].kids = b
        BY <3>2
      <3>4. CASE a = old
        BY <1>1, <1>2, <1>8, <3>3, <3>4
      <3>5. CASE a # old
        <4>1. a \in DOMAIN heap' \ {id}
          BY <1>1, <1>3, <3>5
        <4>2. ~(a = q /\ i = j)
          BY <3>1, <3>3 DEF Kids
        <4>. QED
          BY <1>1, <3>3, <4>1, <4>2
      <3>. QED
        BY <3>4, <3>5
    <2>. QED
      BY <2>1, <2>2
  <1>14. ASSUME NEW a \in DOMAIN heap', NEW b \in DOMAIN heap',
                NEW i \in DOMAIN heap'[a], NEW k \in DOMAIN heap'[b],
                heap'[a][i].kids = heap'[b][k].kids, heap'[a][i].kids # NullArray
         PROVE  a = b /\ i = k
    <2>1. CASE a = q /\ i = j
      BY <1>9, <1>10, <1>14, <2>1
    <2>2. CASE b = q /\ k = j
      BY <1>9, <1>10, <1>14, <2>2
    <2>3. CASE ~(a = q /\ i = j) /\ ~(b = q /\ k = j)
      <3>1. From(a) = From(b) /\ i = k
        BY <1>9, <1>14, <2>3 DEF TreeWith, Kids
      <3>. QED
        BY <1>1, <3>1
    <2>. QED
      BY <2>1, <2>2, <2>3
  <1>15. TreeWith(e)'
    BY <1>11, <1>12, <1>13, <1>14 DEF TreeWith, Kids
  <1>16. e[id] = d[q] + 1 /\ \A a \in DOMAIN heap' \ {id} : e[a] = d[a]
    BY <1>1, <1>e
  <1>. QED
    BY <1>15, <1>16

(* What node_add_child does to a node on the path. *)
LEMMA GrownPath ==
  ASSUME Typed, NEW d, NEW S, TreeWith(d), PathWith(d, S), Unbranched(d, S), NEW p \in S,
         NEW st \in Statuses, NEW node, node_add_child(p, node, st)
  PROVE  /\ heap' \in [DOMAIN heap' -> Seq(Nodes)]
         /\ fresh' \in Nat /\ DOMAIN heap' \subseteq 1..fresh' - 1 /\ cur' \in Pointers
         /\ \E id : /\ GrownHeap(p[1], p[2], st, id)
                    /\ id = Node(p).kids \/ id \notin DOMAIN heap
                    /\ cur' = <<id, Len(Elder(p)) + 1>>
         /\ \E e, T : /\ T = {r \in S : d[r[1]] =< d[p[1]]} \cup {cur'}
                      /\ TreeWith(e)' /\ PathWith(e, T)' /\ Unbranched(e, T)'
                      /\ e[cur'[1]] = d[p[1]] + 1
                      /\ \A a \in DOMAIN heap' \ {cur'[1]} : a \in DOMAIN heap /\ e[a] = d[a]
  <1>1. PICK q \in DOMAIN heap : \E j \in DOMAIN heap[q] : p = <<q, j>>
    <2>1. p \in Pointers /\ Live(p)
      BY DEF PathWith
    <2>. QED
      BY <2>1 DEF Live, Pointers
  <1>2. PICK j \in DOMAIN heap[q] : p = <<q, j>>
    BY <1>1
  <1>. DEFINE old == Kids(q, j)
              elder == Elder(<<q, j>>)
              new == NewNode(st, <<q, j>>)
  <1>3. Node(p) = heap[q][j] /\ Node(p).kids = old
    BY <1>2 DEF Node, Kids
  <1>4. PICK id \in {old, fresh} \ {NullArray} :
          grow(<<q, j>>, st, id) /\ TakeChild(<<q, j>>, node, id)
          /\ fresh' = IF id = fresh THEN fresh + 1 ELSE fresh
    BY <1>2, <1>3 DEF node_add_child
  <1>5. GrownHeap(q, j, st, id)
    BY <1>4, Grown
  <1>6. PICK e : TreeWith(e)' /\ e[id] = d[q] + 1 /\ \A a \in DOMAIN heap' \ {id} : e[a] = d[a]
    BY <1>4, GrownTree
  <1>7. elder \in Seq(Nodes) /\ heap'[id] = Append(elder, new) /\ id # 1 /\ id \in 1..fresh
        /\ DOMAIN heap' = (DOMAIN heap \ {old}) \cup {id} /\ heap' \in [DOMAIN heap' -> Seq(Nodes)]
    BY <1>5 DEF GrownHeap
  <1>8. cur' = <<id, Len(elder) + 1>>
    <2>1. CASE old = NullArray
      BY <1>2, <1>3, <1>4, <2>1 DEF TakeChild, Elder
    <2>2. CASE old # NullArray
      <3>1. elder = heap[old] /\ Len(elder) \in Nat
        BY <1>2, <1>3, <1>7, <2>2 DEF Elder
      <3>. QED
        BY <1>2, <1>3, <1>4, <2>2, <3>1 DEF TakeChild
    <2>. QED
      BY <2>1, <2>2
  <1>. HIDE DEF elder, new
  <1>9. Len(elder) + 1 \in DOMAIN heap'[id] /\ heap'[id][Len(elder) + 1] = new
    BY <1>7, AppendProperties
  <1>10. new.parent = p
    BY <1>2 DEF new, NewNode
  <1>11. /\ \A a \in DOMAIN heap : d[a] \in Nat
         /\ old # NullArray => old \in DOMAIN heap /\ d[old] = d[q] + 1
         /\ d[1] = 0
    BY DEF TreeWith
  <1>12. id = old \/ id \notin DOMAIN heap
    BY <1>4 DEF Typed
  <1>13. PICK T : T = {r \in S : d[r[1]] =< d[q]} \cup {cur'}
    OBVIOUS
  <1>14. ASSUME NEW r \in S, d[r[1]] =< d[q]
         PROVE  /\ r[1] \in DOMAIN heap' \ {id} /\ Live(r)' /\ e[r[1]] = d[r[1]] /\ r[1] # old
                /\ Node(r)'.parent = Node(r).parent
                /\ Node(r)'.kids = IF r = p THEN id ELSE Node(r).kids
    <2>1. r[1] \in DOMAIN heap /\ r[2] \in DOMAIN heap[r[1]] /\ r = <<r[1], r[2]>>
      BY DEF PathWith, Live, Pointers
    <2>2. r[1] # old
      BY <1>11, <1>14, <2>1 DEF Typed, NullArray
    <2>3. r[1] \in DOMAIN heap' \ {id}
      BY <1>7, <1>12, <2>1, <2>2
    <2>4. /\ r[2] \in DOMAIN heap'[r[1]]
          /\ heap'[r[1]][r[2]].parent = heap[r[1]][r[2]].parent
          /\ heap'[r[1]][r[2]].kids = IF r[1] = q /\ r[2] = j THEN id ELSE heap[r[1]][r[2]].kids
      BY <1>5, <2>1, <2>3 DEF GrownHeap
    <2>. QED
      BY <1>2, <1>6, <2>1, <2>2, <2>3, <2>4 DEF Live, Node
  <1>15. p \in T /\ Root \in T /\ cur' \in T /\ T \subseteq Pointers /\ cur' \in Pointers
    <2>1. cur' \in Pointers
      BY <1>7, <1>8 DEF Pointers, Typed
    <2>2. d[p[1]] =< d[q] /\ d[Root[1]] =< d[q]
      BY <1>2, <1>11 DEF Root
    <2>. QED
      BY <1>13, <2>1, <2>2 DEF PathWith
  <1>17. (Live(cur))' /\ Node(cur)'.parent = p
    BY <1>7, <1>8, <1>9, <1>10 DEF Live, Node
  <1>18. ASSUME NEW r \in T
         PROVE  (Live(r))' /\ e[r[1]] =< e[cur'[1]]
    <2>1. CASE r = cur'
      BY <1>6, <1>8, <1>11, <1>17, <2>1 DEF Live
    <2>2. CASE r # cur'
      <3>1. r \in S /\ d[r[1]] =< d[q]
        BY <1>13, <2>2
      <3>2. d[r[1]] \in Nat /\ d[q] \in Nat
        BY <1>11, <3>1 DEF PathWith, Live
      <3>. QED
        BY <1>6, <1>8, <1>14, <3>1, <3>2
    <2>. QED
      BY <2>1, <2>2
  <1>19. ASSUME NEW r \in T \ {Root}
         PROVE  Node(r)'.parent \in T /\ (Node(Node(r).parent))'.kids = r[1]
    <2>1. CASE r = cur'
      <3>1. Node(p)'.kids = id
        BY <1>2, <1>11, <1>14
      <3>. QED
        BY <1>8, <1>15, <1>17, <2>1, <3>1 DEF Node
    <2>2. CASE r # cur'
      <3>1. r \in S \ {Root} /\ d[r[1]] =< d[q]
        BY <1>13, <1>19, <2>2
      <3>2. PICK u \in S : /\ u = Node(r).parent /\ Node(u).kids = r[1]
                          /\ u[1] \in DOMAIN heap /\ r[1] \in DOMAIN heap
                          /\ d[r[1]] = d[u[1]] + 1
        BY <3>1, PathClimbs
      <3>3. d[u[1]] =< d[q]
        BY <1>11, <3>1, <3>2
      <3>4. u # p
        BY <1>3, <1>14, <3>1, <3>2
      <3>5. u \in T /\ Node(u)'.kids = r[1]
        BY <1>13, <1>14, <3>2, <3>3, <3>4
      <3>6. Node(r)'.parent = u
        BY <1>14, <3>1, <3>2
      <3>. QED
        BY <3>5, <3>6 DEF Node
    <2>. QED
      BY <2>1, <2>2
  <1>20. Node(Root)'.parent = NullNode
    BY <1>11, <1>14 DEF PathWith, Root
  <1>21. PathWith(e, T)'
    BY <1>15, <1>18, <1>19, <1>20 DEF PathWith
  <1>22. /\ e[cur'[1]] = d[p[1]] + 1
         /\ \A a \in DOMAIN heap' \ {cur'[1]} : a \in DOMAIN heap /\ e[a] = d[a]
    BY <1>2, <1>6, <1>7, <1>8
  <1>24. Unbranched(e, T)'
    <2>1. \A r \in T \ {cur'} : r \in S /\ d[r[1]] \in Nat /\ d[r[1]] =< d[q] /\ e[r[1]] = d[r[1]]
      BY <1>11, <1>13, <1>14 DEF PathWith, Live
    <2>2. e[cur'[1]] = d[q] + 1 /\ d[q] \in Nat
      BY <1>2, <1>11, <1>22
    <2>3. \A r, v \in T : e[r[1]] = e[v[1]] => r = v
      BY <2>1, <2>2 DEF Unbranched
    <2>4. ASSUME NEW r \in T \ {cur'}
          PROVE  \E v \in T : Node(r)'.kids = v[1]
      <3>1. CASE r = p
        BY <1>8, <1>14, <1>15, <2>1, <3>1
      <3>2. CASE r # p
        <4>1. d[r[1]] # d[q] /\ Node(r)'.kids = Node(r).kids
          BY <1>2, <1>14, <2>1, <3>2 DEF Unbranched
        <4>2. r # cur
          <5>1. d[p[1]] =< d[cur[1]] /\ d[p[1]] = d[q]
            BY <1>2 DEF PathWith
          <5>2. d[r[1]] =< d[q] /\ d[r[1]] \in Nat
            BY <2>1
          <5>. QED
            BY <2>2, <4>1, <5>1, <5>2
        <4>3. PICK v \in S : Node(r).kids = v[1] /\ d[v[1]] = d[r[1]] + 1
          BY <2>1, <4>2, PathDescends
        <4>4. v \in T
          BY <1>13, <2>1, <2>2, <4>1, <4>3
        <4>. QED
          BY <4>1, <4>3, <4>4
      <3>. QED
        BY <3>1, <3>2
    <2>. QED
      BY <2>3, <2>4 DEF Unbranched
  <1>25. T = {r \in S : d[r[1]] =< d[p[1]]} \cup {cur'}
    BY <1>2, <1>13
  <1>26. /\ GrownHeap(p[1], p[2], st, id)
         /\ id = Node(p).kids \/ id \notin DOMAIN heap
         /\ cur' = <<id, Len(Elder(p)) + 1>>
    BY <1>2, <1>3, <1>5, <1>8, <1>12 DEF elder
  <1>23. fresh' \in Nat /\ DOMAIN heap' \subseteq 1..fresh' - 1
    BY <1>4, <1>7 DEF Typed
  <1>. QED
    BY <1>6, <1>7, <1>15, <1>21, <1>22, <1>23, <1>24, <1>25, <1>26

(* One level of the recursion stays on the path. *)
LEMMA ParentOnPath ==
  ASSUME Typed, NEW d, NEW S, TreeWith(d), PathWith(d, S), NEW r \in S
  PROVE  /\ node_parent(r) \in S
         /\ r = Root => node_parent(r) = Root
         /\ r # Root => /\ Node(node_parent(r)).kids = r[1]
                        /\ d[r[1]] = d[node_parent(r)[1]] + 1
  <1>1. CASE r = Root
    BY <1>1 DEF PathWith, node_parent
  <1>2. CASE r # Root
    <2>1. PICK u \in S : /\ u = Node(r).parent /\ Node(u).kids = r[1]
                        /\ u[1] \in DOMAIN heap
                        /\ d[r[1]] = d[u[1]] + 1
      BY <1>2, PathClimbs
    <2>2. u # NullNode
      BY <2>1 DEF NullNode, Typed
    <2>. QED
      BY <1>2, <2>1, <2>2 DEF node_parent
  <1>. QED
    BY <1>1, <1>2

(* Climbing shortens the path. *)
LEMMA ClimbedPath ==
  ASSUME Typed, NEW d, NEW S, TreeWith(d), PathWith(d, S), Unbranched(d, S),
         heap' = heap, cur' = node_parent(cur)
  PROVE  /\ cur' \in Pointers
         /\ TreeWith(d)'
         /\ \E T : /\ T = {r \in S : d[r[1]] =< d[cur'[1]]}
                   /\ PathWith(d, T)' /\ Unbranched(d, T)'
  <1>1. TreeWith(d)'
    BY DEF TreeWith, Kids
  <1>2. cur \in S /\ cur' \in S /\ cur' \in Pointers
    BY ParentOnPath DEF PathWith
  <1>3. \A r \in S : d[r[1]] \in Nat
    BY DEF PathWith, Live, TreeWith
  <1>4. d[cur'[1]] =< d[cur[1]]
    BY <1>2 DEF PathWith
  <1>5. PICK T : T = {r \in S : d[r[1]] =< d[cur'[1]]}
    OBVIOUS
  <1>6. Root \in T /\ cur' \in T /\ T \subseteq S
    <2>1. d[Root[1]] = 0 /\ Root \in S
      BY DEF TreeWith, PathWith, Root
    <2>. QED
      BY <1>2, <1>3, <1>5, <2>1
  <1>7. ASSUME NEW r \in T \ {Root}
        PROVE  Node(r).parent \in T /\ Node(Node(r).parent).kids = r[1]
    <2>. r \in S \ {Root}
      BY <1>6, <1>7
    <2>1. PICK u \in S : /\ u = Node(r).parent /\ Node(u).kids = r[1]
                        /\ d[r[1]] = d[u[1]] + 1
      BY PathClimbs
    <2>2. u \in T
      BY <1>2, <1>3, <1>5, <1>6, <1>7, <2>1
    <2>. QED
      BY <2>1, <2>2
  <1>8. \A r \in T : (Live(r))' /\ Node(r)' = Node(r)
    BY <1>6 DEF PathWith, Live, Node
  <1>9. Node(Root).parent = NullNode /\ T \subseteq Pointers
    BY <1>6 DEF PathWith
  <1>10. PathWith(d, T)'
    <2>1. \A r \in T : (Live(r))' /\ d[r[1]] =< d[cur'[1]]
      BY <1>5, <1>8
    <2>2. \A r \in T \ {Root} : Node(r)'.parent \in T /\ (Node(Node(r).parent))'.kids = r[1]
      BY <1>7, <1>8
    <2>3. Node(Root)'.parent = NullNode
      BY <1>6, <1>8, <1>9
    <2>. QED
      BY <1>6, <1>9, <2>1, <2>2, <2>3 DEF PathWith
  <1>11. Unbranched(d, T)'
    <2>1. \A r, v \in T : d[r[1]] = d[v[1]] => r = v
      BY <1>6 DEF Unbranched
    <2>2. ASSUME NEW r \in T \ {cur'}
          PROVE  \E v \in T : Node(r)'.kids = v[1]
      <3>1. r \in S /\ d[r[1]] =< d[cur'[1]] /\ d[r[1]] # d[cur'[1]]
        BY <1>2, <1>5, <2>2 DEF Unbranched
      <3>2. r # cur
        BY <1>2, <1>3, <1>4, <3>1
      <3>3. PICK v \in S : Node(r).kids = v[1] /\ d[v[1]] = d[r[1]] + 1
        BY <3>1, <3>2, PathDescends
      <3>4. v \in T
        BY <1>2, <1>3, <1>5, <3>1, <3>3
      <3>. QED
        BY <1>6, <1>8, <2>2, <3>3, <3>4
    <2>. QED
      BY <2>1, <2>2 DEF Unbranched
  <1>. QED
    BY <1>1, <1>2, <1>5, <1>10, <1>11

(* Changing the status of a node on the path. *)
LEMMA StatusPath ==
  ASSUME Typed, NEW d, NEW S, TreeWith(d), PathWith(d, S),
         NEW st \in Statuses, SetStatus(cur, st), cur' = cur
  PROVE  /\ heap' \in [DOMAIN heap -> Seq(Nodes)]
         /\ TreeWith(d)' /\ PathWith(d, S)'
         /\ \A a \in DOMAIN heap :
              /\ DOMAIN heap'[a] = DOMAIN heap[a]
              /\ \A i \in DOMAIN heap[a] :
                   /\ heap'[a][i].kids = heap[a][i].kids
                   /\ heap'[a][i].status = IF <<a, i>> = cur THEN st ELSE heap[a][i].status
  <1>1. PICK q \in DOMAIN heap : \E j \in DOMAIN heap[q] : cur = <<q, j>>
    BY DEF PathWith, Live, Pointers
  <1>2. PICK j \in DOMAIN heap[q] : cur = <<q, j>>
    BY <1>1
  <1>3. heap[q] \in Seq(Nodes) /\ heap[q][j] \in Nodes
    BY DEF Typed
  <1>4. PICK s, t, k : heap[q][j] = [status |-> s, parent |-> t, kids |-> k]
                       /\ s \in Statuses /\ t \in Pointers /\ k \in Nat
    BY <1>3 DEF Nodes
  <1>5. PICK m : m = [status |-> st, parent |-> t, kids |-> k]
    OBVIOUS
  <1>6. /\ m \in Nodes /\ m.kids = heap[q][j].kids /\ m.parent = heap[q][j].parent
        /\ m.status = st
    BY <1>4, <1>5 DEF Nodes
  <1>7. heap' = [heap EXCEPT ![q] = [heap[q] EXCEPT ![j] = m]]
    <2>1. heap' = [heap EXCEPT ![q][j].status = st]
      BY <1>2 DEF SetStatus
    <2>2. [heap[q][j] EXCEPT !.status = st] = m
      BY <1>4, <1>5
    <2>3. [heap EXCEPT ![q][j].status = st]
            = [heap EXCEPT ![q] = [heap[q] EXCEPT ![j] = [heap[q][j] EXCEPT !.status = st]]]
      OBVIOUS
    <2>. QED
      BY <2>1, <2>2, <2>3
  <1>8. /\ [heap[q] EXCEPT ![j] = m] \in Seq(Nodes)
        /\ Len([heap[q] EXCEPT ![j] = m]) = Len(heap[q])
    BY <1>3, <1>6
  <1>9. heap' \in [DOMAIN heap -> Seq(Nodes)]
    BY <1>7, <1>8 DEF Typed
  <1>10. ASSUME NEW a \in DOMAIN heap
         PROVE  /\ DOMAIN heap'[a] = DOMAIN heap[a] /\ Len(heap'[a]) = Len(heap[a])
                /\ \A i \in DOMAIN heap[a] :
                     /\ heap'[a][i].kids = heap[a][i].kids
                     /\ heap'[a][i].parent = heap[a][i].parent
                     /\ heap'[a][i].status = IF <<a, i>> = cur THEN st ELSE heap[a][i].status
    <2>1. CASE a = q
      BY <1>2, <1>6, <1>7, <1>8, <2>1
    <2>2. CASE a # q
      BY <1>2, <1>7, <2>2
    <2>. QED
      BY <2>1, <2>2
  <1>11. DOMAIN heap' = DOMAIN heap
    BY <1>7
  <1>. QED
    BY <1>9, <1>10, <1>11, SameShape

(* The nodes of each status when only the current node's changes. *)
LEMMA StatusMarks ==
  ASSUME Typed, NEW d, NEW S, Path(d, S), NEW st \in Statuses, SetStatus(cur, st), cur' = cur
  PROVE  /\ NodesWith(st)' = NodesWith(st) \cup {cur}
         /\ \A s \in Statuses \ {st} : NodesWith(s)' = NodesWith(s) \ {cur}
         /\ StatusOf(cur)' = st
         /\ \A r \in S \ {cur} : StatusOf(r)' = StatusOf(r)
         /\ Unbranched(d, S)'
  <1>1. DOMAIN heap' = DOMAIN heap
    BY DEF SetStatus
  <1>2. \A a \in DOMAIN heap :
          /\ DOMAIN heap'[a] = DOMAIN heap[a]
          /\ \A i \in DOMAIN heap[a] :
               /\ heap'[a][i].kids = heap[a][i].kids
               /\ heap'[a][i].status = IF <<a, i>> = cur THEN st ELSE heap[a][i].status
    BY StatusPath DEF Path
  <1>3. PICK q \in DOMAIN heap : \E j \in DOMAIN heap[q] : cur = <<q, j>>
    BY DEF Path, PathWith, Live, Pointers
  <1>4. PICK j \in DOMAIN heap[q] : cur = <<q, j>>
    BY <1>3
  <1>5. NodesWith(st)' = NodesWith(st) \cup {cur}
    <2>1. ASSUME NEW r
          PROVE  r \in NodesWith(st)' <=> r \in NodesWith(st) \cup {cur}
      <3>1. ASSUME r \in NodesWith(st)'
            PROVE  r \in NodesWith(st) \cup {cur}
        <4>1. PICK a \in DOMAIN heap : \E i \in DOMAIN heap[a] :
                r = <<a, i>> /\ heap'[a][i].status = st
          BY <1>1, <1>2, <3>1, NodesAre
        <4>2. PICK i \in DOMAIN heap[a] : r = <<a, i>> /\ heap'[a][i].status = st
          BY <4>1
        <4>3. r = cur \/ heap[a][i].status = st
          BY <1>2, <4>2
        <4>. QED
          BY <4>2, <4>3, NodesAre
      <3>2. r \in NodesWith(st) => r \in NodesWith(st)'
        BY <1>1, <1>2, NodesAre
      <3>3. cur \in NodesWith(st)'
        BY <1>1, <1>2, <1>4, NodesAre
      <3>. QED
        BY <3>1, <3>2, <3>3
    <2>. QED
      BY <2>1
  <1>6. ASSUME NEW s \in Statuses \ {st}
        PROVE  NodesWith(s)' = NodesWith(s) \ {cur}
    <2>1. ASSUME NEW r
          PROVE  r \in NodesWith(s)' <=> r \in NodesWith(s) \ {cur}
      BY <1>1, <1>2, NodesAre
    <2>. QED
      BY <2>1
  <1>7. \A r \in S : /\ r \in Pointers /\ r[1] \in DOMAIN heap /\ r[2] \in DOMAIN heap[r[1]]
                     /\ r = <<r[1], r[2]>>
    BY DEF Path, PathWith, Live, Pointers
  <1>8. StatusOf(cur)' = st /\ \A r \in S \ {cur} : StatusOf(r)' = StatusOf(r)
    BY <1>2, <1>4, <1>7 DEF StatusOf, Node
  <1>9. \A r \in S : Node(r)'.kids = Node(r).kids
    BY <1>2, <1>7 DEF Node
  <1>10. Unbranched(d, S)'
    BY <1>9 DEF Path, Unbranched
  <1>. QED
    BY <1>5, <1>6, <1>8, <1>10

(* A node is on the path with the one status it has. *)
LEMMA MarkOfCur ==
  ASSUME Typed, NEW d, NEW S, Path(d, S)
  PROVE  /\ cur \in S /\ Live(cur) /\ StatusOf(cur) \in Statuses
         /\ \A st \in Statuses : cur \in NodesWith(st) <=> StatusOf(cur) = st
         /\ StatusOf(cur) # "Invalid" => NodesWith("Invalid") = {}
  <1>1. PICK q \in DOMAIN heap : \E j \in DOMAIN heap[q] : cur = <<q, j>>
    BY DEF Path, PathWith, Live, Pointers
  <1>2. PICK j \in DOMAIN heap[q] : cur = <<q, j>>
    BY <1>1
  <1>3. StatusOf(cur) = heap[q][j].status /\ heap[q][j] \in Nodes
    BY <1>2 DEF StatusOf, Node, Typed
  <1>4. \A st \in Statuses : cur \in NodesWith(st) <=> StatusOf(cur) = st
    BY <1>2, <1>3, NodesAre
  <1>5. "Invalid" \in Statuses
    BY DEF Statuses
  <1>. QED
    BY <1>3, <1>4, <1>5 DEF Path, PathWith, Marked, Nodes

(* The "(" of the first node, the ")" of an open one and the one too many. *)
LEMMA StatusSteps ==
  ASSUME Typed, NEW d, NEW S, Path(d, S), OpenUnknown \/ CloseOpen \/ CloseInvalid
  PROVE  /\ Marked(S)' /\ Unbranched(d, S)'
         /\ OpenUnknown =>
              /\ NodesWith("Opening") = {} /\ NodesWith("Opening")' = {cur}
              /\ NodesWith("Invalid") = {} /\ NodesWith("Invalid")' = {}
         /\ CloseOpen =>
              /\ cur \in NodesWith("Opening") /\ NodesWith("Opening")' = NodesWith("Opening") \ {cur}
              /\ NodesWith("Invalid") = {} /\ NodesWith("Invalid")' = {}
         /\ CloseInvalid =>
              /\ NodesWith("Opening")' = NodesWith("Opening") /\ NodesWith("Invalid")' = {cur}
              /\ NodesWith("Invalid") = {} => NodesWith("Opening") = {}
  <1>1. Marked(S)
    BY DEF Path
  <1>2. /\ cur \in S /\ StatusOf(cur) \in Statuses
        /\ \A st \in Statuses : cur \in NodesWith(st) <=> StatusOf(cur) = st
        /\ StatusOf(cur) # "Invalid" => NodesWith("Invalid") = {}
    BY MarkOfCur
  <1>3. /\ "Opening" \in Statuses /\ "Pair" \in Statuses /\ "Invalid" \in Statuses
        /\ "Unknown" \in Statuses
    BY DEF Statuses
  <1>4. cur' = cur /\ Root \in S
    BY DEF OpenUnknown, CloseOpen, CloseInvalid, Path, PathWith
  <1>5. CASE OpenUnknown
    <2>1. StatusOf(cur) = "Unknown" /\ c = "(" /\ SetStatus(cur, "Opening")
      BY <1>5 DEF OpenUnknown, Takes, branch
    <2>2. /\ NodesWith("Opening")' = NodesWith("Opening") \cup {cur}
          /\ NodesWith("Invalid")' = NodesWith("Invalid") \ {cur}
          /\ StatusOf(cur)' = "Opening"
          /\ \A r \in S \ {cur} : StatusOf(r)' = StatusOf(r)
          /\ Unbranched(d, S)'
      BY <1>3, <1>4, <2>1, StatusMarks
    <2>3. cur # Root /\ NodesWith("Opening") = {} /\ NodesWith("Invalid") = {}
      BY <1>1, <1>2, <2>1 DEF Marked
    <2>4. IsFiniteSet({cur})
      BY FS_Singleton
    <2>5. Marked(S)'
      BY <1>1, <1>2, <1>4, <2>2, <2>3, <2>4 DEF Marked
    <2>6. ~CloseOpen /\ ~CloseInvalid
      BY <2>1 DEF CloseOpen, CloseInvalid, Takes, branch
    <2>. QED
      BY <2>2, <2>3, <2>5, <2>6
  <1>6. CASE CloseOpen
    <2>1. StatusOf(cur) = "Opening" /\ c = ")" /\ SetStatus(cur, "Pair")
      BY <1>6 DEF CloseOpen, Takes, branch
    <2>2. /\ NodesWith("Opening")' = NodesWith("Opening") \ {cur}
          /\ NodesWith("Invalid")' = NodesWith("Invalid") \ {cur}
          /\ StatusOf(cur)' = "Pair"
          /\ \A r \in S \ {cur} : StatusOf(r)' = StatusOf(r)
          /\ Unbranched(d, S)'
      BY <1>3, <1>4, <2>1, StatusMarks
    <2>3. cur # Root /\ cur \in NodesWith("Opening") /\ NodesWith("Invalid") = {}
      BY <1>1, <1>2, <1>3, <2>1 DEF Marked
    <2>4. IsFiniteSet(NodesWith("Opening") \ {cur})
      BY <1>1, FS_RemoveElement DEF Marked
    <2>5. Marked(S)'
      BY <1>1, <1>2, <1>4, <2>2, <2>3, <2>4 DEF Marked
    <2>6. ~OpenUnknown /\ ~CloseInvalid
      BY <2>1 DEF OpenUnknown, CloseInvalid, Takes, branch
    <2>. QED
      BY <2>2, <2>3, <2>5, <2>6
  <1>7. CASE CloseInvalid
    <2>1. StatusOf(cur) \notin {"Opening", "Pair"} /\ c = ")" /\ SetStatus(cur, "Invalid")
      BY <1>7 DEF CloseInvalid, Takes, branch
    <2>2. /\ NodesWith("Opening")' = NodesWith("Opening") \ {cur}
          /\ NodesWith("Invalid")' = NodesWith("Invalid") \cup {cur}
          /\ StatusOf(cur)' = "Invalid"
          /\ \A r \in S \ {cur} : StatusOf(r)' = StatusOf(r)
          /\ Unbranched(d, S)'
      BY <1>3, <1>4, <2>1, StatusMarks
    <2>3. cur \notin NodesWith("Opening") /\ NodesWith("Invalid") \subseteq {cur}
      BY <1>1, <1>2, <1>3, <2>1 DEF Marked
    <2>4. NodesWith("Opening")' = NodesWith("Opening") /\ NodesWith("Invalid")' = {cur}
      BY <2>2, <2>3
    <2>5. Marked(S)'
      BY <1>1, <1>2, <1>4, <2>2, <2>4 DEF Marked
    <2>6. NodesWith("Invalid") = {} => NodesWith("Opening") = {}
      <3>1. NodesWith("Invalid") = {} => StatusOf(cur) = "Unknown"
        BY <1>2, <1>3, <2>1 DEF Statuses
      <3>. QED
        BY <1>1, <3>1 DEF Marked
    <2>7. ~OpenUnknown /\ ~CloseOpen
      BY <2>1 DEF OpenUnknown, CloseOpen, Takes, branch
    <2>. QED
      BY <2>2, <2>4, <2>5, <2>6, <2>7
  <1>. QED
    BY <1>5, <1>6, <1>7

(* A "(" that adds a node: the array that moves holds no open node, so that one
   node more is open than before. *)
LEMMA GrowSteps ==
  ASSUME Typed, NEW d, NEW S, Path(d, S), OpenChild \/ OpenSibling
  PROVE  /\ cur' \notin NodesWith("Opening")
         /\ NodesWith("Opening")' = NodesWith("Opening") \cup {cur'}
         /\ NodesWith("Invalid") = {} /\ NodesWith("Invalid")' = {}
         /\ Typed'
         /\ \E e, T : Path(e, T)'
  <1>0. TreeWith(d) /\ PathWith(d, S) /\ Unbranched(d, S) /\ Marked(S) /\ Shallow(d)
    BY DEF Path
  <1>1. /\ cur \in S /\ Live(cur) /\ StatusOf(cur) \in Statuses
        /\ \A st \in Statuses : cur \in NodesWith(st) <=> StatusOf(cur) = st
        /\ StatusOf(cur) # "Invalid" => NodesWith("Invalid") = {}
    BY MarkOfCur
  <1>2. "Opening" \in Statuses /\ "Invalid" \in Statuses
    BY DEF Statuses
  <1>3. /\ read' = read /\ c' = c /\ pc = "parse" /\ pc' = "read" /\ read \in Nat
        /\ \A a \in DOMAIN heap : d[a] \in Nat
    BY <1>0 DEF OpenChild, OpenSibling, Return, Takes, TreeWith, Typed
  <1>4. PICK p \in S : /\ node_add_child(p, cur, "Opening")
                       /\ \/ p = cur /\ StatusOf(cur) = "Opening"
                          \/ /\ cur # Root /\ StatusOf(cur) = "Pair"
                             /\ d[cur[1]] = d[p[1]] + 1
    <2>1. CASE OpenChild
      BY <1>1, <2>1 DEF OpenChild, Takes, branch
    <2>2. CASE OpenSibling
      <3>1. StatusOf(cur) = "Pair" /\ node_add_child(node_parent(cur), cur, "Opening")
        BY <2>2 DEF OpenSibling, Takes, branch
      <3>2. cur # Root
        BY <1>0, <3>1 DEF Marked
      <3>. QED
        BY <1>0, <1>1, <3>1, <3>2, ParentOnPath
    <2>. QED
      BY <2>1, <2>2
  <1>5. /\ heap' \in [DOMAIN heap' -> Seq(Nodes)]
        /\ fresh' \in Nat /\ DOMAIN heap' \subseteq 1..fresh' - 1 /\ cur' \in Pointers
        /\ \E id : /\ GrownHeap(p[1], p[2], "Opening", id)
                   /\ id = Node(p).kids \/ id \notin DOMAIN heap
                   /\ cur' = <<id, Len(Elder(p)) + 1>>
        /\ \E e, T : /\ T = {r \in S : d[r[1]] =< d[p[1]]} \cup {cur'}
                     /\ TreeWith(e)' /\ PathWith(e, T)' /\ Unbranched(e, T)'
                     /\ e[cur'[1]] = d[p[1]] + 1
                     /\ \A a \in DOMAIN heap' \ {cur'[1]} : a \in DOMAIN heap /\ e[a] = d[a]
    BY <1>0, <1>2, <1>4, GrownPath
  <1>6. PICK id : /\ GrownHeap(p[1], p[2], "Opening", id)
                  /\ id = Node(p).kids \/ id \notin DOMAIN heap
                  /\ cur' = <<id, Len(Elder(p)) + 1>>
    BY <1>5
  <1>7. PICK e : \E T : /\ T = {r \in S : d[r[1]] =< d[p[1]]} \cup {cur'}
                        /\ TreeWith(e)' /\ PathWith(e, T)' /\ Unbranched(e, T)'
                        /\ e[cur'[1]] = d[p[1]] + 1
                        /\ \A a \in DOMAIN heap' \ {cur'[1]} : a \in DOMAIN heap /\ e[a] = d[a]
    BY <1>5
  <1>8. PICK T : /\ T = {r \in S : d[r[1]] =< d[p[1]]} \cup {cur'}
                 /\ TreeWith(e)' /\ PathWith(e, T)' /\ Unbranched(e, T)'
                 /\ e[cur'[1]] = d[p[1]] + 1
                 /\ \A a \in DOMAIN heap' \ {cur'[1]} : a \in DOMAIN heap /\ e[a] = d[a]
    BY <1>7
  <1>9. PICK q \in DOMAIN heap : \E j \in DOMAIN heap[q] : p = <<q, j>>
    BY <1>0 DEF PathWith, Live, Pointers
  <1>10. PICK j \in DOMAIN heap[q] : p = <<q, j>>
    BY <1>9
  <1>. DEFINE old == Kids(q, j)
              elder == Elder(p)
              new == NewNode("Opening", p)
  <1>11. Node(p).kids = old /\ elder = IF old = NullArray THEN <<>> ELSE heap[old]
    BY <1>10 DEF Node, Kids, Elder
  <1>12. /\ DOMAIN heap' = (DOMAIN heap \ {old}) \cup {id} /\ id # 1
         /\ \A a \in DOMAIN heap' \ {id} :
              /\ a \in DOMAIN heap /\ DOMAIN heap'[a] = DOMAIN heap[a]
              /\ \A i \in DOMAIN heap[a] : heap'[a][i].status = heap[a][i].status
         /\ elder \in Seq(Nodes)
         /\ heap'[id] = Append(elder, new)
    BY <1>6, <1>10 DEF GrownHeap
  <1>13. old # NullArray => old \in DOMAIN heap /\ d[old] = d[q] + 1
    BY <1>0, KidsAreDeeper DEF Kids
  <1>14. id = old \/ id \notin DOMAIN heap
    BY <1>6, <1>11
  <1>15. new.status = "Opening"
    BY DEF NewNode
  <1>. HIDE DEF elder, new, old
  <1>16. /\ DOMAIN heap'[id] = 1..Len(elder) + 1 /\ Len(elder) \in Nat
         /\ DOMAIN elder = 1..Len(elder)
         /\ \A i \in DOMAIN elder : heap'[id][i] = elder[i]
         /\ heap'[id][Len(elder) + 1] = new
    BY <1>12, AppendProperties
  <1>17. cur' = <<id, Len(elder) + 1>>
    BY <1>6 DEF elder
  <1>18. NodesWith("Invalid") = {}
    BY <1>1, <1>4
  <1>19. ASSUME old # NullArray, NEW i \in DOMAIN heap[old]
         PROVE  heap[old][i].status \notin {"Opening", "Invalid"}
    <2>1. old \in DOMAIN heap /\ <<old, i>>[1] = old
      BY <1>13, <1>19
    <2>2. heap[old][i].status # "Invalid"
      BY <1>18, <1>19, <2>1, NodesAre
    <2>3. ASSUME heap[old][i].status = "Opening"
          PROVE  FALSE
      <3>1. <<old, i>> \in NodesWith("Opening")
        BY <1>19, <2>1, <2>3, NodesAre
      <3>2. <<old, i>> \in S
        BY <1>0, <3>1 DEF Marked
      <3>3. d[old] =< d[cur[1]] /\ d[old] = d[p[1]] + 1
        BY <1>0, <1>10, <1>13, <1>19, <2>1, <3>2 DEF PathWith
      <3>4. d[p[1]] \in Nat /\ d[cur[1]] \in Nat /\ d[old] \in Nat
        BY <1>0, <1>3, <1>1, <2>1 DEF PathWith, Live
      <3>5. d[old] = d[cur[1]] /\ StatusOf(cur) = "Pair"
        BY <1>4, <3>3, <3>4
      <3>6. <<old, i>> = cur
        BY <1>0, <1>1, <2>1, <3>2, <3>5 DEF Unbranched
      <3>. QED
        BY <1>1, <1>2, <3>1, <3>5, <3>6
    <2>. QED
      BY <2>2, <2>3
  <1>20. \A i \in DOMAIN elder : elder[i].status \notin {"Opening", "Invalid"}
    <2>1. CASE old = NullArray
      BY <1>11, <2>1
    <2>2. CASE old # NullArray
      BY <1>11, <1>19, <2>2
    <2>. QED
      BY <2>1, <2>2
  <1>21. ASSUME NEW r, NEW st \in {"Opening", "Invalid"}, r \in NodesWith(st)
         PROVE  r \in NodesWith(st)' /\ r # cur'
    <2>1. PICK a \in DOMAIN heap : \E i \in DOMAIN heap[a] : r = <<a, i>> /\ heap[a][i].status = st
      BY <1>21, NodesAre
    <2>2. PICK i \in DOMAIN heap[a] : r = <<a, i>> /\ heap[a][i].status = st
      BY <2>1
    <2>3. a # old
      BY <1>19, <2>1, <2>2 DEF Typed, NullArray
    <2>4. a \in DOMAIN heap' \ {id}
      BY <1>12, <1>14, <2>3
    <2>5. r \in NodesWith(st)'
      BY <1>12, <2>2, <2>4, NodesAre
    <2>. QED
      BY <1>17, <2>2, <2>4, <2>5
  <1>22. ASSUME NEW r, NEW st \in {"Opening", "Invalid"}, r \in NodesWith(st)'
         PROVE  r \in NodesWith(st) \/ (r = cur' /\ st = "Opening")
    <2>1. PICK a \in DOMAIN heap' : \E i \in DOMAIN heap'[a] : r = <<a, i>> /\ heap'[a][i].status = st
      BY <1>22, NodesAre
    <2>2. PICK i \in DOMAIN heap'[a] : r = <<a, i>> /\ heap'[a][i].status = st
      BY <2>1
    <2>3. CASE a = id
      <3>1. i \notin DOMAIN elder
        BY <1>16, <1>20, <2>2, <2>3
      <3>2. i = Len(elder) + 1
        BY <1>16, <2>2, <2>3, <3>1
      <3>. QED
        BY <1>15, <1>16, <1>17, <2>2, <2>3, <3>2
    <2>4. CASE a # id
      BY <1>12, <2>2, <2>4, NodesAre
    <2>. QED
      BY <2>3, <2>4
  <1>23. cur' \in NodesWith("Opening")'
    <2>1. id \in DOMAIN heap' /\ Len(elder) + 1 \in DOMAIN heap'[id]
          /\ heap'[id][Len(elder) + 1].status = "Opening"
      BY <1>12, <1>15, <1>16
    <2>. QED
      BY <1>17, <2>1, NodesAre
  <1>24. /\ cur' \notin NodesWith("Opening")
         /\ NodesWith("Opening")' = NodesWith("Opening") \cup {cur'}
         /\ NodesWith("Invalid")' = {}
    <2>1. "Opening" \in {"Opening", "Invalid"} /\ "Invalid" \in {"Opening", "Invalid"}
      OBVIOUS
    <2>2. cur' \notin NodesWith("Opening")
      BY <1>21, <2>1
    <2>3. \A r : r \in NodesWith("Opening")' <=> r \in NodesWith("Opening") \cup {cur'}
      BY <1>21, <1>22, <1>23, <2>1
    <2>4. \A r : r \notin NodesWith("Invalid")'
      BY <1>18, <1>22, <2>1
    <2>. QED
      BY <2>2, <2>3, <2>4
  <1>25. ASSUME NEW r \in S, d[r[1]] =< d[p[1]]
         PROVE  /\ r = cur => StatusOf(cur) = "Opening"
                /\ StatusOf(r)' = StatusOf(r)
    <2>1. /\ r[1] \in DOMAIN heap /\ r[2] \in DOMAIN heap[r[1]]
          /\ d[r[1]] \in Nat /\ d[p[1]] \in Nat
      BY <1>0, <1>3 DEF PathWith, Live
    <2>2. r[1] # old
      BY <1>10, <1>13, <1>25, <2>1 DEF Typed, NullArray
    <2>3. r[1] \in DOMAIN heap' \ {id}
      BY <1>12, <1>14, <2>1, <2>2
    <2>4. StatusOf(r)' = StatusOf(r)
      BY <1>12, <2>1, <2>3 DEF StatusOf, Node
    <2>5. r = cur => StatusOf(cur) = "Opening"
      BY <1>4, <1>25, <2>1
    <2>. QED
      BY <2>4, <2>5
  <1>26. ASSUME NEW r \in NodesWith("Opening")
         PROVE  r \in S /\ d[r[1]] =< d[p[1]]
    <2>1. r \in S /\ d[r[1]] =< d[cur[1]]
      BY <1>0 DEF Marked, PathWith
    <2>2. d[r[1]] \in Nat /\ d[p[1]] \in Nat /\ d[cur[1]] \in Nat
      BY <1>0, <1>1, <1>3, <2>1 DEF PathWith, Live
    <2>3. CASE p = cur
      BY <2>1, <2>3
    <2>4. CASE d[cur[1]] = d[p[1]] + 1 /\ StatusOf(cur) = "Pair"
      <3>1. r # cur
        BY <1>1, <1>2, <2>4
      <3>2. d[r[1]] # d[cur[1]]
        BY <1>0, <1>1, <2>1, <3>1 DEF Unbranched
      <3>. QED
        BY <2>1, <2>2, <2>4, <3>2
    <2>. QED
      BY <1>4, <2>3, <2>4
  <1>27. cur' # Root
    BY <1>12, <1>17 DEF Root
  <1>28. Marked(T)'
    <2>1. NodesWith("Opening")' \subseteq T /\ IsFiniteSet(NodesWith("Opening")')
      BY <1>0, <1>8, <1>24, <1>26, FS_AddElement DEF Marked
    <2>2. \A r \in T \ {cur', Root} : StatusOf(r)' = "Opening"
      <3>1. ASSUME NEW r \in T \ {cur', Root}
            PROVE  StatusOf(r)' = "Opening"
        <4>1. r \in S /\ d[r[1]] =< d[p[1]]
          BY <1>8, <3>1
        <4>2. StatusOf(r) = "Opening"
          BY <1>0, <1>25, <3>1, <4>1 DEF Marked
        <4>. QED
          BY <1>25, <4>1, <4>2
      <3>. QED
        BY <3>1
    <2>3. StatusOf(Root)' = StatusOf(Root)
      <3>1. Root \in S /\ d[Root[1]] =< d[p[1]]
        BY <1>0, <1>3 DEF PathWith, TreeWith, Root, Live
      <3>. QED
        BY <1>25, <3>1
    <2>4. StatusOf(cur)' = "Opening"
      BY <1>15, <1>16, <1>17 DEF StatusOf, Node
    <2>. QED
      BY <1>0, <1>24, <1>27, <2>1, <2>2, <2>3, <2>4 DEF Marked
  <1>29. Shallow(e)'
    <2>1. d[p[1]] =< read /\ d[p[1]] \in Nat /\ \A a \in DOMAIN heap : d[a] =< read
      BY <1>0, <1>3, <1>9, <1>10 DEF Shallow
    <2>2. \A a \in DOMAIN heap' : e[a] =< read + 1
      BY <1>3, <1>8, <2>1
    <2>. QED
      BY <1>3, <2>2 DEF Shallow
  <1>30. Typed'
    BY <1>3, <1>5 DEF Typed
  <1>. QED
    BY <1>8, <1>18, <1>24, <1>28, <1>29, <1>30 DEF Path

(* One level of the recursion: the nodes are as they were, and the pair that is
   left was not open. *)
LEMMA ClimbStep ==
  ASSUME Typed, NEW d, NEW S, Path(d, S), CloseClimb
  PROVE  Typed' /\ \E T : Path(d, T)'
  <1>0. TreeWith(d) /\ PathWith(d, S) /\ Unbranched(d, S) /\ Marked(S) /\ Shallow(d)
    BY DEF Path
  <1>1. /\ heap' = heap /\ cur' = node_parent(cur) /\ StatusOf(cur) = "Pair" /\ c = ")"
        /\ fresh' = fresh /\ read' = read /\ c' = c /\ pc = "parse" /\ pc' = "parse"
    BY DEF CloseClimb, Takes, branch
  <1>2. /\ cur' \in Pointers /\ TreeWith(d)'
        /\ \E T : /\ T = {r \in S : d[r[1]] =< d[cur'[1]]}
                  /\ PathWith(d, T)' /\ Unbranched(d, T)'
    BY <1>0, <1>1, ClimbedPath
  <1>3. PICK T : /\ T = {r \in S : d[r[1]] =< d[cur'[1]]}
                 /\ PathWith(d, T)' /\ Unbranched(d, T)'
    BY <1>2
  <1>4. /\ cur \in S /\ cur # Root
        /\ \A st \in Statuses : cur \in NodesWith(st) <=> StatusOf(cur) = st
        /\ NodesWith("Invalid") = {}
    BY <1>0, <1>1, MarkOfCur DEF Marked
  <1>5. cur' \in S /\ d[cur[1]] = d[cur'[1]] + 1
    BY <1>0, <1>1, <1>4, ParentOnPath
  <1>6. \A r \in S : d[r[1]] \in Nat
    BY <1>0 DEF PathWith, Live, TreeWith
  <1>7. \A st : NodesWith(st)' = NodesWith(st)
    BY <1>1 DEF NodesWith, StatusOf, Node
  <1>8. \A r \in S : StatusOf(r)' = StatusOf(r)
    BY <1>1 DEF StatusOf, Node
  <1>9. NodesWith("Opening") \subseteq T
    <2>1. ASSUME NEW r \in NodesWith("Opening")
          PROVE  r \in T
      <3>1. r \in S /\ r # cur
        BY <1>0, <1>1, <1>4 DEF Marked, Statuses
      <3>2. d[r[1]] =< d[cur[1]] /\ d[r[1]] # d[cur[1]]
        BY <1>0, <1>4, <3>1 DEF PathWith, Unbranched
      <3>. QED
        BY <1>3, <1>4, <1>5, <1>6, <3>1, <3>2
    <2>. QED
      BY <2>1
  <1>10. cur \notin T /\ T \subseteq S /\ Root \in S
    BY <1>0, <1>3, <1>4, <1>5, <1>6 DEF PathWith
  <1>11. cur' = Root => NodesWith("Opening") = {}
    <2>1. ASSUME cur' = Root, NEW r \in NodesWith("Opening")
          PROVE  FALSE
      <3>1. r \in S /\ d[r[1]] =< d[Root[1]] /\ d[Root[1]] = 0
        BY <1>0, <1>3, <1>9, <2>1 DEF TreeWith, Root
      <3>2. r = Root
        BY <1>0, <1>6, <1>10, <3>1 DEF Unbranched
      <3>3. StatusOf(r) = "Opening"
        BY DEF NodesWith
      <3>. QED
        BY <1>0, <3>2, <3>3 DEF Marked
    <2>. QED
      BY <2>1
  <1>12. cur' # Root => StatusOf(cur') = "Opening"
    <2>1. cur' \in T \ {cur}
      BY <1>3, <1>5, <1>6, <1>10
    <2>. QED
      BY <1>0, <1>10, <2>1 DEF Marked
  <1>13. StatusOf(cur)' = StatusOf(cur')
    BY <1>1 DEF StatusOf, Node
  <1>14. Marked(T)'
    <2>1. \A r \in T \ {cur', Root} : StatusOf(r)' = "Opening"
      BY <1>0, <1>8, <1>10 DEF Marked
    <2>2. StatusOf(Root)' \in {"Unknown", "Invalid"}
      BY <1>0, <1>8, <1>10 DEF Marked
    <2>3. StatusOf(cur)' = "Unknown" => NodesWith("Opening")' = {}
      BY <1>7, <1>11, <1>12, <1>13
    <2>. QED
      BY <1>0, <1>1, <1>4, <1>7, <1>9, <2>1, <2>2, <2>3 DEF Marked
  <1>15. Shallow(d)' /\ Typed'
    BY <1>0, <1>1, <1>2 DEF Shallow, Typed
  <1>. QED
    BY <1>2, <1>3, <1>14, <1>15 DEF Path

(* A step that leaves heap and current node alone. *)
LEMMA SamePath ==
  ASSUME Typed, NEW d, NEW S, Path(d, S), UNCHANGED <<heap, cur, fresh>>,
         read' \in 0..MaxLen, c' \in Chars,
         read + (IF pc = "read" THEN 1 ELSE 0) =< read' + (IF pc' = "read" THEN 1 ELSE 0),
         cur = Root => StatusOf(Root) = "Invalid" \/ (pc' = "parse" /\ c' = ")")
  PROVE  Typed' /\ Path(d, S)'
  <1>1. TreeWith(d)' /\ PathWith(d, S)'
    BY SameShape DEF Path
  <1>2. Unbranched(d, S)'
    BY DEF Path, Unbranched, Node
  <1>3. /\ \A st : NodesWith(st)' = NodesWith(st)
        /\ \A r : StatusOf(r)' = StatusOf(r)
    BY DEF NodesWith, StatusOf, Node
  <1>4. Marked(S)'
    <2>1. Marked(S)
      BY DEF Path
    <2>. QED
      BY <1>3, <2>1 DEF Marked, StatusOf, Node
  <1>5. Shallow(d)'
    <2>1. \A a \in DOMAIN heap : d[a] \in Nat
      BY DEF Path, TreeWith
    <2>2. read \in Nat /\ read' \in Nat
      BY MaxLenAssumption DEF Typed
    <2>. QED
      BY <2>1, <2>2 DEF Path, Shallow
  <1>6. Typed'
    BY DEF Typed
  <1>. QED
    BY <1>1, <1>2, <1>4, <1>5, <1>6 DEF Path

LEMMA InvStep == IInv /\ [Next]_vars => IInv'
  <1>. SUFFICES ASSUME IInv, [Next]_vars, pc' # "done"
                PROVE  IInv'
    BY DEF IInv
  <1>1. pc # "done"
    BY DEF Next, NextChar, Parse, OpenUnknown, OpenChild, OpenSibling, CloseOpen, CloseClimb,
           CloseInvalid, Ignore, Takes, EndOfString, Terminated, vars
  <1>2. Typed /\ \E d, S : Path(d, S)
    BY <1>1 DEF IInv
  <1>3. PICK d, S : Path(d, S)
    BY <1>2
  <1>4. read \in 0..MaxLen /\ read \in Nat /\ c \in Chars
    BY <1>2, MaxLenAssumption DEF Typed
  <1>5. cur = Root => StatusOf(Root) = "Invalid" \/ (pc = "parse" /\ c = ")")
    BY <1>3 DEF Path, Marked
  <1>6. CASE NextChar
    <2>1. /\ UNCHANGED <<heap, fresh, cur>> /\ c' \in Chars
          /\ pc = "read" /\ pc' = "parse" /\ read < MaxLen /\ read' = read + 1
      BY <1>6 DEF NextChar
    <2>2. Path(d, S)' /\ Typed'
      BY <1>2, <1>3, <1>4, <1>5, <2>1, SamePath, MaxLenAssumption
    <2>. QED
      BY <2>2 DEF IInv
  <1>7. CASE Ignore
    <2>1. /\ UNCHANGED <<heap, fresh, cur, c, read>> /\ pc = "parse" /\ pc' = "read"
          /\ branch(c, StatusOf(cur)) = "ignore"
      BY <1>7 DEF Ignore, Takes, Return
    <2>2. cur = Root => StatusOf(Root) = "Invalid"
      <3>1. c = ")" => StatusOf(cur) \in {"Opening", "Pair"}
        BY <2>1 DEF branch
      <3>. QED
        BY <1>3, <1>5, <3>1 DEF Path, Marked
    <2>3. Path(d, S)' /\ Typed'
      BY <1>2, <1>3, <1>4, <2>1, <2>2, SamePath
    <2>. QED
      BY <2>3 DEF IInv
  <1>8. CASE UNCHANGED vars
    <2>1. UNCHANGED <<heap, fresh, cur, c, read, pc>>
      BY <1>8 DEF vars
    <2>2. Path(d, S)' /\ Typed'
      BY <1>2, <1>3, <1>4, <1>5, <2>1, SamePath
    <2>. QED
      BY <2>2 DEF IInv
  <1>9. CASE OpenUnknown \/ CloseOpen \/ CloseInvalid
    <2>1. PICK st \in Statuses : SetStatus(cur, st)
      BY <1>9 DEF OpenUnknown, CloseOpen, CloseInvalid, Statuses
    <2>2. cur' = cur /\ fresh' = fresh /\ read' = read /\ c' = c /\ pc = "parse" /\ pc' = "read"
      BY <1>9 DEF OpenUnknown, CloseOpen, CloseInvalid, Return, Takes
    <2>3. heap' \in [DOMAIN heap -> Seq(Nodes)] /\ TreeWith(d)' /\ PathWith(d, S)'
      BY <1>2, <1>3, <2>1, <2>2, StatusPath DEF Path
    <2>4. Marked(S)' /\ Unbranched(d, S)'
      BY <1>2, <1>3, <1>9, StatusSteps
    <2>5. DOMAIN heap' = DOMAIN heap
      BY <2>3
    <2>6. Typed'
      BY <1>2, <2>2, <2>3, <2>5 DEF Typed
    <2>7. Shallow(d)'
      <3>1. \A a \in DOMAIN heap : d[a] \in Nat /\ d[a] =< read
        BY <1>3, <1>4, <2>2 DEF Path, Shallow, TreeWith
      <3>. QED
        BY <1>4, <2>2, <2>5, <3>1 DEF Shallow
    <2>. QED
      BY <2>3, <2>4, <2>6, <2>7 DEF IInv, Path
  <1>10. CASE OpenChild \/ OpenSibling
    BY <1>2, <1>3, <1>10, GrowSteps DEF IInv
  <1>11. CASE CloseClimb
    BY <1>2, <1>3, <1>11, ClimbStep DEF IInv
  <1>12. ~EndOfString /\ ~Terminated
    BY <1>1 DEF EndOfString, Terminated
  <1>. QED
    BY <1>6, <1>7, <1>8, <1>9, <1>10, <1>11, <1>12 DEF Next, Parse

LEMMA Invariance == Spec => []IInv
  BY InvInit, InvStep, PTL DEF Spec

-----------------------------------------------------------------------------
(* What follows for the parser.                                            *)

(* Every array but the root's belongs to one node, however long the string:
   no realloc loses an array or leaves two nodes that would free it. *)
THEOREM ArraysOwnedOnce == Spec => []OwnedOnce
  <1>1. IInv => OwnedOnce
    <2>. SUFFICES ASSUME IInv, pc # "done", NEW b \in DOMAIN heap \ {1}
                  PROVE  Cardinality({r \in UNION {{a} \X DOMAIN heap[a] : a \in DOMAIN heap} :
                                        Node(r).kids = b}) = 1
      BY DEF OwnedOnce, Root
    <2>1. PICK d : TreeWith(d)
      BY DEF IInv, Path
    <2>2. b # NullArray
      BY DEF IInv, Typed, NullArray
    <2>3. PICK q \in DOMAIN heap : \E j \in DOMAIN heap[q] : Kids(q, j) = b
      BY <2>1 DEF TreeWith
    <2>4. PICK j \in DOMAIN heap[q] : Kids(q, j) = b
      BY <2>3
    <2>5. \A a \in DOMAIN heap : \A i \in DOMAIN heap[a] : Kids(a, i) = b => a = q /\ i = j
      BY <2>1, <2>2, <2>4 DEF TreeWith
    <2>6. {r \in UNION {{a} \X DOMAIN heap[a] : a \in DOMAIN heap} : Node(r).kids = b}
            = {<<q, j>>}
      <3>1. ASSUME NEW r \in UNION {{a} \X DOMAIN heap[a] : a \in DOMAIN heap}, Node(r).kids = b
            PROVE  r = <<q, j>>
        BY <2>5, <3>1 DEF Node, Kids
      <3>2. <<q, j>> \in UNION {{a} \X DOMAIN heap[a] : a \in DOMAIN heap}
        OBVIOUS
      <3>3. Node(<<q, j>>).kids = b
        BY <2>4 DEF Node, Kids
      <3>. QED
        BY <3>1, <3>2, <3>3
    <2>. QED
      BY <2>6, FS_Singleton
  <1>. QED
    BY <1>1, Invariance, PTL

(* A set of numbers has a least one: the induction used below. *)
LEMMA Least ==
  ASSUME NEW B \in SUBSET Nat, B # {}
  PROVE  \E m \in B : \A n \in B : m =< n
  <1>1. PICK m \in B : \A n \in B : ~ (<<n, m>> \in OpToRel(<, Nat))
    BY WFMin, NatLessThanWellFounded
  <1>2. \A n \in B : ~ (n < m)
    BY <1>1 DEF OpToRel
  <1>. QED
    BY <1>2

(* The climb from the current node is defined. *)
LEMMA AboveDef ==
  /\ Above[0] = cur
  /\ \A n \in 1..MaxLen + 2 : Above[n] = Up(Above[n - 1])
  <1>. DEFINE N == MaxLen + 2
              Climb(f, m) == /\ f = [n \in 0..m |-> f[n]] /\ f[0] = cur
                             /\ \A n \in 1..m : f[n] = Up(f[n - 1])
              Bad == {m \in 0..N : ~ \E f : Climb(f, m)}
  <1>0. N \in Nat
    BY MaxLenAssumption
  <1>1. Bad = {}
    <2>. SUFFICES ASSUME Bad # {} PROVE FALSE
      OBVIOUS
    <2>1. PICK m \in Bad : \A n \in Bad : m =< n
      <3>1. Bad \in SUBSET Nat
        OBVIOUS
      <3>. HIDE DEF Bad
      <3>. QED
        BY <3>1, Least
    <2>2. m \in 0..N /\ m \in Nat /\ ~ \E f : Climb(f, m)
      BY <1>0
    <2>3. CASE m = 0
      <3>1. PICK f : f = [n \in 0..0 |-> cur]
        OBVIOUS
      <3>2. Climb(f, 0)
        BY <3>1
      <3>. QED
        BY <2>2, <2>3, <3>2
    <2>4. CASE m # 0
      <3>1. m - 1 \in 0..N /\ ~ (m =< m - 1)
        BY <1>0, <2>2, <2>4
      <3>2. PICK g : Climb(g, m - 1)
        BY <2>1, <3>1
      <3>3. PICK f : f = [n \in 0..m |-> IF n = m THEN Up(g[m - 1]) ELSE g[n]]
        OBVIOUS
      <3>4. /\ f = [n \in 0..m |-> f[n]] /\ f[0] = cur
            /\ f[m] = Up(f[m - 1])
        BY <2>2, <2>4, <3>2, <3>3
      <3>5. ASSUME NEW n \in 1..m PROVE f[n] = Up(f[n - 1])
        <4>1. CASE n = m
          BY <3>4, <4>1
        <4>2. CASE n # m
          <5>1. n \in 1..m - 1 /\ n - 1 \in 0..m /\ n - 1 # m
            BY <2>2, <4>2
          <5>2. f[n] = g[n] /\ f[n - 1] = g[n - 1]
            BY <2>2, <3>3, <4>2, <5>1
          <5>. QED
            BY <3>2, <5>1, <5>2
        <4>. QED
          BY <4>1, <4>2
      <3>6. Climb(f, m)
        BY <3>4, <3>5
      <3>. QED
        BY <2>2, <3>6
    <2>. QED
      BY <2>3, <2>4
  <1>2. PICK f : Climb(f, N)
    BY <1>0, <1>1
  <1>3. f = [n \in 0..N |-> IF n = 0 THEN cur ELSE Up(f[n - 1])]
    <2>1. ASSUME NEW n \in 0..N
          PROVE  f[n] = IF n = 0 THEN cur ELSE Up(f[n - 1])
      <3>1. CASE n = 0
        BY <1>2, <3>1
      <3>2. CASE n # 0
        <4>1. n \in 1..N
          BY <1>0, <3>2
        <4>. QED
          BY <1>2, <3>2, <4>1
      <3>. QED
        BY <3>1, <3>2
    <2>. QED
      BY <1>2, <2>1
  <1>4. Above = [n \in 0..N |-> IF n = 0 THEN cur ELSE Up(Above[n - 1])]
    BY <1>3 DEF Above
  <1>. QED
    BY <1>0, <1>4

(* However long the string and whichever reallocs move: the current node and
   every node a ")" may climb to lie in arrays that are not freed, and the climb
   ends at the root. *)
THEOREM NoPointerDangles == Spec => []NoDangling
  <1>1. IInv => NoDangling
    <2>. SUFFICES ASSUME IInv, pc # "done"
                  PROVE  /\ \A n \in 0..MaxLen + 2 : Live(Above[n])
                         /\ Above[MaxLen + 2] = Root
      BY DEF NoDangling
    <2>1. Typed /\ \E d, S : TreeWith(d) /\ PathWith(d, S) /\ Shallow(d)
      BY DEF IInv, Path
    <2>2. PICK d : \E S : TreeWith(d) /\ PathWith(d, S) /\ Shallow(d)
      BY <2>1
    <2>3. PICK S : TreeWith(d) /\ PathWith(d, S) /\ Shallow(d)
      BY <2>2
    <2>. DEFINE N == MaxLen + 2
                On(n) == /\ Above[n] \in S
                         /\ Above[n] = Root \/ d[Above[n][1]] + n = d[cur[1]]
                Off == {n \in 0..N : ~On(n)}
    <2>4. \A r \in S : Live(r) /\ d[r[1]] \in Nat
      BY <2>3 DEF PathWith, Live, TreeWith
    <2>5. cur \in S /\ d[cur[1]] \in Nat /\ N \in Nat
      BY <2>3, <2>4, MaxLenAssumption DEF PathWith
    <2>6. On(0)
      BY <2>5, AboveDef
    <2>7. ASSUME NEW n \in 1..N, On(n - 1)
          PROVE  On(n)
      <3>1. Above[n] = node_parent(Above[n - 1])
        BY <2>4, <2>7, AboveDef DEF Up
      <3>2. PICK r \in S : r = Above[n - 1]
        BY <2>7
      <3>3. /\ node_parent(r) \in S
            /\ r = Root => node_parent(r) = Root
            /\ r # Root => d[r[1]] = d[node_parent(r)[1]] + 1
        BY <2>1, <2>3, ParentOnPath
      <3>4. CASE r = Root
        BY <3>1, <3>2, <3>3, <3>4
      <3>5. CASE r # Root
        <4>1. d[r[1]] + (n - 1) = d[cur[1]]
          BY <2>7, <3>2, <3>5
        <4>2. d[node_parent(r)[1]] \in Nat
          BY <2>4, <3>3
        <4>3. d[node_parent(r)[1]] + n = d[cur[1]]
          BY <2>5, <3>3, <3>5, <4>1, <4>2
        <4>. QED
          BY <3>1, <3>2, <3>3, <4>3
      <3>. QED
        BY <3>4, <3>5
    <2>8. Off = {}
      <3>. SUFFICES ASSUME Off # {} PROVE FALSE
        OBVIOUS
      <3>1. Off \in SUBSET Nat
        BY <2>5
      <3>2. PICK m \in Off : \A n \in Off : m =< n
        <4>. HIDE DEF Off
        <4>. QED
          BY <3>1, Least
      <3>. HIDE DEF On
      <3>3. m \in 0..N /\ m # 0 /\ ~On(m)
        BY <2>6
      <3>4. m \in 1..N /\ m - 1 \in 0..N /\ ~ (m =< m - 1)
        BY <2>5, <3>3
      <3>5. On(m - 1)
        BY <3>2, <3>4
      <3>. QED
        BY <2>7, <3>3, <3>4, <3>5
    <2>9. \A n \in 0..N : On(n)
      BY <2>8
    <2>10. d[cur[1]] =< MaxLen + 1
      <3>1. read \in 0..MaxLen /\ d[cur[1]] =< read + 1
        <4>1. read \in 0..MaxLen /\ read \in Nat
          BY <2>1, MaxLenAssumption DEF Typed
        <4>2. cur[1] \in DOMAIN heap
          BY <2>4, <2>5 DEF Live
        <4>3. d[cur[1]] =< read + (IF pc = "read" THEN 1 ELSE 0)
          BY <2>3, <4>2 DEF Shallow
        <4>. QED
          BY <2>5, <4>1, <4>3
      <3>. QED
        BY <2>5, <3>1, MaxLenAssumption
    <2>11. On(N)
      BY <2>5, <2>9
    <2>12. d[Above[N][1]] \in Nat
      BY <2>4, <2>11
    <2>13. Above[N] = Root
      BY <2>5, <2>10, <2>11, <2>12, MaxLenAssumption
    <2>. QED
      BY <2>4, <2>9, <2>13
  <1>. QED
    BY <1>1, Invariance, PTL

(* node_has_status finds an Invalid node if there is one: it looks at every node
   of the tree, and the tree is all there is. *)
LEMMA InvalidFound ==
  ASSUME Typed, NEW d, NEW S, Path(d, S)
  PROVE  HasStatus(Root, "Invalid") <=> NodesWith("Invalid") # {}
  <1>. DEFINE Refs == UNION {{a} \X DOMAIN heap[a] : a \in DOMAIN heap}
              Search(g) ==
                [r \in Refs |->
                   \/ StatusOf(r) = "Invalid"
                   \/ /\ Node(r).kids # NullArray
                      /\ \E i \in DOMAIN heap[Node(r).kids] : g[<<Node(r).kids, i>>]]
              has == CHOOSE g : g = Search(g)
  <1>0. TreeWith(d) /\ PathWith(d, S) /\ Unbranched(d, S) /\ Marked(S) /\ Shallow(d)
    BY DEF Path
  <1>1. HasStatus(Root, "Invalid") = has[Root]
    BY DEF HasStatus
  <1>2. \A r \in Refs : /\ r = <<r[1], r[2]>> /\ r[1] \in DOMAIN heap /\ r[2] \in DOMAIN heap[r[1]]
                        /\ d[r[1]] \in Nat
    BY <1>0 DEF TreeWith
  <1>3. \A r \in S : r \in Refs /\ r = <<r[1], r[2]>> /\ r[1] # NullArray
    <2>1. \A r \in S : /\ r = <<r[1], r[2]>> /\ r[1] \in DOMAIN heap
                       /\ r[2] \in DOMAIN heap[r[1]]
      BY <1>0 DEF PathWith, Live, Pointers
    <2>2. NullArray \notin DOMAIN heap
      BY DEF Typed, NullArray
    <2>. QED
      BY <2>1, <2>2
  <1>4. \A r \in Refs : r \in NodesWith("Invalid") <=> StatusOf(r) = "Invalid"
    BY DEF NodesWith
  <1>5. ASSUME NEW r \in Refs, Node(r).kids # NullArray, NEW i \in DOMAIN heap[Node(r).kids]
        PROVE  /\ <<Node(r).kids, i>> \in Refs /\ d[Node(r).kids] = d[r[1]] + 1
               /\ <<Node(r).kids, i>> # Root
    <2>1. Node(r).kids \in DOMAIN heap /\ d[Node(r).kids] = d[r[1]] + 1
      BY <1>0, <1>2, <1>5, KidsAreDeeper DEF Node
    <2>2. Node(r).kids # 1
      BY <1>0, <1>2, <2>1 DEF TreeWith
    <2>. QED
      BY <1>5, <2>1, <2>2 DEF Root
  <1>6. ASSUME NEW r \in Refs, NEW v \in S \ {Root}, v[1] = Node(r).kids
        PROVE  r \in S
    <2>1. PICK u \in S : u = Node(v).parent /\ Node(u).kids = v[1]
      BY <1>0, PathClimbs
    <2>2. /\ heap[u[1]][u[2]].kids = heap[r[1]][r[2]].kids
          /\ heap[u[1]][u[2]].kids # NullArray
      BY <1>3, <1>6, <2>1 DEF Node
    <2>3. u[1] = r[1] /\ u[2] = r[2]
      BY <1>0, <1>2, <1>3, <2>2 DEF TreeWith, Kids
    <2>. QED
      BY <1>2, <1>3, <2>3
  <1>7. \E g : g = Search(g)
    <2>1. PICK g : g = [r \in Refs |-> NodesWith("Invalid") # {} /\ r \in S]
      OBVIOUS
    <2>2. ASSUME NEW r \in Refs
          PROVE  g[r] = Search(g)[r]
      <3>1. ASSUME Node(r).kids # NullArray, NEW i \in DOMAIN heap[Node(r).kids],
                   g[<<Node(r).kids, i>>]
            PROVE  g[r]
        <4>1. /\ <<Node(r).kids, i>> \in S \ {Root} /\ NodesWith("Invalid") # {}
              /\ <<Node(r).kids, i>>[1] = Node(r).kids
          BY <1>5, <2>1, <3>1
        <4>2. r \in S
          BY <1>6, <4>1
        <4>. QED
          BY <2>1, <4>1, <4>2
      <3>2. StatusOf(r) = "Invalid" => g[r]
        BY <1>0, <1>4, <2>1 DEF Marked, PathWith
      <3>3. ASSUME g[r], StatusOf(r) # "Invalid"
            PROVE  /\ Node(r).kids # NullArray
                   /\ \E i \in DOMAIN heap[Node(r).kids] : g[<<Node(r).kids, i>>]
        <4>1. r \in S /\ NodesWith("Invalid") # {}
          BY <2>1, <3>3
        <4>2. r # cur
          BY <1>0, <1>4, <3>3, <4>1 DEF Marked
        <4>3. PICK v \in S : Node(r).kids = v[1]
          BY <1>0, <4>1, <4>2 DEF Unbranched
        <4>4. v[2] \in DOMAIN heap[Node(r).kids] /\ v = <<Node(r).kids, v[2]>>
          BY <1>2, <1>3, <4>3
        <4>5. Node(r).kids # NullArray /\ g[v]
          BY <1>3, <2>1, <4>1, <4>3
        <4>. QED
          BY <4>4, <4>5
      <3>4. g[r] \in BOOLEAN
        BY <2>1
      <3>. QED
        BY <3>1, <3>2, <3>3, <3>4
    <2>3. g = [r \in Refs |-> g[r]]
      BY <2>1
    <2>4. PICK h : h = Search(g)
      OBVIOUS
    <2>5. h = [r \in Refs |-> h[r]] /\ \A r \in Refs : g[r] = h[r]
      BY <2>2, <2>4
    <2>6. g = h
      <3>. HIDE DEF Refs
      <3>. QED
        BY <2>3, <2>5
    <2>. QED
      BY <2>4, <2>6
  <1>8. has = Search(has)
    BY <1>7
  <1>. HIDE DEF has
  <1>9. \A r \in Refs :
          has[r] <=> \/ StatusOf(r) = "Invalid"
                     \/ /\ Node(r).kids # NullArray
                        /\ \E i \in DOMAIN heap[Node(r).kids] : has[<<Node(r).kids, i>>]
    BY <1>8
  <1>. HIDE DEF Refs
  <1>10. CASE NodesWith("Invalid") = {}
    <2>. DEFINE B == {n \in Nat : \E r \in Refs : has[r] /\ n + d[r[1]] = read + 1}
    <2>1. read \in Nat /\ \A r \in Refs : d[r[1]] =< read + 1
      BY <1>0, <1>2, MaxLenAssumption DEF Typed, Shallow
    <2>2. B = {}
      <3>. SUFFICES ASSUME B # {} PROVE FALSE
        OBVIOUS
      <3>1. PICK m \in B : \A n \in B : m =< n
        <4>1. B \in SUBSET Nat
          OBVIOUS
        <4>. HIDE DEF B
        <4>. QED
          BY <4>1, Least
      <3>2. PICK r \in Refs : has[r] /\ m + d[r[1]] = read + 1
        OBVIOUS
      <3>3. PICK i \in DOMAIN heap[Node(r).kids] : Node(r).kids # NullArray
                                                   /\ has[<<Node(r).kids, i>>]
        BY <1>4, <1>9, <1>10, <3>2
      <3>4. PICK v \in Refs : has[v] /\ d[v[1]] = d[r[1]] + 1
        BY <1>5, <3>3
      <3>5. m \in Nat /\ d[r[1]] \in Nat /\ d[v[1]] =< read + 1
        BY <1>2, <2>1
      <3>6. m - 1 \in Nat /\ (m - 1) + d[v[1]] = read + 1
        BY <2>1, <3>2, <3>4, <3>5
      <3>7. m - 1 \in B
        BY <3>4, <3>6
      <3>. HIDE DEF B
      <3>8. m =< m - 1
        BY <3>1, <3>7
      <3>. QED
        BY <3>5, <3>8
    <2>3. ASSUME has[Root]
          PROVE  FALSE
      <3>1. Root \in Refs
        BY <1>0, <1>3 DEF PathWith
      <3>2. d[Root[1]] \in Nat /\ d[Root[1]] =< read + 1
        BY <1>2, <2>1, <3>1
      <3>3. PICK n \in Nat : n + d[Root[1]] = read + 1
        <4>1. (read + 1) - d[Root[1]] \in Nat
          BY <2>1, <3>2
        <4>. QED
          BY <2>1, <3>2, <4>1
      <3>4. n \in B
        BY <2>3, <3>1, <3>3
      <3>. QED
        BY <2>2, <3>4
    <2>. QED
      BY <1>1, <1>10, <2>3
  <1>11. CASE NodesWith("Invalid") # {}
    <2>1. cur \in NodesWith("Invalid") /\ cur \in S /\ Root \in S
      BY <1>0, <1>11 DEF Marked, PathWith
    <2>. DEFINE B == {n \in Nat : \E r \in S : ~has[r] /\ n + d[r[1]] = d[cur[1]]}
    <2>2. \A r \in S : d[r[1]] \in Nat /\ d[r[1]] =< d[cur[1]]
      BY <1>0, <1>2, <1>3 DEF PathWith
    <2>3. B = {}
      <3>. SUFFICES ASSUME B # {} PROVE FALSE
        OBVIOUS
      <3>1. PICK m \in B : \A n \in B : m =< n
        <4>1. B \in SUBSET Nat
          OBVIOUS
        <4>. HIDE DEF B
        <4>. QED
          BY <4>1, Least
      <3>2. PICK r \in S : ~has[r] /\ m + d[r[1]] = d[cur[1]]
        OBVIOUS
      <3>3. r # cur
        BY <1>3, <1>4, <1>9, <2>1, <3>2
      <3>4. PICK v \in S : Node(r).kids = v[1] /\ d[v[1]] = d[r[1]] + 1
        BY <1>0, <3>3, PathDescends
      <3>5. v[2] \in DOMAIN heap[Node(r).kids] /\ v = <<Node(r).kids, v[2]>>
            /\ Node(r).kids # NullArray
        BY <1>2, <1>3, <3>4
      <3>6. ~has[v]
        <4>1. r \in Refs /\ \A i \in DOMAIN heap[Node(r).kids] : ~has[<<Node(r).kids, i>>]
          BY <1>3, <1>9, <3>2, <3>5
        <4>2. ~has[<<Node(r).kids, v[2]>>]
          BY <3>5, <4>1
        <4>. QED
          BY <3>5, <4>2
      <3>7. m \in Nat /\ d[r[1]] \in Nat /\ d[cur[1]] \in Nat /\ d[v[1]] =< d[cur[1]]
        BY <2>1, <2>2
      <3>8. m - 1 \in Nat /\ (m - 1) + d[v[1]] = d[cur[1]]
        BY <3>2, <3>4, <3>7
      <3>9. m - 1 \in B
        BY <3>6, <3>8
      <3>. HIDE DEF B
      <3>10. m =< m - 1
        BY <3>1, <3>9
      <3>. QED
        BY <3>7, <3>10
    <2>4. ASSUME ~has[Root]
          PROVE  FALSE
      <3>1. d[Root[1]] \in Nat /\ d[Root[1]] =< d[cur[1]] /\ d[cur[1]] \in Nat
        BY <2>1, <2>2
      <3>2. PICK n \in Nat : n + d[Root[1]] = d[cur[1]]
        <4>1. d[cur[1]] - d[Root[1]] \in Nat
          BY <3>1
        <4>. QED
          BY <3>1, <4>1
      <3>3. n \in B
        BY <2>1, <2>4, <3>2
      <3>. QED
        BY <2>3, <3>3
    <2>. QED
      BY <1>1, <1>11, <2>4
  <1>. QED
    BY <1>10, <1>11

(* There is no answer before the end. *)
Unanswered == pc # "done" => answer = "none"

LEMMA UnansweredInvariance == Spec => []Unanswered
  <1>1. Init => Unanswered
    BY DEF Init, Unanswered
  <1>2. Unanswered /\ [Next]_vars => Unanswered'
    BY DEF Unanswered, Next, NextChar, Parse, OpenUnknown, OpenChild, OpenSibling, CloseOpen,
           CloseClimb, CloseInvalid, Ignore, Return, Takes, EndOfString, Terminated, vars
  <1>. QED
    BY <1>1, <1>2, PTL DEF Spec

(* However long the string, and wherever realloc puts the nodes, the parser with
   its tree implements the counter: each step opens one, closes one, refuses the
   ")" that has nothing to close, answers what the counter answers, or is not
   seen. *)
THEOREM ImplementsCounter == Spec => CountsTheDepth
  <1>1. Init => Counter!Init
    <2>. SUFFICES ASSUME Init PROVE Depth = 0 /\ Refused = FALSE /\ answer = "none"
      BY DEF Counter!Init
    <2>1. DOMAIN heap = {1, 2} /\ Len(heap[1]) = 1 /\ Len(heap[2]) = 1
          /\ heap[1][1].status = "Unknown" /\ heap[2][1].status = "Unknown"
          /\ DOMAIN heap[1] = {1} /\ DOMAIN heap[2] = {1}
      BY DEF Init, NewNode
    <2>2. NodesWith("Opening") = {} /\ NodesWith("Invalid") = {}
      BY <2>1, NodesAre
    <2>3. Depth = 0
      BY <2>2, FS_EmptySet DEF Depth
    <2>. QED
      BY <2>2, <2>3 DEF Refused, Init
  <1>2. IInv /\ Unanswered /\ [Next]_vars
          => [Counter!Open \/ Counter!Close \/ Counter!Excess \/ Counter!Answer]_<<Depth, Refused, answer>>
    <2>. SUFFICES ASSUME IInv, Unanswered, [Next]_vars
                  PROVE  \/ Counter!Open \/ Counter!Close \/ Counter!Excess \/ Counter!Answer
                         \/ Depth' = Depth /\ Refused' = Refused /\ answer' = answer
      OBVIOUS
    <2>1. /\ pc # "done" => Depth = Cardinality(NodesWith("Opening"))
          /\ pc # "done" => (Refused <=> NodesWith("Invalid") # {})
          /\ pc' # "done" => Depth' = Cardinality(NodesWith("Opening")')
          /\ pc' # "done" => (Refused' <=> NodesWith("Invalid")' # {})
          /\ Refused \in BOOLEAN /\ Refused' \in BOOLEAN
      BY DEF Depth, Refused
    <2>2. CASE UNCHANGED <<heap, pc, answer>>
      <3>1. \A st : NodesWith(st)' = NodesWith(st)
        BY <2>2 DEF NodesWith, StatusOf, Node
      <3>. QED
        BY <2>2, <3>1 DEF Depth, Refused
    <2>3. CASE NextChar \/ Ignore \/ CloseClimb
      <3>1. heap' = heap /\ answer' = answer /\ pc # "done" /\ pc' # "done"
        BY <2>3 DEF NextChar, Ignore, CloseClimb, Return, Takes
      <3>2. \A st : NodesWith(st)' = NodesWith(st)
        BY <3>1 DEF NodesWith, StatusOf, Node
      <3>. QED
        BY <3>1, <3>2 DEF Depth, Refused
    <2>4. CASE OpenUnknown \/ OpenChild \/ OpenSibling \/ CloseOpen \/ CloseInvalid
      <3>1. pc # "done" /\ pc' # "done" /\ answer' = answer /\ answer = "none"
        BY <2>4 DEF OpenUnknown, OpenChild, OpenSibling, CloseOpen, CloseInvalid, Return, Takes,
             Unanswered
      <3>2. PICK d, S : Typed /\ Path(d, S)
        BY <3>1 DEF IInv
      <3>3. IsFiniteSet(NodesWith("Opening"))
        BY <3>2 DEF Path, Marked
      <3>4. CASE OpenUnknown \/ OpenChild \/ OpenSibling
        <4>1. /\ NodesWith("Invalid") = {} /\ NodesWith("Invalid")' = {}
              /\ \E r : r \notin NodesWith("Opening")
                        /\ NodesWith("Opening")' = NodesWith("Opening") \cup {r}
          <5>1. CASE OpenUnknown
            BY <3>2, <5>1, StatusSteps
          <5>2. CASE OpenChild \/ OpenSibling
            BY <3>2, <5>2, GrowSteps
          <5>. QED
            BY <3>4, <5>1, <5>2
        <4>2. Depth' = Depth + 1
          BY <2>1, <3>1, <3>3, <4>1, FS_AddElement
        <4>. QED
          BY <2>1, <3>1, <4>1, <4>2 DEF Counter!Open
      <3>5. CASE CloseOpen
        <4>1. /\ cur \in NodesWith("Opening")
              /\ NodesWith("Opening")' = NodesWith("Opening") \ {cur}
              /\ NodesWith("Invalid") = {} /\ NodesWith("Invalid")' = {}
          BY <3>2, <3>5, StatusSteps
        <4>2. Depth' = Depth - 1
          BY <2>1, <3>1, <3>3, <4>1, FS_RemoveElement
        <4>3. Depth # 0 /\ Depth \in Nat
          BY <2>1, <3>1, <3>3, <4>1, FS_EmptySet, FS_CardinalityType
        <4>. QED
          BY <2>1, <3>1, <4>1, <4>2, <4>3 DEF Counter!Close
      <3>6. CASE CloseInvalid
        <4>1. /\ NodesWith("Opening")' = NodesWith("Opening") /\ NodesWith("Invalid")' = {cur}
              /\ NodesWith("Invalid") = {} => NodesWith("Opening") = {}
          BY <3>2, <3>6, StatusSteps
        <4>2. Depth' = Depth /\ Refused' = TRUE
          BY <2>1, <3>1, <4>1
        <4>3. ~Refused => Depth = 0
          BY <2>1, <3>1, <4>1, FS_EmptySet
        <4>. QED
          BY <2>1, <3>1, <4>2, <4>3 DEF Counter!Excess
      <3>. QED
        BY <2>4, <3>4, <3>5, <3>6
    <2>5. CASE EndOfString
      <3>1. pc # "done" /\ pc' = "done" /\ answer = "none"
        BY <2>5 DEF EndOfString, Unanswered
      <3>2. PICK d, S : Typed /\ Path(d, S)
        BY <3>1 DEF IInv
      <3>3. HasStatus(Root, "Invalid") <=> Refused
        BY <2>1, <3>1, <3>2, InvalidFound
      <3>4. Depth' = 0 /\ Refused' = FALSE
        BY <3>1 DEF Depth, Refused
      <3>. QED
        BY <2>1, <2>5, <3>1, <3>3, <3>4 DEF Counter!Answer, EndOfString
    <2>. QED
      BY <2>2, <2>3, <2>4, <2>5 DEF Next, Parse, Terminated, vars
  <1>. QED
    BY <1>1, <1>2, Invariance, UnansweredInvariance, PTL DEF Spec, CountsTheDepth, Counter!CounterSpec
=============================================================================
