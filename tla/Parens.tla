------------------------------- MODULE Parens -------------------------------
(***************************************************************************)
(* parens.c: is_parens_expr_valid builds a tree of Nodes, one per pair of  *)
(* parentheses.  A node's children lie in ONE array that node_add_child    *)
(* grows with realloc, so adding a child may move all its elder siblings:  *)
(* the "parent" pointers of THEIR children then dangle.  The heap is       *)
(* modelled so that this happens: an array is an identity that realloc     *)
(* keeps or replaces, a pointer to a node is <<array, position>>, and a    *)
(* freed identity is never used again.                                     *)
(***************************************************************************)
EXTENDS Naturals, Sequences, FiniteSets

CONSTANT MaxLen                  \* bound: the characters of the string
ASSUME MaxLenAssumption == MaxLen \in Nat

Statuses == {"Unknown", "Opening", "Pair", "Invalid"}
Chars    == {"(", ")", "x"}      \* "x" is every other character
NullArray == 0
NullNode  == <<0, 0>>
Root      == <<1, 1>>            \* node_make's calloc'ed node: no realloc moves it

VARIABLES
  heap,     \* the live arrays of nodes, by identity
  fresh,    \* the next identity
  cur,      \* the variable "node" of parse_string
  c,        \* the character parse_char is called with
  read,     \* the index i
  pc,       \* "read" | "parse" | "done"
  answer    \* what is_parens_expr_valid returned

vars == <<heap, fresh, cur, c, read, pc, answer>>

Live(r) == r[1] \in DOMAIN heap /\ r[2] \in DOMAIN heap[r[1]]
Node(r) == heap[r[1]][r[2]]
StatusOf(r) == Node(r).status

NewNode(st, parent) == [status |-> st, parent |-> parent, kids |-> NullArray]

node_parent(r) == IF Node(r).parent # NullNode THEN Node(r).parent ELSE r

SetStatus(r, st) == heap' = [heap EXCEPT ![r[1]][r[2]].status = st]

\* One return of parse_char to the loop of parse_string.
Return == pc' = "read" /\ UNCHANGED <<c, read, answer>>
-----------------------------------------------------------------------------
\* Mutants: the array is moved and the old one never freed; the caller keeps
\* its own pointer; a pair refuses a second ")"; a node that is neither open nor
\* closed leaves its ")" to its parent, as a pair does.
grow_leaking(p, st, id) ==
  LET old   == Node(p).kids
      elder == IF old = NullArray THEN <<>> ELSE heap[old]
  IN  heap' = [a \in DOMAIN heap \cup {id} |->
                 IF a = id THEN Append(elder, NewNode(st, p))
                 ELSE IF a = p[1] THEN [heap[a] EXCEPT ![p[2]].kids = id]
                 ELSE heap[a]]
OldPointer(p, node, id) == cur' = node
PairRefuses(ch, st) ==
  CASE ch = "(" /\ st = "Unknown" -> "open" [] ch = "(" /\ st = "Opening" -> "child"
    [] ch = "(" /\ st = "Pair" -> "sibling" [] ch = ")" /\ st = "Opening" -> "close"
    [] ch = ")" /\ st # "Opening" -> "invalid" [] OTHER -> "ignore"
UnknownClimbs(ch, st) ==
  CASE ch = "(" /\ st = "Unknown" -> "open" [] ch = "(" /\ st = "Opening" -> "child"
    [] ch = "(" /\ st = "Pair" -> "sibling" [] ch = ")" /\ st = "Opening" -> "close"
    [] ch = ")" /\ st # "Opening" -> "climb" [] OTHER -> "ignore"
-----------------------------------------------------------------------------
\* realloc of p's children to one more, which is a node with status st whose
\* parent is p: the array keeps its identity or becomes the array id.
grow(p, st, id) ==
  LET old   == Node(p).kids
      elder == IF old = NullArray THEN <<>> ELSE heap[old]
  IN  heap' = [a \in (DOMAIN heap \ {old}) \cup {id} |->
                 IF a = id THEN Append(elder, NewNode(st, p))
                 ELSE IF a = p[1] THEN [heap[a] EXCEPT ![p[2]].kids = id]
                 ELSE heap[a]]

\* The caller goes on with the pointer node_add_child returns.
TakeChild(p, node, id) ==
  cur' = <<id, 1 + IF Node(p).kids = NullArray THEN 0 ELSE Len(heap[Node(p).kids])>>

node_add_child(p, node, st) ==
  \E id \in {Node(p).kids, fresh} \ {NullArray} :
    /\ grow(p, st, id)
    /\ TakeChild(p, node, id)
    /\ fresh' = IF id = fresh THEN fresh + 1 ELSE fresh
-----------------------------------------------------------------------------
\* The branches of parse_char.
branch(ch, st) ==
  CASE ch = "(" /\ st = "Unknown"          -> "open"
    [] ch = "(" /\ st = "Opening"          -> "child"
    [] ch = "(" /\ st = "Pair"             -> "sibling"
    [] ch = ")" /\ st = "Opening"          -> "close"
    [] ch = ")" /\ st = "Pair"             -> "climb"
    [] ch = ")" /\ st \notin {"Opening", "Pair"} -> "invalid"
    [] OTHER                               -> "ignore"

Takes(b) == pc = "parse" /\ branch(c, StatusOf(cur)) = b
-----------------------------------------------------------------------------
\* is_parens_expr_valid up to its call of parse_string: a root, and one child
\* of it where the first parenthesis will be.
Init ==
  /\ heap = << <<[NewNode("Unknown", NullNode) EXCEPT !.kids = 2]>>,
               <<NewNode("Unknown", Root)>> >>
  /\ fresh = 3
  /\ cur = <<2, 1>>
  /\ c = "x"
  /\ read = 0
  /\ pc = "read"
  /\ answer = "none"

NextChar ==
  /\ pc = "read" /\ read < MaxLen
  /\ c' \in Chars
  /\ read' = read + 1
  /\ pc' = "parse"
  /\ UNCHANGED <<heap, fresh, cur, answer>>

OpenUnknown ==
  /\ Takes("open")
  /\ SetStatus(cur, "Opening")
  /\ Return /\ UNCHANGED <<fresh, cur>>

OpenChild ==
  /\ Takes("child")
  /\ node_add_child(cur, cur, "Opening")
  /\ Return

OpenSibling ==
  /\ Takes("sibling")
  /\ node_add_child(node_parent(cur), cur, "Opening")
  /\ Return

CloseOpen ==
  /\ Takes("close")
  /\ SetStatus(cur, "Pair")
  /\ Return /\ UNCHANGED <<fresh, cur>>

\* parse_char calls itself with the parent: one level of the recursion.
CloseClimb ==
  /\ Takes("climb")
  /\ cur' = node_parent(cur)
  /\ UNCHANGED <<heap, fresh, c, read, pc, answer>>

CloseInvalid ==
  /\ Takes("invalid")
  /\ SetStatus(cur, "Invalid")
  /\ Return /\ UNCHANGED <<fresh, cur>>

Ignore ==
  /\ Takes("ignore")
  /\ Return /\ UNCHANGED <<heap, fresh, cur>>

\* node_has_status of the node at r and of everything below it.
HasStatus(root, st) ==
  LET Refs == UNION {{a} \X DOMAIN heap[a] : a \in DOMAIN heap}
      has[r \in Refs] ==
        \/ StatusOf(r) = st
        \/ /\ Node(r).kids # NullArray
           /\ \E i \in DOMAIN heap[Node(r).kids] : has[<<Node(r).kids, i>>]
  IN  has[root]

\* node_free follows "children" as if it were one node: it frees the array of
\* the root, of its first child, of that one's first child, and no other.
FreedBy ==
  LET spine[n \in 0..MaxLen + 1] ==
        IF n = 0 THEN Root[1]
        ELSE LET a == spine[n - 1] IN IF a = NullArray THEN NullArray ELSE heap[a][1].kids
  IN  {spine[n] : n \in 0..MaxLen + 1} \ {NullArray}

EndOfString ==
  /\ pc = "read"
  /\ answer' = IF HasStatus(Root, "Invalid") THEN "invalid" ELSE "valid"
  /\ heap' = [a \in DOMAIN heap \ FreedBy |-> heap[a]]
  /\ pc' = "done"
  /\ UNCHANGED <<fresh, cur, c, read>>

Terminated == pc = "done" /\ UNCHANGED vars

Parse ==
  \/ OpenUnknown \/ OpenChild \/ OpenSibling
  \/ CloseOpen \/ CloseClimb \/ CloseInvalid \/ Ignore

Next == NextChar \/ Parse \/ EndOfString \/ Terminated

Spec == Init /\ [][Next]_vars /\ WF_vars(Next)
-----------------------------------------------------------------------------
\* The node n levels above the current one, as long as the pointers are good.
Up(r) == IF Live(r) THEN node_parent(r) ELSE NullNode
Above[n \in 0..MaxLen + 2] == IF n = 0 THEN cur ELSE Up(Above[n - 1])

\* Whatever reallocs have moved, the parser never holds a pointer into a freed
\* array: the current node, and every node a ")" may climb to, is alive, and
\* the climb ends at the root (although other nodes' parents do dangle).
NoDangling ==
  pc # "done" =>
    /\ \A n \in 0..MaxLen + 2 : Live(Above[n])
    /\ Above[MaxLen + 2] = Root

\* Every array but the root's is the children of exactly one live node until
\* node_free: reallocs neither lose one nor leave one with two owners, whose
\* second free would be of freed memory.
OwnedOnce ==
  pc # "done" =>
    \A a \in DOMAIN heap \ {Root[1]} :
      Cardinality({r \in UNION {{b} \X DOMAIN heap[b] : b \in DOMAIN heap} : Node(r).kids = a}) = 1

\* The recursion of parse_char up the parents ends, on any string: the parser
\* answers.
Answers == <>(pc = "done")

\* The tree means what a counter means: the open nodes, wherever they are, are
\* the depth, an Invalid node anywhere is the refusal, and the search of the
\* whole tree at the end answers what the counter would.
NodesWith(st) ==
  {r \in UNION {{a} \X DOMAIN heap[a] : a \in DOMAIN heap} : StatusOf(r) = st}

Depth   == IF pc = "done" THEN 0 ELSE Cardinality(NodesWith("Opening"))
Refused == pc # "done" /\ NodesWith("Invalid") # {}

Counter == INSTANCE ParenCounter WITH depth <- Depth, refused <- Refused, answer <- answer

CountsTheDepth == Counter!CounterSpec
=============================================================================
