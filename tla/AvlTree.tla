------------------------------ MODULE AvlTree -------------------------------
(***************************************************************************)
(* AVLTree (src/work/AVLTree.h), the balanced search tree the page frame   *)
(* allocator keeps its frames in: nodes with parent, left and right        *)
(* pointers and a balance factor, below a sentinel m_root whose Left is    *)
(* the first node.  Insert and Remove walk up from the changed node and    *)
(* rotate where a balance leaves -1..1; Remove rebalances before it        *)
(* unlinks, and moves the successor's contents where both children exist.  *)
(*                                                                         *)
(* t is the whole tree: [left, right, parent, bal, key, data, min, count]. *)
(***************************************************************************)
EXTENDS Integers, FiniteSets, TLC, SequencesExt

CONSTANTS Nodes,      \* addresses of nodes
          m_root,     \* the sentinel in the tree itself
          Null,       \* nullptr
          Data,       \* what keys may be given
          NoData,     \* DataType()
          Workloads   \* [built, inserted, data, removed]: the keys inserted
                      \* first, and what is inserted and removed afterwards

ASSUME AvlTreeAssumption ==
  /\ Null \notin Nodes /\ m_root \notin Nodes /\ Null # m_root
  /\ NoData \notin Data
  /\ \A w \in Workloads : /\ w.built \in Seq(Nodes) /\ IsInjective(w.built)
                         /\ w.inserted \subseteq Nodes /\ w.removed \subseteq Nodes
                         /\ w.data \subseteq Data

VARIABLES t,         \* the tree
          workload,  \* what callers do
          request    \* auxiliary: the last call that changed the tree

vars == <<t, workload, request>>

Empty == [left |-> (m_root :> Null), right |-> (m_root :> Null),
          parent |-> (m_root :> Null), bal |-> (m_root :> 0),
          key |-> <<>>, data |-> <<>>, min |-> Null, count |-> 0]

First(s) == s.left[m_root]
Live(s) == DOMAIN s.key

-----------------------------------------------------------------------------
(* Rotations.                                                              *)

(* The child of n's parent that was n becomes c, or is cut off. *)
Replace(s, n, c) ==
  IF s.left[s.parent[n]] = n THEN [s EXCEPT !.left[s.parent[n]] = c]
  ELSE [s EXCEPT !.right[s.parent[n]] = c]

SetParent(s, n, p) == IF n = Null THEN s ELSE [s EXCEPT !.parent[n] = p]

(* Fault variant of RotateLeft: the moved child keeps its old parent. *)
RotateLeftStaleParent(s, n) ==
  LET tmp == s.right[n]
      up == Replace(s, n, tmp)
  IN [up EXCEPT !.right[n] = s.left[tmp], !.left[tmp] = n,
                !.parent[tmp] = s.parent[n], !.parent[n] = tmp]

RotateLeft(s, n) ==
  LET tmp == s.right[n]
      up == Replace(SetParent(s, s.left[tmp], n), n, tmp)
  IN [up EXCEPT !.right[n] = s.left[tmp], !.left[tmp] = n,
                !.parent[tmp] = s.parent[n], !.parent[n] = tmp]

RotateRight(s, n) ==
  LET tmp == s.left[n]
      up == Replace(SetParent(s, s.right[tmp], n), n, tmp)
  IN [up EXCEPT !.left[n] = s.right[tmp], !.right[tmp] = n,
                !.parent[tmp] = s.parent[n], !.parent[n] = tmp]

(* Two rotations lift the grandchild g between n and its child c; the      *)
(* balances left and right of it follow from its own.                      *)
SetBalances(s, g, old) ==
  [s EXCEPT !.bal[g] = 0,
            !.bal[s.left[g]] = IF old = 1 THEN -1 ELSE 0,
            !.bal[s.right[g]] = IF old = -1 THEN 1 ELSE 0]

LiftLeftRight(s, n) ==
  LET g == s.right[s.left[n]]
  IN SetBalances(RotateRight(RotateLeft(s, s.left[n]), n), g, s.bal[g])

LiftRightLeft(s, n) ==
  LET g == s.left[s.right[n]]
  IN SetBalances(RotateLeft(RotateRight(s, s.right[n]), n), g, s.bal[g])

-----------------------------------------------------------------------------
(* Walking the tree.                                                       *)

(* The node a search for k ends at: its own, or Null below its place. *)
FindNode(s, k) ==
  LET down[n \in Live(s) \cup {Null}] ==
        IF n = Null \/ s.key[n] = k THEN n
        ELSE down[IF k < s.key[n] THEN s.left[n] ELSE s.right[n]]
  IN down[First(s)]

(* The last node of a search for a k that is not there. *)
PlaceOf(s, k) ==
  LET down[n \in Live(s) \cup {m_root}] ==
        LET child == IF n = m_root \/ k < s.key[n] THEN s.left[n] ELSE s.right[n]
        IN IF child = Null THEN n ELSE down[child]
  IN down[m_root]

(* The nodes above n, from its parent to the first node. *)
Above(s, n) ==
  LET up[m \in Live(s)] ==
        IF s.parent[m] = m_root THEN <<>> ELSE <<s.parent[m]>> \o up[s.parent[m]]
  IN up[n]

(* The least node of the right subtree, or the nearest node above that n   *)
(* is left of.                                                             *)
Successor(s, n) ==
  LET least[m \in Live(s)] == IF s.left[m] = Null THEN m ELSE least[s.left[m]]
      up[m \in Live(s)] ==
        LET p == s.parent[m] IN
        IF p = m_root THEN Null ELSE IF s.right[p] = m THEN up[p] ELSE p
  IN IF s.right[n] # Null THEN least[s.right[n]] ELSE up[n]

-----------------------------------------------------------------------------
(* Insert.                                                                 *)

(* FixInsertLeftImbalance and FixInsertRightImbalance: the balance of p    *)
(* would leave its range on the side of the inserted node.                 *)
FixInsertLeftImbalance(s, p) ==
  IF s.bal[s.left[p]] = s.bal[p]
  THEN [RotateRight(s, p) EXCEPT !.bal[p] = 0, !.bal[s.left[p]] = 0]
  ELSE LiftLeftRight(s, p)

FixInsertRightImbalance(s, p) ==
  IF s.bal[s.right[p]] = s.bal[p]
  THEN [RotateLeft(s, p) EXCEPT !.bal[p] = 0, !.bal[s.right[p]] = 0]
  ELSE LiftRightLeft(s, p)

(* One turn of the loop: the subtree of w.at, a child of p, has grown.     *)
(* w.at is Null once the loop has been left.                               *)
Grow(w, p) ==
  LET s == w.s
      side == IF w.at = s.left[p] THEN -1 ELSE 1
  IN CASE w.at = Null -> w
       [] w.at # Null /\ s.bal[p] = -side ->
            [s |-> [s EXCEPT !.bal[p] = 0], at |-> Null]
       [] w.at # Null /\ s.bal[p] = 0 ->
            [s |-> [s EXCEPT !.bal[p] = side], at |-> p]
       [] w.at # Null /\ s.bal[p] = side ->
            [s |-> IF side = -1 THEN FixInsertLeftImbalance(s, p)
                   ELSE FixInsertRightImbalance(s, p), at |-> Null]

Linked(s, n, p, k, d) ==
  LET leftOf == p = m_root \/ k < s.key[p]
  IN [left |-> (n :> Null) @@ [s.left EXCEPT ![p] = IF leftOf THEN n ELSE @],
      right |-> (n :> Null) @@ [s.right EXCEPT ![p] = IF leftOf THEN @ ELSE n],
      parent |-> (n :> p) @@ s.parent,
      bal |-> (n :> 0) @@ s.bal,
      key |-> (n :> k) @@ s.key,
      data |-> (n :> d) @@ s.data,
      min |-> IF s.min = Null \/ k < s.key[s.min] THEN n ELSE s.min,
      count |-> s.count + 1]

(* operator new: nothing depends on which free address it is. *)
NewNode(s, k) == IF k \notin Live(s) THEN k ELSE CHOOSE n \in Nodes : n \notin Live(s)

InsertInto(s, k, d) ==
  LET found == FindNode(s, k)
      n == NewNode(s, k)
      linked == Linked(s, n, PlaceOf(s, k), k, d)
  IN IF found # Null THEN [s EXCEPT !.data[found] = d]
     ELSE FoldLeft(Grow, [s |-> linked, at |-> n], Above(linked, n)).s

-----------------------------------------------------------------------------
(* Remove.                                                                 *)

(* FixDeleteLeftImbalance and FixDeleteRightImbalance: the new balance of  *)
(* the subtree tells whether its height is what it was.                    *)
FixDeleteLeftImbalance(s, p) ==
  LET c == s.left[p] IN
  CASE s.bal[c] = -1 -> [RotateRight(s, p) EXCEPT !.bal[c] = 0, !.bal[p] = 0]
    [] s.bal[c] = 0  -> [RotateRight(s, p) EXCEPT !.bal[c] = 1, !.bal[p] = -1]
    [] s.bal[c] = 1  -> LiftLeftRight(s, p)

(* Fault variant of FixDeleteRightImbalance: a level child is taken for a  *)
(* right-heavy one.                                                        *)
FixDeleteRightAsHeavy(s, p) ==
  LET c == s.right[p] IN
  CASE s.bal[c] \in {0, 1} -> [RotateLeft(s, p) EXCEPT !.bal[c] = 0, !.bal[p] = 0]
    [] s.bal[c] = -1 -> LiftRightLeft(s, p)

FixDeleteRightImbalance(s, p) ==
  LET c == s.right[p] IN
  CASE s.bal[c] = 1  -> [RotateLeft(s, p) EXCEPT !.bal[c] = 0, !.bal[p] = 0]
    [] s.bal[c] = 0  -> [RotateLeft(s, p) EXCEPT !.bal[c] = -1, !.bal[p] = 1]
    [] s.bal[c] = -1 -> LiftRightLeft(s, p)

(* One turn of the loop: the subtree of w.at, a child of p, gets lower.    *)
Shrink(w, p) ==
  LET s == w.s
      side == IF w.at = s.left[p] THEN -1 ELSE 1
      fixed == IF side = -1 THEN FixDeleteRightImbalance(s, p)
               ELSE FixDeleteLeftImbalance(s, p)
      top == fixed.parent[p]
  IN CASE w.at = Null -> w
       [] w.at # Null /\ s.bal[p] = side ->
            [s |-> [s EXCEPT !.bal[p] = 0], at |-> p]
       [] w.at # Null /\ s.bal[p] = 0 ->
            [s |-> [s EXCEPT !.bal[p] = -side], at |-> Null]
       [] w.at # Null /\ s.bal[p] = -side ->
            [s |-> fixed, at |-> IF fixed.bal[top] = side THEN Null ELSE top]

Unlink(s, n) ==
  LET child == IF s.left[n] # Null THEN s.left[n] ELSE s.right[n]
      cut == Replace(SetParent(s, child, s.parent[n]), n, child)
      without(f) == [m \in DOMAIN f \ {n} |-> f[m]]
  IN [left |-> without(cut.left), right |-> without(cut.right),
      parent |-> without(cut.parent), bal |-> without(cut.bal),
      key |-> without(cut.key), data |-> without(cut.data),
      min |-> cut.min, count |-> cut.count - 1]

(* Fault variant of Target: the successor's datum stays behind. *)
TargetMovesKeyOnly(s, n) ==
  IF s.left[n] = Null \/ s.right[n] = Null
  THEN [s |-> [s EXCEPT !.min = IF n = @ THEN Successor(s, n) ELSE @], node |-> n]
  ELSE LET next == Successor(s, n)
       IN [s |-> [s EXCEPT !.key[n] = s.key[next], !.key[next] = s.key[n]], node |-> next]

(* The node that will be unlinked, and the tree with its contents there.   *)
Target(s, n) ==
  IF s.left[n] = Null \/ s.right[n] = Null
  THEN [s |-> [s EXCEPT !.min = IF n = @ THEN Successor(s, n) ELSE @], node |-> n]
  ELSE LET next == Successor(s, n)
       IN [s |-> [s EXCEPT !.key[n] = s.key[next], !.key[next] = s.key[n],
                           !.data[n] = s.data[next], !.data[next] = s.data[n]],
           node |-> next]

RemoveFrom(s, k) ==
  LET found == FindNode(s, k)
      target == Target(s, found)
      n == target.node
  IN Unlink(FoldLeft(Shrink, [s |-> target.s, at |-> n], Above(target.s, n)).s, n)

-----------------------------------------------------------------------------
(* Calls.                                                                  *)

Find(s, k) == LET n == FindNode(s, k) IN IF n = Null THEN NoData ELSE s.data[n]

MinOf(s) == IF s.min = Null THEN NoData ELSE s.data[s.min]

AnyData == CHOOSE d \in Data : TRUE

Init ==
  /\ workload \in Workloads
  /\ t = FoldLeft(LAMBDA s, k : InsertInto(s, k, AnyData), Empty, workload.built)
  /\ request = [op |-> "none"]

InsertKey(k, d) ==
  /\ t' = InsertInto(t, k, d)
  /\ request' = [op |-> "insert", key |-> k, data |-> d]
  /\ UNCHANGED workload

(* Remove of a key that is not there returns false and changes nothing.    *)
RemoveKey(k) ==
  /\ FindNode(t, k) # Null
  /\ t' = RemoveFrom(t, k)
  /\ request' = [op |-> "remove", key |-> k]
  /\ UNCHANGED workload

Next ==
  \/ \E k \in workload.inserted, d \in workload.data : InsertKey(k, d)
  \/ \E k \in workload.removed : RemoveKey(k)

Spec == Init /\ [][Next]_vars

-----------------------------------------------------------------------------
(* Properties.                                                             *)

(* The height of the subtree at n. *)
Height(n) ==
  LET height[m \in Live(t) \cup {Null}] ==
        IF m = Null THEN 0
        ELSE LET l == height[t.left[m]]
                 r == height[t.right[m]]
             IN 1 + (IF l > r THEN l ELSE r)
  IN height[n]

(* The keys of the subtree at n, in order. *)
KeysAt(n) ==
  LET keys[m \in Live(t) \cup {Null}] ==
        IF m = Null THEN <<>>
        ELSE keys[t.left[m]] \o <<t.key[m]>> \o keys[t.right[m]]
  IN keys[n]

(* Insert, Remove and the two rotations: every node the tree owns hangs at *)
(* exactly one place and knows the node above it, and reading the tree     *)
(* from left to right gives the keys in order.                             *)
LinksAgree ==
  LET keys == KeysAt(First(t)) IN
  /\ \A n \in Live(t) :
       LET p == t.parent[n] IN (t.left[p] = n) # (t.right[p] = n)
  /\ Len(keys) = Cardinality(Live(t))
  /\ \A i \in 2..Len(keys) : keys[i-1] < keys[i]
  /\ t.right[m_root] = Null

(* FixInsert..., FixDelete... and the balances on the way up: what a node  *)
(* records is the difference of its subtrees' heights, never more than 1.  *)
Balanced ==
  \A n \in Live(t) :
    /\ t.bal[n] = Height(t.right[n]) - Height(t.left[n])
    /\ t.bal[n] \in -1..1

(* Find, Insert, Remove, Count and Min: what the tree answers is what an   *)
(* ordered map would answer after the same calls.                          *)
Map == INSTANCE OrderedMap WITH
  Keys <- Nodes,
  lookup <- [k \in Nodes |-> Find(t, k)],
  count <- t.count,
  min <- MinOf(t)
ImplementsOrderedMap == Map!Spec

=============================================================================
