------------------------------ MODULE NodeList ------------------------------
(***************************************************************************)
(* The kernel's intrusive list and stack (utils/list.h, utils/stack.h):    *)
(* nodes carry their own Prev and Next pointers, which the containers      *)
(* rewrite, and a node of the heap's page records lives now in a list, now *)
(* in the stack, with the same Next.  A thread may be inside a range-for   *)
(* over the list, whose body may remove the node it is at, as the search   *)
(* of kfree does.                                                          *)
(***************************************************************************)
EXTENDS Integers, Sequences, FiniteSets

Seqs == INSTANCE SequencesExt

CONSTANTS Nodes, nullptr

VARIABLES m_first, m_last, m_count,  \* the List
          top,                       \* m_first of the Stack
          PrevOf, NextOf,            \* the nodes' own pointers
          loop                       \* the range-for that is under way

list == <<m_first, m_last, m_count>>
pointers == <<PrevOf, NextOf>>
vars == <<list, top, pointers, loop>>

(* The nodes that following a pointer from a node reaches, in order.       *)
Chain(start, pointer) ==
  LET nth[i \in 1..(Cardinality(Nodes) + 1)] ==
        IF i = 1 THEN start
        ELSE IF nth[i - 1] = nullptr THEN nullptr ELSE pointer[nth[i - 1]]
  IN SelectSeq(nth, LAMBDA n : n # nullptr)

Listed == Chain(m_first, NextOf)
Piled == Chain(top, NextOf)
Loose == Nodes \ (Seqs!ToSet(Listed) \cup Seqs!ToSet(Piled))

(* A function over the nodes with the null pointer's fields ignored.       *)
With(f, node, value) == [n \in Nodes |-> IF n = node THEN value ELSE f[n]]

-----------------------------------------------------------------------------
(* The iterator: where it is, the two neighbours it saved when it got      *)
(* there, and whether it is (logically) one past an end.                   *)
Iterator(ptr, onePast) ==
  [m_onePast |-> ptr = nullptr \/ onePast,
   m_current |-> ptr,
   m_prev |-> IF ptr = nullptr THEN nullptr ELSE PrevOf[ptr],
   m_next |-> IF ptr = nullptr THEN nullptr ELSE NextOf[ptr]]

(* Fault variant of Advance: the next node is looked up when it is needed. *)
AdvanceUnsaved(it, next) ==
  IF it.m_onePast THEN [it EXCEPT !.m_onePast = FALSE]
  ELSE IF next[it.m_current] = nullptr THEN [it EXCEPT !.m_onePast = TRUE]
  ELSE [it EXCEPT !.m_current = next[it.m_current], !.m_prev = it.m_current]

(* operator ++, with the nodes' Next pointers as they are at that moment.   *)
Advance(it, next) ==
  IF it.m_onePast THEN [it EXCEPT !.m_onePast = FALSE]
  ELSE IF it.m_next = nullptr THEN [it EXCEPT !.m_onePast = TRUE]
  ELSE [m_onePast |-> FALSE, m_current |-> it.m_next,
        m_prev |-> it.m_current, m_next |-> next[it.m_next]]

(* operator --.                                                            *)
Retreat(it) ==
  IF it.m_onePast THEN [it EXCEPT !.m_onePast = FALSE]
  ELSE IF it.m_prev = nullptr THEN [it EXCEPT !.m_onePast = TRUE]
  ELSE [m_onePast |-> FALSE, m_current |-> it.m_prev,
        m_prev |-> PrevOf[it.m_prev], m_next |-> it.m_current]

(* operator ==: the saved neighbours do not count.                         *)
Same(it, other) == /\ it.m_current = other.m_current
                   /\ it.m_onePast = other.m_onePast

Begin == Iterator(m_first, FALSE)
End == Iterator(m_last, TRUE)

-----------------------------------------------------------------------------
(* List.                                                                   *)
NoLoop == [running |-> FALSE, it |-> Iterator(nullptr, TRUE), end |-> Iterator(nullptr, TRUE),
           seen |-> <<>>, all |-> <<>>]

Init == /\ m_first = nullptr /\ m_last = nullptr /\ m_count = 0 /\ top = nullptr
        /\ PrevOf = [n \in Nodes |-> nullptr] /\ NextOf = [n \in Nodes |-> nullptr]
        /\ loop = NoLoop

PushFront(node) ==
  /\ PrevOf' = With(With(PrevOf, m_first, node), node, nullptr)
  /\ NextOf' = With(NextOf, node, m_first)
  /\ m_last' = IF m_first = nullptr THEN node ELSE m_last
  /\ m_first' = node
  /\ m_count' = m_count + 1
  /\ UNCHANGED <<top, loop>>

PushBack(node) ==
  /\ PrevOf' = With(PrevOf, node, m_last)
  /\ NextOf' = With(With(NextOf, m_last, node), node, nullptr)
  /\ m_first' = IF m_last = nullptr THEN node ELSE m_first
  /\ m_last' = node
  /\ m_count' = m_count + 1
  /\ UNCHANGED <<top, loop>>

(* On an empty list a pop answers null and changes nothing.                *)
PopFront ==
  LET rest == NextOf[m_first] IN
  /\ m_first # nullptr
  /\ m_first' = rest
  /\ m_last' = IF rest = nullptr THEN nullptr ELSE m_last
  /\ PrevOf' = With(PrevOf, rest, nullptr)
  /\ NextOf' = With(NextOf, m_first, nullptr)
  /\ m_count' = m_count - 1
  /\ UNCHANGED <<top, loop>>

(* Fault variant of PopBack: the new last node keeps its Next. *)
PopBackKeepsNext ==
  LET rest == PrevOf[m_last] IN
  /\ m_last # nullptr
  /\ m_last' = rest
  /\ m_first' = IF rest = nullptr THEN nullptr ELSE m_first
  /\ PrevOf' = With(PrevOf, m_last, nullptr)
  /\ m_count' = m_count - 1
  /\ UNCHANGED <<NextOf, top, loop>>

PopBack ==
  LET rest == PrevOf[m_last] IN
  /\ m_last # nullptr
  /\ m_last' = rest
  /\ m_first' = IF rest = nullptr THEN nullptr ELSE m_first
  /\ NextOf' = With(NextOf, rest, nullptr)
  /\ PrevOf' = With(PrevOf, m_last, nullptr)
  /\ m_count' = m_count - 1
  /\ UNCHANGED <<top, loop>>

(* What Remove does to the list and the pointers.                          *)
Unlinked(node) ==
  LET prev == PrevOf[node]
      next == NextOf[node] IN
  /\ NextOf' = With(With(NextOf, prev, next), node, nullptr)
  /\ PrevOf' = With(With(PrevOf, next, prev), node, nullptr)
  /\ m_first' = IF prev = nullptr THEN next ELSE m_first
  /\ m_last' = IF next = nullptr THEN prev ELSE m_last
  /\ m_count' = m_count - 1
  /\ UNCHANGED top

Remove(node) == Unlinked(node) /\ UNCHANGED loop

-----------------------------------------------------------------------------
(* Stack: each operation is one critical section.  Push writes Next alone. *)
Push(node) ==
  /\ NextOf' = With(NextOf, node, top)
  /\ top' = node
  /\ UNCHANGED <<list, PrevOf, loop>>

Pop ==
  /\ top # nullptr
  /\ top' = NextOf[top]
  /\ NextOf' = With(NextOf, top, nullptr)
  /\ UNCHANGED <<list, PrevOf, loop>>

-----------------------------------------------------------------------------
(* A range-for over the list: the end is computed once, before the first   *)
(* step, and the body leaves the list alone or removes the node it is at.  *)
LoopStart ==
  /\ ~loop.running
  /\ loop' = [running |-> TRUE, it |-> Begin, end |-> End, seen |-> <<>>, all |-> Listed]
  /\ UNCHANGED <<list, top, pointers>>

Step == [loop EXCEPT !.seen = Append(@, loop.it.m_current), !.it = Advance(@, NextOf)]

LoopKeep ==
  /\ loop.running /\ ~Same(loop.it, loop.end)
  /\ loop' = Step
  /\ UNCHANGED <<list, top, pointers>>

(* The node is taken out before the iterator moves on.                     *)
LoopRemove ==
  /\ loop.running /\ ~Same(loop.it, loop.end)
  /\ Unlinked(loop.it.m_current)
  /\ loop' = [loop EXCEPT !.seen = Append(@, loop.it.m_current), !.it = Advance(@, NextOf')]

(* kfree takes the node it looked for and leaves the loop.                 *)
LoopTake ==
  /\ loop.running /\ ~Same(loop.it, loop.end)
  /\ Unlinked(loop.it.m_current)
  /\ loop' = NoLoop

LoopEnd == /\ loop.running /\ Same(loop.it, loop.end)
           /\ loop' = NoLoop
           /\ UNCHANGED <<list, top, pointers>>

(* The thread that loops holds what guards the list; the stack is free to  *)
(* the others.                                                             *)
Operation ==
  \/ \E node \in Loose : Push(node)
  \/ Pop
  \/ /\ ~loop.running
     /\ \/ \E node \in Loose : PushFront(node) \/ PushBack(node)
        \/ PopFront
        \/ PopBack
        \/ \E node \in Seqs!ToSet(Listed) : Remove(node)

Next == Operation \/ LoopStart \/ LoopKeep \/ LoopRemove \/ LoopTake \/ LoopEnd

Spec == Init /\ [][Next]_vars

-----------------------------------------------------------------------------
(* Properties.                                                             *)

(* A list and a stack of nodes behave as a sequence and a pile, whatever   *)
(* moves between them, and the list's count is its length: a node that a   *)
(* container still pointed at after it was taken out would turn up in both.*)
D == INSTANCE Deque WITH items <- Listed, size <- m_count, pile <- Piled

ImplementsDeque == D!Spec

(* A range-for sees every node the list had, once and in order, even when  *)
(* its body removes the nodes it is at (list.h:56 "So a node can be        *)
(* deleted without messing up the iterator itself."): it lives on what it  *)
(* saved before the removal and on an end computed before that.  Stepping  *)
(* on and back leads to the same node.                                     *)
LoopSeesAll ==
  /\ Seqs!IsPrefix(loop.seen, loop.all)
  /\ loop.running /\ Same(loop.it, loop.end) => loop.seen = loop.all
  /\ \A i \in 2..Len(Listed) :
       Retreat(Advance(Iterator(Listed[i - 1], FALSE), NextOf)).m_current = Listed[i - 1]
=============================================================================
