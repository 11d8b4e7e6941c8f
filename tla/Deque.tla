------------------------------- MODULE Deque -------------------------------
(***************************************************************************)
(* What a List and a Stack of nodes promise their callers together         *)
(* (utils/list.h, utils/stack.h): a sequence with two ends from which any  *)
(* node can be taken, a pile with one, and a node that is in neither is    *)
(* the caller's.  Nothing is said of pointers.                             *)
(***************************************************************************)
EXTENDS Sequences

Seqs == INSTANCE SequencesExt

CONSTANT Nodes

VARIABLES items,       \* the nodes of the list, first to last
          size,        \* what the list answers when asked how many they are
          pile         \* the nodes of the stack, top first

vars == <<items, size, pile>>

Loose == Nodes \ (Seqs!ToSet(items) \cup Seqs!ToSet(pile))

Init == items = <<>> /\ size = 0 /\ pile = <<>>

PushFront(node) == /\ items' = <<node>> \o items
                   /\ UNCHANGED pile

PushBack(node) == /\ items' = Append(items, node)
                  /\ UNCHANGED pile

PopFront == /\ items # <<>> /\ items' = Tail(items)
            /\ UNCHANGED pile

PopBack == /\ items # <<>> /\ items' = Seqs!Front(items)
           /\ UNCHANGED pile

Remove(node) == /\ items' = SelectSeq(items, LAMBDA n : n # node)
                /\ UNCHANGED pile

Push(node) == /\ pile' = <<node>> \o pile
              /\ UNCHANGED items

Pop == /\ pile # <<>> /\ pile' = Tail(pile)
       /\ UNCHANGED items

Next ==
  /\ \/ \E node \in Loose : PushFront(node) \/ PushBack(node) \/ Push(node)
     \/ \E node \in Seqs!ToSet(items) : Remove(node)
     \/ PopFront \/ PopBack \/ Pop
  /\ size' = Len(items')

Spec == Init /\ [][Next]_vars
=============================================================================
