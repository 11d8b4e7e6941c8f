-------------------------------- MODULE Heap --------------------------------
(***************************************************************************)
(* What kalloc and kfree promise the rest of the kernel: a block that      *)
(* kalloc returns does not overlap any block that is still owned, whether  *)
(* its owner has it in hand, is about to be given it, or has asked kfree   *)
(* to take it back and kfree has not done so yet.  Nothing is said here of *)
(* buckets, slabs, lists, metadata or locks.                               *)
(*                                                                         *)
(* A block is a pair <<page, slot>>: slot 0 is the whole page, the other   *)
(* slots are disjoint parts of it.                                         *)
(***************************************************************************)
EXTENDS Naturals

CONSTANTS Blocks,     \* all the blocks there may be
          Threads,
          Null

VARIABLES live,       \* blocks that callers own
          op,         \* op[t]: the operation thread t is in
          reg         \* reg[t]: the block t gives back or is given

vars == <<live, op, reg>>

Overlap(a, b) == /\ a[1] = b[1]
                 /\ a[2] = b[2] \/ 0 \in {a[2], b[2]}

Taken == live \cup ({reg[t] : t \in Threads} \ {Null})

Init == /\ live = {}
        /\ op = [t \in Threads |-> "idle"]
        /\ reg = [t \in Threads |-> Null]

CallAllocate(t) == /\ op[t] = "idle"
                   /\ op' = [op EXCEPT ![t] = "alloc"]
                   /\ UNCHANGED <<live, reg>>

(* A size that no block has. *)
RefuseAtOnce(t) == /\ op[t] = "idle"
                   /\ op' = [op EXCEPT ![t] = "return"]
                   /\ UNCHANGED <<live, reg>>

CallFree(t, b) == /\ op[t] = "idle"
                  /\ b \in live
                  /\ live' = live \ {b}
                  /\ reg' = [reg EXCEPT ![t] = b]
                  /\ op' = [op EXCEPT ![t] = "free"]

Grant(t, b) == /\ op[t] = "alloc"
               /\ \A c \in Taken : ~Overlap(b, c)
               /\ reg' = [reg EXCEPT ![t] = b]
               /\ op' = [op EXCEPT ![t] = "return"]
               /\ UNCHANGED live

Refuse(t) == /\ op[t] = "alloc"
             /\ op' = [op EXCEPT ![t] = "return"]
             /\ UNCHANGED <<live, reg>>

Reclaim(t) == /\ op[t] = "free"
              /\ reg' = [reg EXCEPT ![t] = Null]
              /\ op' = [op EXCEPT ![t] = "return"]
              /\ UNCHANGED live

Return(t) == /\ op[t] = "return"
             /\ live' = live \cup ({reg[t]} \ {Null})
             /\ reg' = [reg EXCEPT ![t] = Null]
             /\ op' = [op EXCEPT ![t] = "idle"]

Next == \E t \in Threads :
          \/ CallAllocate(t) \/ RefuseAtOnce(t)
          \/ \E b \in Blocks : CallFree(t, b) \/ Grant(t, b)
          \/ Refuse(t) \/ Reclaim(t) \/ Return(t)

Spec == Init /\ [][Next]_vars
=============================================================================
