------------------------------ MODULE PagePool ------------------------------
(***************************************************************************)
(* What the kernel's physical page allocator promises its callers: a set   *)
(* of free pages from which every completed AllocatePage takes one page,   *)
(* to which every completed ReleasePage gives one back, and whose size     *)
(* GetFreePages and GetCacheSize report.  Each operation takes effect at   *)
(* one instant between its call and its return.  Nothing is said here of   *)
(* locks, of the list the free pages are kept in or of its counters.       *)
(***************************************************************************)
EXTENDS Naturals, FiniteSets

CONSTANTS Pages,      \* the physical pages the allocator was given at boot
          Threads,    \* the threads that may call it
          NoPage      \* the null address

VARIABLES free,       \* pages nobody owns
          live,       \* pages some caller owns
          op,         \* op[t]: the operation thread t is in
          reg,        \* reg[t]: the page thread t gives back or is given
          out         \* out[t]: the number a size query of t returns

vars == <<free, live, op, reg, out>>

Init == /\ free = Pages
        /\ live = {}
        /\ op = [t \in Threads |-> "idle"]
        /\ reg = [t \in Threads |-> NoPage]
        /\ out = [t \in Threads |-> 0]

CallAllocate(t) == /\ op[t] = "idle"
                   /\ op' = [op EXCEPT ![t] = "alloc"]
                   /\ UNCHANGED <<free, live, reg, out>>

(* Only a page that a caller owns can be given back. *)
CallRelease(t, p) == /\ op[t] = "idle"
                     /\ p \in live
                     /\ live' = live \ {p}
                     /\ reg' = [reg EXCEPT ![t] = p]
                     /\ op' = [op EXCEPT ![t] = "release"]
                     /\ UNCHANGED <<free, out>>

CallCount(t) == /\ op[t] = "idle"
                /\ op' = [op EXCEPT ![t] = "count"]
                /\ UNCHANGED <<free, live, reg, out>>

Take(t, p) == /\ op[t] = "alloc"
              /\ p \in free
              /\ free' = free \ {p}
              /\ reg' = [reg EXCEPT ![t] = p]
              /\ op' = [op EXCEPT ![t] = "return"]
              /\ UNCHANGED <<live, out>>

(* The null address is an answer only when no page is free. *)
Refuse(t) == /\ op[t] = "alloc"
             /\ free = {}
             /\ op' = [op EXCEPT ![t] = "return"]
             /\ UNCHANGED <<free, live, reg, out>>

Put(t) == /\ op[t] = "release"
          /\ free' = free \cup {reg[t]}
          /\ reg' = [reg EXCEPT ![t] = NoPage]
          /\ op' = [op EXCEPT ![t] = "return"]
          /\ UNCHANGED <<live, out>>

Count(t) == /\ op[t] = "count"
            /\ out' = [out EXCEPT ![t] = Cardinality(free)]
            /\ op' = [op EXCEPT ![t] = "return"]
            /\ UNCHANGED <<free, live, reg>>

Return(t) == /\ op[t] = "return"
             /\ live' = live \cup ({reg[t]} \ {NoPage})
             /\ reg' = [reg EXCEPT ![t] = NoPage]
             /\ out' = [out EXCEPT ![t] = 0]
             /\ op' = [op EXCEPT ![t] = "idle"]
             /\ UNCHANGED free

Next == \E t \in Threads :
          \/ CallAllocate(t)
          \/ \E p \in Pages : CallRelease(t, p) \/ Take(t, p)
          \/ CallCount(t)
          \/ Refuse(t) \/ Put(t) \/ Count(t) \/ Return(t)

Spec == Init /\ [][Next]_vars
=============================================================================
