--------------------------- MODULE PageAllocator ---------------------------
(***************************************************************************)
(* paging::PageAllocator (src/sys/kernel/src/vm/page_allocator.cpp): free  *)
(* physical pages form a singly linked list that is threaded through the   *)
(* pages themselves, with two counters beside it, all guarded by one spin  *)
(* lock.  Threads call AllocatePage, ReleasePage, GetFreePages and         *)
(* GetCacheSize; every access to the list inside the critical section is a *)
(* step of its own, so that the lock is what keeps the list whole.         *)
(*                                                                         *)
(* The callers are part of the model only through what the code asks of    *)
(* them: a page is released by someone who owns it.                        *)
(***************************************************************************)
EXTENDS Naturals, Sequences, FiniteSets

CONSTANTS Threads,    \* threads of the kernel
          BootChain,  \* the pages InitBootPages adds to the cache, in order
          NoPage      \* nullptr

PagesOf(c) == {c[i] : i \in DOMAIN c}
Distinct(c) == \A i, j \in DOMAIN c : c[i] = c[j] => i = j

Pages == PagesOf(BootChain)

(* InitBootPages adds each page of the memory map once, as long as no two  *)
(* entries of the map overlap, and the constructor panics when it added    *)
(* none.                                                                   *)
ASSUME BootChainAssumption ==
  /\ BootChain \in Seq(Pages)
  /\ Len(BootChain) > 0
  /\ Distinct(BootChain)
  /\ NoPage \notin Pages

VARIABLES m_allocLock,       \* SpinLock::m_value, 0 or 1
          m_pageCache,       \* head of the list of free pages
          next,              \* next[p]: the PageNode::Next stored in page p
          m_pageCacheCount,
          m_pagesAvailable,
          pc,                \* pc[t]: where thread t is
          reg,               \* reg[t]: its page or result
          out,               \* out[t]: the counter it has read
          live,              \* pages that callers own
          chain              \* auxiliary: the list, from its tail to its head

listVars == <<m_pageCache, next, m_pageCacheCount, m_pagesAvailable, chain>>
vars == <<m_allocLock, listVars, pc, reg, out, live>>

(* pc values in which a thread spins on m_allocLock, and in which it owns it. *)
Waiting == {"allocate", "release", "free pages", "cache size"}
Inside == {"peek", "unlink", "link", "push", "read available", "read cached", "unlock"}
Idle == "idle"

(* Page p is followed in the list by the element of c before it. *)
Linked(nx, c) ==
  \A i \in DOMAIN c : nx[c[i]] = IF i = 1 THEN NoPage ELSE c[i - 1]

HeadOf(c) == IF c = <<>> THEN NoPage ELSE c[Len(c)]

(* The state in which the constructor leaves the allocator: every boot page *)
(* was added by AddPageToCache, the last one is the head.                    *)
Init ==
  /\ m_allocLock = 0
  /\ chain = BootChain
  /\ m_pageCache = HeadOf(BootChain)
  /\ next \in [Pages -> Pages \cup {NoPage}]
  /\ Linked(next, BootChain)
  /\ m_pageCacheCount = Len(BootChain)
  /\ m_pagesAvailable = Len(BootChain)
  /\ pc = [t \in Threads |-> Idle]
  /\ reg = [t \in Threads |-> NoPage]
  /\ out = [t \in Threads |-> 0]
  /\ live = {}

-----------------------------------------------------------------------------
(* Calls.                                                                  *)

Call(t, where) == /\ pc[t] = Idle
                  /\ pc' = [pc EXCEPT ![t] = where]

CallAllocatePage(t) == /\ Call(t, "allocate")
                       /\ UNCHANGED <<m_allocLock, listVars, reg, out, live>>

CallReleasePage(t, p) == /\ p \in live
                         /\ Call(t, "release")
                         /\ live' = live \ {p}
                         /\ reg' = [reg EXCEPT ![t] = p]
                         /\ UNCHANGED <<m_allocLock, listVars, out>>

CallGetFreePages(t) == /\ Call(t, "free pages")
                       /\ UNCHANGED <<m_allocLock, listVars, reg, out, live>>

CallGetCacheSize(t) == /\ Call(t, "cache size")
                       /\ UNCHANGED <<m_allocLock, listVars, reg, out, live>>

-----------------------------------------------------------------------------
(* SpinLock.                                                               *)

Entry(where) == CASE where = "allocate"   -> "peek"
                  [] where = "release"    -> "link"
                  [] where = "free pages" -> "read available"
                  [] OTHER                -> "read cached"

(* Fault variant of Lock: the value the exchange returned is not looked at. *)
LockIgnoresOldValue(t) ==
  /\ pc[t] \in Waiting
  /\ m_allocLock' = 1
  /\ pc' = [pc EXCEPT ![t] = Entry(pc[t])]
  /\ UNCHANGED <<listVars, reg, out, live>>

(* xchg(&m_value, 1) returned 0.  An exchange that returns 1 leaves the    *)
(* word 1 and the thread where it was: a step that changes nothing.        *)
Lock(t) ==
  /\ pc[t] \in Waiting
  /\ m_allocLock = 0
  /\ m_allocLock' = 1
  /\ pc' = [pc EXCEPT ![t] = Entry(pc[t])]
  /\ UNCHANGED <<listVars, reg, out, live>>

(* Fault variant of Unlock: the path that found no page skips the destructor. *)
UnlockSkippedWhenNull(t) ==
  /\ pc[t] = "unlock"
  /\ m_allocLock' = IF reg[t] = NoPage THEN m_allocLock ELSE 0
  /\ live' = live \cup ({reg[t]} \ {NoPage})
  /\ reg' = [reg EXCEPT ![t] = NoPage]
  /\ out' = [out EXCEPT ![t] = 0]
  /\ pc' = [pc EXCEPT ![t] = Idle]
  /\ UNCHANGED listVars

(* ~LockGuard and the return to the caller, who owns a page it was given. *)
Unlock(t) ==
  /\ pc[t] = "unlock"
  /\ m_allocLock' = 0
  /\ live' = live \cup ({reg[t]} \ {NoPage})
  /\ reg' = [reg EXCEPT ![t] = NoPage]
  /\ out' = [out EXCEPT ![t] = 0]
  /\ pc' = [pc EXCEPT ![t] = Idle]
  /\ UNCHANGED listVars

-----------------------------------------------------------------------------
(* GetCachedPage.                                                          *)

(* Fault variant of Peek: off by one, the last page of the list is never used. *)
PeekKeepsLastPage(t) ==
  /\ pc[t] = "peek"
  /\ reg' = [reg EXCEPT ![t] = IF m_pageCacheCount > 1 THEN m_pageCache ELSE NoPage]
  /\ pc' = [pc EXCEPT ![t] = IF m_pageCacheCount > 1 THEN "unlink" ELSE "unlock"]
  /\ UNCHANGED <<m_allocLock, listVars, out, live>>

Peek(t) ==
  /\ pc[t] = "peek"
  /\ reg' = [reg EXCEPT ![t] = m_pageCache]
  /\ pc' = [pc EXCEPT ![t] = IF m_pageCache = NoPage THEN "unlock" ELSE "unlink"]
  /\ UNCHANGED <<m_allocLock, listVars, out, live>>

Unlink(t) ==
  /\ pc[t] = "unlink"
  /\ m_pageCache' = next[reg[t]]
  /\ m_pageCacheCount' = m_pageCacheCount - 1
  /\ m_pagesAvailable' = m_pagesAvailable - 1
  /\ next' = [next EXCEPT ![reg[t]] = NoPage]
  /\ chain' = SubSeq(chain, 1, Len(chain) - 1)
  /\ pc' = [pc EXCEPT ![t] = "unlock"]
  /\ UNCHANGED <<m_allocLock, reg, out, live>>

-----------------------------------------------------------------------------
(* AddPageToCache.                                                         *)

(* Fault variant of Link: the page keeps the null link it was allocated with. *)
LinkForgotten(t) ==
  /\ pc[t] = "link"
  /\ pc' = [pc EXCEPT ![t] = "push"]
  /\ UNCHANGED <<m_allocLock, listVars, reg, out, live>>

Link(t) ==
  /\ pc[t] = "link"
  /\ next' = [next EXCEPT ![reg[t]] = m_pageCache]
  /\ pc' = [pc EXCEPT ![t] = "push"]
  /\ UNCHANGED <<m_allocLock, m_pageCache, m_pageCacheCount, m_pagesAvailable,
                 chain, reg, out, live>>

(* Fault variant of Push: only one of the two counters goes up. *)
PushForgetsAvailable(t) ==
  /\ pc[t] = "push"
  /\ m_pageCache' = reg[t]
  /\ m_pageCacheCount' = m_pageCacheCount + 1
  /\ chain' = Append(chain, reg[t])
  /\ reg' = [reg EXCEPT ![t] = NoPage]
  /\ pc' = [pc EXCEPT ![t] = "unlock"]
  /\ UNCHANGED <<m_allocLock, next, m_pagesAvailable, out, live>>

Push(t) ==
  /\ pc[t] = "push"
  /\ m_pageCache' = reg[t]
  /\ m_pageCacheCount' = m_pageCacheCount + 1
  /\ m_pagesAvailable' = m_pagesAvailable + 1
  /\ chain' = Append(chain, reg[t])
  /\ reg' = [reg EXCEPT ![t] = NoPage]
  /\ pc' = [pc EXCEPT ![t] = "unlock"]
  /\ UNCHANGED <<m_allocLock, next, out, live>>

-----------------------------------------------------------------------------
(* GetFreePages and GetCacheSize.                                          *)

ReadCounter(t, where, counter) ==
  /\ pc[t] = where
  /\ out' = [out EXCEPT ![t] = counter]
  /\ pc' = [pc EXCEPT ![t] = "unlock"]
  /\ UNCHANGED <<m_allocLock, listVars, reg, live>>

ReadAvailable(t) == ReadCounter(t, "read available", m_pagesAvailable)
ReadCached(t) == ReadCounter(t, "read cached", m_pageCacheCount)

-----------------------------------------------------------------------------

Step(t) == \/ Lock(t) \/ Unlock(t)
           \/ Peek(t) \/ Unlink(t)
           \/ Link(t) \/ Push(t)
           \/ ReadAvailable(t) \/ ReadCached(t)

Next == \E t \in Threads :
          \/ CallAllocatePage(t)
          \/ \E p \in Pages : CallReleasePage(t, p)
          \/ CallGetFreePages(t) \/ CallGetCacheSize(t)
          \/ Step(t)

Spec == Init /\ [][Next]_vars

(* A thread that owns the lock keeps running, and when threads spin on a   *)
(* free lock one of them gets it.  Which one is not promised: the exchange *)
(* favours nobody, so there is no fairness between the threads.            *)
Fairness == WF_vars(\E t \in Threads : Step(t))
FairSpec == Spec /\ Fairness

-----------------------------------------------------------------------------
(* Properties.                                                             *)

TypeOK ==
  /\ m_allocLock \in {0, 1}
  /\ m_pageCache \in Pages \cup {NoPage}
  /\ next \in [Pages -> Pages \cup {NoPage}]
  /\ m_pageCacheCount \in Nat
  /\ m_pagesAvailable \in Nat
  /\ pc \in [Threads -> {Idle} \cup Waiting \cup Inside]
  /\ reg \in [Threads -> Pages \cup {NoPage}]
  /\ out \in [Threads -> Nat]
  /\ live \subseteq Pages
  /\ chain \in Seq(Pages)

(* The pages on the list, and those a thread carries in or out.  A page    *)
(* that is being unlinked is still on the list until the step that does it.*)
Free == PagesOf(chain)
Carried(t) == IF pc[t] = "unlink" THEN {} ELSE {reg[t]} \ {NoPage}

(* Two threads are never between Lock and Unlock of m_allocLock, and the   *)
(* word tells whether one is (SpinLock::Lock, LockGuard).                  *)
MutualExclusion ==
  /\ \A t, u \in Threads : pc[t] \in Inside /\ pc[u] \in Inside => t = u
  /\ m_allocLock = 1 <=> \E t \in Threads : pc[t] \in Inside

(* A page AllocatePage handed out is not handed out again before it is     *)
(* released, and none is lost on the way: every boot page is on the list   *)
(* once, or owned by a caller, or carried by exactly one thread.           *)
NoPageSharedOrLost ==
  /\ Distinct(chain)
  /\ Free \cap live = {}
  /\ \A t \in Threads : Carried(t) \cap (Free \cup live) = {}
  /\ \A t, u \in Threads : t # u => Carried(t) \cap Carried(u) = {}
  /\ \A p \in Pages : p \in Free \cup live \/ \E t \in Threads : p \in Carried(t)

(* The links stored in the free pages spell exactly the list the           *)
(* operations built, and both counters are its length                      *)
(* (AddPageToCache, GetCachedPage).                                        *)
ListIntact ==
  /\ m_pageCache = HeadOf(chain)
  /\ Linked(next, chain)
  /\ m_pageCacheCount = Len(chain)
  /\ m_pagesAvailable = Len(chain)

(* Behind the lock: what a thread read is still true when it acts on it.   *)
ReadsStillTrue ==
  \A t \in Threads :
    /\ pc[t] = "unlink" => reg[t] # NoPage /\ reg[t] = m_pageCache
    /\ pc[t] \in {"link", "push"} => reg[t] # NoPage
    /\ pc[t] = "push" => next[reg[t]] = m_pageCache

(* Which pc values carry a page in reg[t]: the strengthening that makes     *)
(* the invariants above inductive.                                         *)
RegistersMatchPc ==
  \A t \in Threads :
    /\ pc[t] \in {"release", "link", "push", "unlink"} => reg[t] # NoPage
    /\ reg[t] # NoPage => pc[t] \in {"release", "link", "push", "unlink", "unlock"}

IInv == /\ TypeOK /\ MutualExclusion /\ NoPageSharedOrLost
        /\ ListIntact /\ ReadsStillTrue /\ RegistersMatchPc

(* The lock never stays taken, whatever the callers do. *)
LockReleased == m_allocLock = 1 ~> m_allocLock = 0

(* While some thread waits, calls keep completing. *)
CallsComplete ==
  (\E t \in Threads : pc[t] \in Waiting) ~> (\E t \in Threads : pc[t] = "unlock")

(* The allocator implements PagePool: an operation takes effect when the   *)
(* list changes, or when the head or a counter is read.                    *)
AbstractOp(where) ==
  CASE where = Idle                                  -> "idle"
    [] where \in {"allocate", "peek", "unlink"}      -> "alloc"
    [] where \in {"release", "link", "push"}         -> "release"
    [] where = "unlock"                              -> "return"
    [] OTHER                                         -> "count"

Pool == INSTANCE PagePool WITH
          free <- Free,
          op <- [t \in Threads |-> AbstractOp(pc[t])],
          reg <- [t \in Threads |-> IF pc[t] = "unlink" THEN NoPage ELSE reg[t]]

ImplementsPagePool == Pool!Spec
=============================================================================
