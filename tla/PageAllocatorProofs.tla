------------------------ MODULE PageAllocatorProofs ------------------------
(***************************************************************************)
(* Proofs about PageAllocator for any number of threads and pages: the     *)
(* spin lock excludes, no page is shared or lost, the list and its         *)
(* counters stay intact, and the allocator implements PagePool.            *)
(***************************************************************************)
EXTENDS PageAllocator, SequenceTheorems, FiniteSetTheorems, TLAPS

(* A chain without repetition, seen as the set of its pages. *)
LEMMA ChainFacts ==
  ASSUME NEW c \in Seq(Pages)
  PROVE  /\ DOMAIN c = 1..Len(c)
         /\ Len(c) \in Nat
         /\ \A i \in 1..Len(c) : c[i] \in Pages
         /\ PagesOf(c) \subseteq Pages
         /\ c = <<>> <=> Len(c) = 0
         /\ c = <<>> <=> PagesOf(c) = {}
<1>1. DOMAIN c = 1..Len(c) /\ Len(c) \in Nat /\ c \in [1..Len(c) -> Pages]
  BY LenProperties
<1>2. c = <<>> <=> Len(c) = 0
  BY EmptySeq
<1>3. \A i \in 1..Len(c) : c[i] \in Pages
  BY <1>1
<1>4. PagesOf(c) \subseteq Pages
  BY <1>1, <1>3 DEF PagesOf
<1>5. c = <<>> <=> PagesOf(c) = {}
  <2>1. CASE Len(c) = 0
    <3>1. DOMAIN c = {}
      BY <1>1, <2>1
    <3>2. QED BY <1>2, <2>1, <3>1 DEF PagesOf
  <2>2. CASE Len(c) # 0
    <3>1. 1 \in DOMAIN c
      BY <1>1, <2>2
    <3>2. c[1] \in PagesOf(c)
      BY <3>1 DEF PagesOf
    <3>3. QED BY <1>2, <2>2, <3>2
  <2>3. QED BY <2>1, <2>2
<1>6. QED BY <1>1, <1>2, <1>3, <1>4, <1>5

(* GetCachedPage: without its last element a chain loses exactly that page. *)
LEMMA PoppedChain ==
  ASSUME NEW c \in Seq(Pages), c # <<>>, Distinct(c),
         NEW f, f = SubSeq(c, 1, Len(c) - 1)
  PROVE  /\ f \in Seq(Pages)
         /\ Len(f) = Len(c) - 1
         /\ \A i \in 1..Len(f) : f[i] = c[i]
         /\ Distinct(f)
         /\ c[Len(c)] \in PagesOf(c)
         /\ PagesOf(f) = PagesOf(c) \ {c[Len(c)]}
<1>1. Len(c) \in Nat \ {0} /\ DOMAIN c = 1..Len(c) /\ \A i \in 1..Len(c) : c[i] \in Pages
  BY ChainFacts
<1>2. /\ f \in Seq(Pages)
      /\ Len(f) = Len(c) - 1
      /\ \A i \in 1..Len(f) : f[i] = c[i]
  BY <1>1, SubSeqProperties
<1>3. ASSUME NEW i \in 1..(Len(c) - 1)
      PROVE  i \in 1..Len(c) /\ i # Len(c) /\ f[i] = c[i]
  <2>0. Len(c) \in Nat
    BY <1>1
  <2>1. i \in 1..Len(c)
    BY <2>0
  <2>2. i # Len(c)
    BY <2>0
  <2>3. f[i] = c[i]
    BY <2>0, <1>2
  <2> QED BY <2>1, <2>2, <2>3
<1>4. DOMAIN f = 1..(Len(c) - 1)
  BY <1>2, ChainFacts
<1>5. Distinct(f)
  BY <1>1, <1>2, <1>4 DEF Distinct
<1>6. PagesOf(f) = PagesOf(c) \ {c[Len(c)]}
  <2>1. ASSUME NEW p \in PagesOf(f)
        PROVE  p \in PagesOf(c) /\ p # c[Len(c)]
    <3>1. PICK i \in 1..(Len(c) - 1) : p = f[i]
      BY <1>4 DEF PagesOf
    <3>2. i \in DOMAIN c /\ i # Len(c) /\ p = c[i]
      BY <1>3, <1>1, <3>1
    <3>3. Len(c) \in DOMAIN c
      BY <1>1
    <3>4. QED BY <3>2, <3>3 DEF PagesOf, Distinct
  <2>2. ASSUME NEW p \in PagesOf(c), p # c[Len(c)]
        PROVE  p \in PagesOf(f)
    <3>1. PICK i \in 1..Len(c) : p = c[i]
      BY <1>1 DEF PagesOf
    <3>2. i \in DOMAIN f /\ p = f[i]
      BY <1>1, <1>2, <1>4, <2>2, <3>1
    <3>3. QED BY <3>2 DEF PagesOf
  <2>3. QED BY <2>1, <2>2
<1>7. c[Len(c)] \in PagesOf(c)
  BY <1>1 DEF PagesOf
<1>8. QED BY <1>2, <1>5, <1>6, <1>7

(* AddPageToCache: a page that is not on the chain joins it once. *)
LEMMA PushedChain ==
  ASSUME NEW c \in Seq(Pages), Distinct(c),
         NEW p \in Pages, p \notin PagesOf(c),
         NEW f, f = Append(c, p)
  PROVE  /\ f \in Seq(Pages)
         /\ Len(f) = Len(c) + 1
         /\ \A i \in 1..Len(c) : f[i] = c[i]
         /\ f[Len(f)] = p
         /\ Distinct(f)
         /\ PagesOf(f) = PagesOf(c) \cup {p}
<1>1. Len(c) \in Nat /\ DOMAIN c = 1..Len(c)
  BY ChainFacts
<1>2. /\ f \in Seq(Pages)
      /\ Len(f) = Len(c) + 1
      /\ \A i \in 1..Len(c) : f[i] = c[i]
      /\ f[Len(f)] = p
  BY <1>1, AppendProperties
<1>3. DOMAIN f = 1..(Len(c) + 1)
  BY <1>2, ChainFacts
<1>4. Distinct(f)
  BY <1>1, <1>2, <1>3 DEF Distinct, PagesOf
<1>5. PagesOf(f) = PagesOf(c) \cup {p}
  BY <1>1, <1>2, <1>3 DEF PagesOf
<1>6. QED BY <1>2, <1>4, <1>5

(* The two counters count a set: a chain without repetition has as many    *)
(* elements as pages.                                                      *)
LEMMA ChainCardinality ==
  ASSUME NEW c \in Seq(Pages), Distinct(c)
  PROVE  Cardinality(PagesOf(c)) = Len(c)
<1>1. Len(c) \in Nat /\ DOMAIN c = 1..Len(c) /\ c \in [1..Len(c) -> Pages]
  BY LenProperties
<1>2. c \in Bijection(1..Len(c), PagesOf(c))
  BY <1>1 DEF Bijection, Injection, Surjection, IsInjective, PagesOf, Distinct
<1>3. QED BY <1>1, <1>2, FS_CountingElements DEF ExistsBijection

-----------------------------------------------------------------------------

(* InitBootPages leaves a list of all the boot pages, nobody inside. *)
LEMMA InitInvariant == Init => IInv
<1> SUFFICES ASSUME Init PROVE IInv
  OBVIOUS
<1> USE BootChainAssumption DEF Init
<1>1. /\ BootChain \in Seq(Pages)
      /\ Len(BootChain) \in Nat \ {0}
      /\ DOMAIN BootChain = 1..Len(BootChain)
      /\ BootChain # <<>>
      /\ BootChain[Len(BootChain)] \in Pages
  BY ChainFacts
<1>2. HeadOf(BootChain) \in Pages
  BY <1>1 DEF HeadOf
<1>3. TypeOK
  BY <1>1, <1>2 DEF TypeOK, Idle
<1>4. MutualExclusion
  BY DEF MutualExclusion, Inside, Idle
<1>5. NoPageSharedOrLost
  <2>1. \A t \in Threads : Carried(t) = {}
    BY DEF Carried, Idle
  <2>2. Free = Pages
    BY DEF Free, Pages
  <2>3. QED BY <2>1, <2>2 DEF NoPageSharedOrLost
<1>6. ListIntact
  BY DEF ListIntact
<1>7. ReadsStillTrue /\ RegistersMatchPc
  BY DEF ReadsStillTrue, RegistersMatchPc, Idle
<1>8. QED BY <1>3, <1>4, <1>5, <1>6, <1>7 DEF IInv

(* Every call starts an operation without touching the list. *)
LEMMA CallKeepsInvariant ==
  ASSUME IInv, NEW t \in Threads,
         \/ CallAllocatePage(t) \/ CallGetFreePages(t) \/ CallGetCacheSize(t)
         \/ \E p \in Pages : CallReleasePage(t, p)
  PROVE  IInv'
<1> USE BootChainAssumption DEF IInv, listVars, Call
<1>1. PICK where \in Waiting, p \in Pages \cup {NoPage} :
        /\ pc[t] = Idle /\ pc' = [pc EXCEPT ![t] = where]
        /\ reg' = [reg EXCEPT ![t] = p]
        /\ live' = live \ {p}
        /\ p # NoPage => p \in live
        /\ p # NoPage <=> where = "release"
        /\ UNCHANGED <<m_allocLock, listVars, out>>
  <2>1. reg[t] = NoPage \/ pc[t] # Idle
    BY DEF RegistersMatchPc, Idle
  <2>2. live = live \ {NoPage} /\ reg = [reg EXCEPT ![t] = reg[t]]
    BY DEF TypeOK
  <2>3. QED
    BY <2>1, <2>2 DEF CallAllocatePage, CallGetFreePages, CallGetCacheSize, CallReleasePage,
                      Waiting
<1>2. where \notin Inside /\ pc[t] \notin Inside /\ where # "unlink" /\ where # "push" /\ pc[t] # "unlink"
  BY <1>1 DEF Waiting, Inside, Idle
<1>3. TypeOK'
  BY <1>1 DEF TypeOK
<1>4. MutualExclusion'
  BY <1>1, <1>2 DEF MutualExclusion, TypeOK
<1>5. NoPageSharedOrLost'
  <2>1. reg[t] = NoPage /\ Carried(t) = {}
    BY <1>1, <1>2 DEF Carried, RegistersMatchPc, Idle
  <2>2. Carried(t)' = {p} \ {NoPage} /\ Free' = Free
    BY <1>1, <1>2 DEF Carried, TypeOK, Free
  <2>3. \A u \in Threads : u # t => Carried(u)' = Carried(u)
    BY <1>1 DEF Carried, TypeOK
  <2>4. QED
    BY <1>1, <2>1, <2>2, <2>3 DEF NoPageSharedOrLost
<1>6. ListIntact'
  BY <1>1 DEF ListIntact, HeadOf, Linked
<1>7. ReadsStillTrue' /\ RegistersMatchPc'
  BY <1>1, <1>2 DEF ReadsStillTrue, RegistersMatchPc, TypeOK, Waiting, Idle
<1>8. QED BY <1>3, <1>4, <1>5, <1>6, <1>7

(* The thread whose exchange returned 0 is alone in the critical section. *)
LEMMA LockKeepsInvariant ==
  ASSUME IInv, NEW t \in Threads, Lock(t)
  PROVE  IInv'
<1> USE DEF IInv, listVars, Lock
<1>1. Entry(pc[t]) \in Inside \ {"unlink", "push", "unlock"} /\ pc[t] \notin Inside
  BY DEF Entry, Waiting, Inside
<1>2. pc'[t] = Entry(pc[t]) /\ \A u \in Threads : u # t => pc'[u] = pc[u]
  BY DEF TypeOK
<1>3. Entry(pc[t]) = "link" <=> pc[t] = "release"
  BY DEF Entry, Waiting
<1>4. TypeOK'
  BY <1>1 DEF TypeOK
<1>5. MutualExclusion'
  BY <1>1 DEF MutualExclusion, TypeOK
<1>6. NoPageSharedOrLost'
  <2>1. \A u \in Threads : Carried(u)' = Carried(u)
    BY <1>1 DEF Carried, TypeOK, Waiting
  <2>2. Free' = Free
    BY DEF Free
  <2>3. QED
    BY <2>1, <2>2 DEF NoPageSharedOrLost
<1>7. ListIntact'
  BY DEF ListIntact, HeadOf, Linked
<1>8. RegistersMatchPc'
  <2>1. reg[t] # NoPage <=> pc[t] = "release"
    BY DEF RegistersMatchPc, Waiting
  <2>2. pc'[t] \notin {"release", "push", "unlink", "unlock"}
    BY <1>2, <1>1 DEF Inside
  <2>3. QED
    BY <1>2, <1>3, <2>1, <2>2 DEF RegistersMatchPc
<1>9. ReadsStillTrue'
  BY <1>1, <1>2, <1>3 DEF ReadsStillTrue, RegistersMatchPc
<1>10. QED BY <1>4, <1>5, <1>6, <1>7, <1>8, <1>9

(* Only the owner is inside, so that nobody is after it unlocks. *)
LEMMA UnlockKeepsInvariant ==
  ASSUME IInv, NEW t \in Threads, Unlock(t)
  PROVE  IInv'
<1> USE BootChainAssumption DEF IInv, listVars, Unlock
<1>1. TypeOK'
  BY DEF TypeOK
<1>2. \A u \in Threads : u # t => pc[u] \notin Inside
  BY DEF MutualExclusion, Inside
<1>3. MutualExclusion'
  <2>1. \A u \in Threads : pc'[u] \notin Inside
    BY <1>2 DEF TypeOK, Inside, Idle
  <2>2. QED
    BY <2>1 DEF MutualExclusion
<1>4. NoPageSharedOrLost'
  <2>1. Carried(t) = {reg[t]} \ {NoPage} /\ Carried(t)' = {}
    BY DEF Carried, TypeOK, Idle
  <2>2. \A u \in Threads : u # t => Carried(u)' = Carried(u)
    BY DEF Carried, TypeOK
  <2>3. Free' = Free /\ live' = live \cup Carried(t)
    BY <2>1 DEF Free
  <2>4. QED
    BY <2>1, <2>2, <2>3 DEF NoPageSharedOrLost
<1>5. ListIntact'
  BY DEF ListIntact, HeadOf, Linked
<1>6. ReadsStillTrue' /\ RegistersMatchPc'
  BY <1>2 DEF ReadsStillTrue, RegistersMatchPc, TypeOK, Inside, Idle
<1>7. QED BY <1>1, <1>3, <1>4, <1>5, <1>6

(* A step inside the critical section leaves everyone else outside. *)
LEMMA AloneInside ==
  ASSUME IInv, NEW t \in Threads, pc[t] \in Inside,
         NEW where \in Inside, pc' = [pc EXCEPT ![t] = where],
         UNCHANGED m_allocLock
  PROVE  /\ MutualExclusion'
         /\ \A u \in Threads : u # t => pc[u] \notin Inside /\ pc'[u] = pc[u]
BY DEF IInv, MutualExclusion, TypeOK

(* GetCachedPage reads the head: what it read stays true while it is inside. *)
LEMMA PeekKeepsInvariant ==
  ASSUME IInv, NEW t \in Threads, Peek(t)
  PROVE  IInv'
<1> USE BootChainAssumption DEF IInv, listVars, Peek
<1>1. /\ pc[t] \in Inside
      /\ pc'[t] \in Inside
      /\ pc' = [pc EXCEPT ![t] = pc'[t]]
      /\ pc'[t] = IF m_pageCache = NoPage THEN "unlock" ELSE "unlink"
  BY DEF Inside, TypeOK
<1>2. MutualExclusion' /\ \A u \in Threads : u # t => pc[u] \notin Inside /\ pc'[u] = pc[u]
  BY <1>1, AloneInside
<1>3. TypeOK'
  BY <1>1 DEF TypeOK
<1>4. NoPageSharedOrLost'
  <2>1. Carried(t) = {} /\ Carried(t)' = {}
    BY <1>1 DEF Carried, TypeOK, RegistersMatchPc
  <2>2. \A u \in Threads : u # t => Carried(u)' = Carried(u)
    BY <1>2 DEF Carried, TypeOK
  <2>3. \A u \in Threads : Carried(u)' = Carried(u)
    BY <2>1, <2>2
  <2>4. Free' = Free
    BY DEF Free
  <2>5. QED
    BY <2>3, <2>4 DEF NoPageSharedOrLost
<1>5. ListIntact'
  BY DEF ListIntact, HeadOf, Linked
<1>6. ReadsStillTrue' /\ RegistersMatchPc'
  BY <1>1, <1>2 DEF ReadsStillTrue, RegistersMatchPc, TypeOK
<1>7. QED BY <1>2, <1>3, <1>4, <1>5, <1>6

(* The list is not empty: its head is what the thread read when it peeked. *)
LEMMA HeadOfList ==
  ASSUME IInv, m_pageCache # NoPage
  PROVE  /\ chain # <<>>
         /\ Len(chain) \in Nat \ {0}
         /\ m_pageCache = chain[Len(chain)]
         /\ m_pageCache \in Free
         /\ next[m_pageCache] = HeadOf(SubSeq(chain, 1, Len(chain) - 1))
<1> USE DEF IInv, ListIntact
<1>1. chain \in Seq(Pages) /\ Distinct(chain)
  BY DEF TypeOK, NoPageSharedOrLost
<1>2. chain # <<>> /\ m_pageCache = chain[Len(chain)]
  BY DEF HeadOf
<1>3. Len(chain) \in Nat \ {0} /\ DOMAIN chain = 1..Len(chain)
  BY <1>1, <1>2, ChainFacts
<1>4. m_pageCache \in Free
  BY <1>2, <1>3 DEF Free, PagesOf
<1>5. next[m_pageCache] = IF Len(chain) = 1 THEN NoPage ELSE chain[Len(chain) - 1]
  BY <1>2, <1>3 DEF Linked
<1> DEFINE f == SubSeq(chain, 1, Len(chain) - 1)
<1>6. /\ f \in Seq(Pages)
      /\ Len(f) = Len(chain) - 1
      /\ \A i \in 1..Len(f) : f[i] = chain[i]
  BY <1>1, <1>2, PoppedChain
<1>7. f = <<>> <=> Len(f) = 0
  BY <1>6, ChainFacts
<1> HIDE DEF f
<1>8. HeadOf(f) = IF Len(chain) = 1 THEN NoPage ELSE chain[Len(chain) - 1]
  <2>1. CASE Len(chain) = 1
    BY <1>6, <1>7, <2>1 DEF HeadOf
  <2>2. CASE Len(chain) # 1
    <3>1. f # <<>> /\ Len(f) \in 1..Len(f)
      BY <1>3, <1>6, <1>7, <2>2
    <3>2. f[Len(f)] = chain[Len(f)]
      BY <1>6, <3>1
    <3>3. QED BY <1>6, <2>2, <3>1, <3>2 DEF HeadOf
  <2>3. QED BY <2>1, <2>2
<1>9. QED BY <1>2, <1>3, <1>4, <1>5, <1>8 DEF f

(* GetCachedPage moves the head to the next page and forgets the old one:  *)
(* the page passes from the list to the thread.                            *)
LEMMA UnlinkKeepsInvariant ==
  ASSUME IInv, NEW t \in Threads, Unlink(t)
  PROVE  IInv'
<1> USE BootChainAssumption DEF IInv, listVars, Unlink
<1>1. /\ pc[t] \in Inside
      /\ pc'[t] = "unlock"
      /\ pc' = [pc EXCEPT ![t] = "unlock"]
      /\ "unlock" \in Inside
  BY DEF Inside, TypeOK
<1>2. MutualExclusion' /\ \A u \in Threads : u # t => pc[u] \notin Inside /\ pc'[u] = pc[u]
  BY <1>1, AloneInside
<1>3. reg[t] = m_pageCache /\ m_pageCache # NoPage /\ m_pageCache \in Pages
  BY DEF ReadsStillTrue, TypeOK
<1>4. /\ chain # <<>>
      /\ Len(chain) \in Nat \ {0}
      /\ m_pageCache = chain[Len(chain)]
      /\ m_pageCache \in Free
      /\ next[m_pageCache] = HeadOf(chain')
  BY <1>3, HeadOfList
<1>5. /\ chain' \in Seq(Pages)
      /\ Len(chain') = Len(chain) - 1
      /\ \A i \in 1..Len(chain') : chain'[i] = chain[i]
      /\ Distinct(chain')
      /\ PagesOf(chain') = PagesOf(chain) \ {m_pageCache}
  <2>1. chain \in Seq(Pages) /\ Distinct(chain)
    BY DEF TypeOK, NoPageSharedOrLost
  <2>2. chain' = SubSeq(chain, 1, Len(chain) - 1)
    OBVIOUS
  <2> DEFINE f == SubSeq(chain, 1, Len(chain) - 1)
  <2>3. /\ f \in Seq(Pages)
        /\ Len(f) = Len(chain) - 1
        /\ \A i \in 1..Len(f) : f[i] = chain[i]
        /\ Distinct(f)
        /\ PagesOf(f) = PagesOf(chain) \ {chain[Len(chain)]}
    BY <1>4, <2>1, PoppedChain
  <2> HIDE DEF f
  <2>4. chain' = f
    BY <2>2 DEF f
  <2>5. QED BY <1>4, <2>3, <2>4
<1>6. TypeOK'
  BY <1>1, <1>3, <1>4, <1>5 DEF TypeOK, ListIntact
<1>7. NoPageSharedOrLost'
  <2>1. Carried(t) = {} /\ Carried(t)' = {m_pageCache}
    BY <1>1, <1>3 DEF Carried
  <2>2. \A u \in Threads : u # t => Carried(u)' = Carried(u)
    BY <1>2 DEF Carried
  <2>3. Free' = Free \ {m_pageCache}
    BY <1>5 DEF Free
  <2>4. m_pageCache \in Free /\ live' = live /\ Distinct(chain')
    BY <1>4, <1>5
  <2>5. \A u \in Threads : u # t => m_pageCache \notin Carried(u)
    BY <2>4 DEF NoPageSharedOrLost
  <2>6. Free' \cap live' = {} /\ Distinct(chain')
    BY <2>3, <2>4 DEF NoPageSharedOrLost
  <2>7. ASSUME NEW u \in Threads PROVE Carried(u)' \cap (Free' \cup live') = {}
    <3>1. CASE u = t
      BY <2>1, <2>3, <2>4, <3>1 DEF NoPageSharedOrLost
    <3>2. CASE u # t
      BY <2>2, <2>3, <2>4, <3>2 DEF NoPageSharedOrLost
    <3>3. QED BY <3>1, <3>2
  <2>8. \A u, v \in Threads : u # v => Carried(u)' \cap Carried(v)' = {}
    BY <2>1, <2>2, <2>5 DEF NoPageSharedOrLost
  <2>9. ASSUME NEW p \in Pages
        PROVE  p \in Free' \cup live' \/ \E u \in Threads : p \in Carried(u)'
    BY <2>1, <2>2, <2>3, <2>4 DEF NoPageSharedOrLost
  <2>10. QED
    BY <2>6, <2>7, <2>8, <2>9 DEF NoPageSharedOrLost
<1>8. ListIntact'
  <2>1. m_pageCache' = HeadOf(chain')
    BY <1>3, <1>4
  <2>2. m_pageCacheCount' = Len(chain') /\ m_pagesAvailable' = Len(chain')
    BY <1>4, <1>5 DEF ListIntact
  <2>3. Linked(next', chain')
    <3>1. DOMAIN chain' = 1..Len(chain')
      BY <1>5, ChainFacts
    <3> SUFFICES ASSUME NEW i \in 1..Len(chain')
                 PROVE  next'[chain'[i]] = IF i = 1 THEN NoPage ELSE chain'[i - 1]
      BY <3>1 DEF Linked
    <3>2. chain'[i] \in PagesOf(chain') /\ chain'[i] \in Pages
      <4>1. i \in DOMAIN chain'
        BY <3>1
      <4>2. chain'[i] \in PagesOf(chain')
        BY <4>1 DEF PagesOf
      <4>3. QED BY <1>5, <4>2, ChainFacts
    <3>3. chain'[i] # m_pageCache
      BY <1>5, <3>2
    <3>4. next'[chain'[i]] = next[chain'[i]]
      BY <1>3, <3>2, <3>3 DEF TypeOK
    <3>5. i \in 1..Len(chain) /\ chain'[i] = chain[i]
      BY <1>4, <1>5
    <3>6. i # 1 => chain'[i - 1] = chain[i - 1]
      BY <1>4, <1>5
    <3>7. next[chain[i]] = IF i = 1 THEN NoPage ELSE chain[i - 1]
      BY <3>5, ChainFacts DEF ListIntact, Linked, TypeOK
    <3>8. QED BY <3>4, <3>5, <3>6, <3>7
  <2>4. QED BY <2>1, <2>2, <2>3 DEF ListIntact
<1>9. ReadsStillTrue' /\ RegistersMatchPc'
  BY <1>1, <1>2 DEF ReadsStillTrue, RegistersMatchPc, Inside
<1>10. QED BY <1>2, <1>6, <1>7, <1>8, <1>9

(* AddPageToCache writes the link of a page that is on no list. *)
LEMMA LinkKeepsInvariant ==
  ASSUME IInv, NEW t \in Threads, Link(t)
  PROVE  IInv'
<1> USE BootChainAssumption DEF IInv, listVars, Link
<1>1. /\ pc[t] \in Inside
      /\ pc'[t] = "push"
      /\ pc' = [pc EXCEPT ![t] = "push"]
      /\ "push" \in Inside
  BY DEF Inside, TypeOK
<1>2. MutualExclusion' /\ \A u \in Threads : u # t => pc[u] \notin Inside /\ pc'[u] = pc[u]
  BY <1>1, AloneInside
<1>3. reg[t] \in Pages /\ reg[t] # NoPage
  BY DEF ReadsStillTrue, TypeOK
<1>4. TypeOK'
  BY <1>1, <1>3 DEF TypeOK
<1>5. reg[t] \notin Free
  <2>1. reg[t] \in Carried(t)
    BY <1>3 DEF Carried
  <2>2. QED BY <2>1 DEF NoPageSharedOrLost
<1>6. NoPageSharedOrLost'
  <2>1. \A u \in Threads : Carried(u)' = Carried(u)
    BY <1>1, <1>2 DEF Carried
  <2>2. Free' = Free
    BY DEF Free
  <2>3. QED BY <2>1, <2>2 DEF NoPageSharedOrLost
<1>7. ListIntact'
  <2>1. \A i \in DOMAIN chain : chain[i] \in Pages /\ chain[i] # reg[t]
    BY <1>5, ChainFacts DEF TypeOK, Free, PagesOf
  <2>2. Linked(next', chain)
    BY <2>1 DEF Linked, ListIntact, TypeOK
  <2>3. QED BY <2>2 DEF ListIntact, Linked
<1>8. ReadsStillTrue'
  BY <1>1, <1>2, <1>3 DEF ReadsStillTrue, Inside, TypeOK
<1>9. RegistersMatchPc'
  BY <1>1, <1>2 DEF RegistersMatchPc
<1>10. QED BY <1>2, <1>4, <1>6, <1>7, <1>8, <1>9

(* AddPageToCache makes the page the head: it passes from the thread to    *)
(* the list, whose links now start at it.                                  *)
LEMMA PushKeepsInvariant ==
  ASSUME IInv, NEW t \in Threads, Push(t)
  PROVE  IInv'
<1> USE BootChainAssumption DEF IInv, listVars, Push
<1>1. /\ pc[t] \in Inside
      /\ pc'[t] = "unlock"
      /\ pc' = [pc EXCEPT ![t] = "unlock"]
      /\ "unlock" \in Inside
  BY DEF Inside, TypeOK
<1>2. MutualExclusion' /\ \A u \in Threads : u # t => pc[u] \notin Inside /\ pc'[u] = pc[u]
  BY <1>1, AloneInside
<1>3. reg[t] \in Pages /\ reg[t] # NoPage /\ next[reg[t]] = m_pageCache
  BY DEF ReadsStillTrue, TypeOK
<1>4. Carried(t) = {reg[t]} /\ Carried(t)' = {} /\ reg[t] \notin Free
  <2>1. Carried(t) = {reg[t]} /\ Carried(t)' = {}
    BY <1>1, <1>3 DEF Carried, TypeOK
  <2>2. QED BY <2>1 DEF NoPageSharedOrLost
<1>5. chain \in Seq(Pages) /\ Distinct(chain) /\ Len(chain) \in Nat /\ DOMAIN chain = 1..Len(chain)
  BY ChainFacts DEF TypeOK, NoPageSharedOrLost
<1>6. /\ chain' \in Seq(Pages)
      /\ Len(chain') = Len(chain) + 1
      /\ DOMAIN chain' = 1..(Len(chain) + 1)
      /\ \A i \in 1..Len(chain) : chain'[i] = chain[i]
      /\ chain'[Len(chain')] = reg[t]
      /\ Distinct(chain')
      /\ PagesOf(chain') = PagesOf(chain) \cup {reg[t]}
  <2> DEFINE f == Append(chain, reg[t])
  <2>1. /\ f \in Seq(Pages)
        /\ Len(f) = Len(chain) + 1
        /\ \A i \in 1..Len(chain) : f[i] = chain[i]
        /\ f[Len(f)] = reg[t]
        /\ Distinct(f)
        /\ PagesOf(f) = PagesOf(chain) \cup {reg[t]}
    BY <1>3, <1>4, <1>5, PushedChain DEF Free
  <2> HIDE DEF f
  <2>2. chain' = f
    BY DEF f
  <2>3. DOMAIN f = 1..(Len(chain) + 1)
    BY <2>1, ChainFacts
  <2>4. QED BY <2>1, <2>2, <2>3
<1>7. TypeOK'
  BY <1>1, <1>3, <1>6 DEF TypeOK
<1>8. NoPageSharedOrLost'
  <2>1. \A u \in Threads : u # t => Carried(u)' = Carried(u)
    BY <1>2 DEF Carried, TypeOK
  <2>2. Free' = Free \cup Carried(t)
    BY <1>4, <1>6 DEF Free
  <2>3. live' = live /\ Distinct(chain')
    BY <1>6
  <2>4. \A u \in Threads : u # t => Carried(u) \cap (Free \cup Carried(t)) = {}
    BY DEF NoPageSharedOrLost
  <2>5. Free' \cap live' = {}
    BY <2>2, <2>3 DEF NoPageSharedOrLost
  <2>6. /\ \A u \in Threads : Carried(u)' \cap (Free' \cup live') = {}
        /\ \A u, v \in Threads : u # v => Carried(u)' \cap Carried(v)' = {}
    BY <1>4, <2>1, <2>2, <2>3, <2>4 DEF NoPageSharedOrLost
  <2>7. \A p \in Pages : p \in Free' \cup live' \/ \E u \in Threads : p \in Carried(u)'
    BY <1>4, <2>1, <2>2, <2>3 DEF NoPageSharedOrLost
  <2>8. QED
    BY <2>3, <2>5, <2>6, <2>7 DEF NoPageSharedOrLost
<1>9. ListIntact'
  <2>1. m_pageCache' = HeadOf(chain')
    <3>1. chain' # <<>>
      BY <1>5, <1>6, ChainFacts
    <3>2. QED BY <1>6, <3>1 DEF HeadOf
  <2>2. m_pageCacheCount' = Len(chain') /\ m_pagesAvailable' = Len(chain')
    BY <1>6 DEF ListIntact
  <2>3. Linked(next', chain')
    <3> SUFFICES ASSUME NEW i \in 1..(Len(chain) + 1)
                 PROVE  next[chain'[i]] = IF i = 1 THEN NoPage ELSE chain'[i - 1]
      BY <1>6 DEF Linked
    <3>1. CASE i = Len(chain) + 1
      <4>1. next[chain'[i]] = HeadOf(chain)
        BY <1>3, <1>6, <3>1 DEF ListIntact
      <4>2. i = 1 <=> chain = <<>>
        BY <1>5, <3>1, ChainFacts
      <4>3. ASSUME i # 1
            PROVE  chain'[i - 1] = chain[Len(chain)]
        <5>1. i - 1 = Len(chain) /\ Len(chain) \in 1..Len(chain)
          BY <1>5, <3>1, <4>3
        <5>2. chain'[Len(chain)] = chain[Len(chain)]
          BY <1>6, <5>1
        <5>3. QED BY <5>1, <5>2
      <4>4. QED BY <4>1, <4>2, <4>3 DEF HeadOf
    <3>2. CASE i # Len(chain) + 1
      <4>1. i \in 1..Len(chain) /\ chain'[i] = chain[i]
        BY <1>5, <1>6, <3>2
      <4>2. i # 1 => chain'[i - 1] = chain[i - 1]
        BY <1>5, <1>6, <4>1
      <4>3. next[chain[i]] = IF i = 1 THEN NoPage ELSE chain[i - 1]
        BY <1>5, <4>1 DEF ListIntact, Linked
      <4>4. QED BY <4>1, <4>2, <4>3
    <3>3. QED BY <3>1, <3>2
  <2>4. QED BY <2>1, <2>2, <2>3 DEF ListIntact
<1>10. ReadsStillTrue' /\ RegistersMatchPc'
  BY <1>1, <1>2 DEF ReadsStillTrue, RegistersMatchPc, Inside, TypeOK
<1>11. QED BY <1>2, <1>7, <1>8, <1>9, <1>10

(* GetFreePages and GetCacheSize only look. *)
LEMMA ReadKeepsInvariant ==
  ASSUME IInv, NEW t \in Threads, ReadAvailable(t) \/ ReadCached(t)
  PROVE  IInv'
<1> USE BootChainAssumption DEF IInv, listVars, ReadAvailable, ReadCached, ReadCounter
<1>1. /\ pc[t] \in Inside \ {"unlink", "push", "link", "unlock"}
      /\ pc'[t] = "unlock"
      /\ pc' = [pc EXCEPT ![t] = "unlock"]
      /\ "unlock" \in Inside
      /\ UNCHANGED <<m_allocLock, listVars, reg, live>>
  BY DEF Inside, TypeOK
<1>2. MutualExclusion' /\ \A u \in Threads : u # t => pc[u] \notin Inside /\ pc'[u] = pc[u]
  BY <1>1, AloneInside
<1>3. TypeOK'
  <2>1. pc' \in [Threads -> {Idle} \cup Waiting \cup Inside]
    BY ONLY TypeOK, <1>1 DEF TypeOK
  <2>2. out' \in [Threads -> Nat]
    <3>1. \E n \in Nat : out' = [out EXCEPT ![t] = n]
      BY DEF TypeOK
    <3>2. QED BY ONLY TypeOK, t \in Threads, <3>1 DEF TypeOK
  <2> HIDE DEF ReadAvailable, ReadCached, ReadCounter
  <2>3. QED BY ONLY TypeOK, <1>1, <2>1, <2>2 DEF TypeOK, listVars
<1>4. NoPageSharedOrLost'
  <2>1. \A u \in Threads : Carried(u)' = Carried(u)
    BY <1>1, <1>2 DEF Carried
  <2>2. Free' = Free
    BY <1>1 DEF Free
  <2>3. live' = live /\ Distinct(chain')
    BY <1>1 DEF NoPageSharedOrLost
  <2> HIDE DEF ReadAvailable, ReadCached, ReadCounter
  <2>4. QED BY <2>1, <2>2, <2>3 DEF NoPageSharedOrLost
<1>5. ListIntact'
  BY <1>1 DEF ListIntact, HeadOf, Linked
<1>6. ReadsStillTrue' /\ RegistersMatchPc'
  BY <1>1, <1>2 DEF ReadsStillTrue, RegistersMatchPc
<1>7. QED BY <1>2, <1>3, <1>4, <1>5, <1>6

-----------------------------------------------------------------------------

(* No step of any thread breaks the inductive invariant. *)
LEMMA NextKeepsInvariant == IInv /\ [Next]_vars => IInv'
<1> SUFFICES ASSUME IInv, [Next]_vars PROVE IInv'
  OBVIOUS
<1>1. ASSUME NEW t \in Threads,
             \/ CallAllocatePage(t) \/ CallGetFreePages(t) \/ CallGetCacheSize(t)
             \/ \E p \in Pages : CallReleasePage(t, p)
      PROVE  IInv'
  BY <1>1, CallKeepsInvariant
<1>2. ASSUME NEW t \in Threads, Step(t)
      PROVE  IInv'
  BY <1>2, LockKeepsInvariant, UnlockKeepsInvariant, PeekKeepsInvariant, UnlinkKeepsInvariant,
     LinkKeepsInvariant, PushKeepsInvariant, ReadKeepsInvariant DEF Step
<1>3. CASE UNCHANGED vars
  BY <1>3 DEF IInv, vars, listVars, TypeOK, MutualExclusion, NoPageSharedOrLost, ListIntact,
              ReadsStillTrue, RegistersMatchPc, Carried, Free, Linked, HeadOf
<1>4. QED BY <1>1, <1>2, <1>3 DEF Next

(* The inductive invariant holds in every reachable state, for any set of  *)
(* threads and any non-empty boot chain without repetition.                *)
THEOREM Invariance == Spec => []IInv
<1>1. QED BY InitInvariant, NextKeepsInvariant, PTL DEF Spec

(* Every variable stays in its type; in particular neither counter of the  *)
(* allocator ever wraps below zero.                                        *)
THEOREM TypeCorrect == Spec => []TypeOK
<1>1. IInv => TypeOK
  BY DEF IInv
<1>2. QED BY <1>1, Invariance, PTL

(* SpinLock and LockGuard keep the allocator's critical sections apart.    *)
THEOREM LockExcludes == Spec => []MutualExclusion
<1>1. IInv => MutualExclusion
  BY DEF IInv
<1>2. QED BY <1>1, Invariance, PTL

(* AllocatePage never hands out a page that is owned or on its way back,   *)
(* and no page is lost.                                                    *)
THEOREM PagesAreSafe == Spec => []NoPageSharedOrLost
<1>1. IInv => NoPageSharedOrLost
  BY DEF IInv
<1>2. QED BY <1>1, Invariance, PTL

(* The linked list and its two counters always describe the same pages.    *)
THEOREM ListStaysIntact == Spec => []ListIntact
<1>1. IInv => ListIntact
  BY DEF IInv
<1>2. QED BY <1>1, Invariance, PTL

(* Nobody changes the head or a carried page between the read and the      *)
(* write of a thread inside AllocatePage or ReleasePage.                   *)
THEOREM ReadsStayTrue == Spec => []ReadsStillTrue
<1>1. IInv => ReadsStillTrue
  BY DEF IInv
<1>2. QED BY <1>1, Invariance, PTL

-----------------------------------------------------------------------------
(* Refinement.                                                             *)

AbstractReg == [t \in Threads |-> IF pc[t] = "unlink" THEN NoPage ELSE reg[t]]
AbstractOps == [t \in Threads |-> AbstractOp(pc[t])]

(* Every boot page is free in the pool, as it is on the list. *)
LEMMA InitRefines == Init => Pool!Init
<1> SUFFICES ASSUME Init PROVE Pool!Init
  OBVIOUS
<1>1. Free = Pages
  BY DEF Init, Free, Pages
<1>2. AbstractOps = [t \in Threads |-> "idle"]
  BY DEF Init, AbstractOps, AbstractOp, Idle
<1>3. AbstractReg = [t \in Threads |-> NoPage]
  BY DEF Init, AbstractReg, Idle
<1>4. QED BY <1>1, <1>2, <1>3 DEF Init, Pool!Init, AbstractReg, AbstractOps

(* A step of thread t shows in the mapping at t alone. *)
LEMMA MappingAt ==
  ASSUME TypeOK, NEW t \in Threads, NEW where, pc' = [pc EXCEPT ![t] = where],
         NEW r, reg' = [reg EXCEPT ![t] = r]
  PROVE  /\ AbstractOps' = [AbstractOps EXCEPT ![t] = AbstractOp(where)]
         /\ AbstractReg' = [AbstractReg EXCEPT ![t] = IF where = "unlink" THEN NoPage ELSE r]
         /\ AbstractOps[t] = AbstractOp(pc[t])
         /\ AbstractReg[t] = IF pc[t] = "unlink" THEN NoPage ELSE reg[t]
<1>1. /\ pc'[t] = where /\ reg'[t] = r
      /\ \A u \in Threads : u # t => pc'[u] = pc[u] /\ reg'[u] = reg[u]
  BY DEF TypeOK
<1>2. AbstractOps' = [u \in Threads |-> AbstractOp(pc'[u])]
  BY DEF AbstractOps, AbstractOp
<1>3. AbstractReg' = [u \in Threads |-> IF pc'[u] = "unlink" THEN NoPage ELSE reg'[u]]
  BY DEF AbstractReg
<1>4. AbstractOps[t] = AbstractOp(pc[t])
  BY DEF AbstractOps
<1>5. AbstractReg[t] = IF pc[t] = "unlink" THEN NoPage ELSE reg[t]
  BY DEF AbstractReg
<1>6. AbstractOps' = [AbstractOps EXCEPT ![t] = AbstractOp(where)]
  <2>1. AbstractOps = [u \in Threads |-> AbstractOp(pc[u])]
    BY DEF AbstractOps
  <2>2. \A u \in Threads : AbstractOp(pc'[u]) = IF u = t THEN AbstractOp(where) ELSE AbstractOp(pc[u])
    BY <1>1
  <2>3. QED BY <1>2, <2>1, <2>2
<1>7. AbstractReg' = [AbstractReg EXCEPT ![t] = IF where = "unlink" THEN NoPage ELSE r]
  BY <1>1, <1>3 DEF AbstractReg
<1>8. QED BY <1>4, <1>5, <1>6, <1>7

(* Calls, the return, and the accesses that change nothing the callers see. *)
LEMMA CallRefines ==
  ASSUME IInv, NEW t \in Threads,
         \/ CallAllocatePage(t) \/ CallGetFreePages(t) \/ CallGetCacheSize(t)
         \/ \E p \in Pages : CallReleasePage(t, p)
  PROVE  Pool!Next
<1> USE DEF listVars, Call
<1>0. TypeOK /\ (pc[t] = Idle => AbstractOp(pc[t]) = "idle")
  BY DEF IInv, AbstractOp, Idle
<1>1. CASE CallAllocatePage(t)
  <2>1. PICK where \in {"allocate"} :
          pc' = [pc EXCEPT ![t] = where] /\ reg' = [reg EXCEPT ![t] = reg[t]] /\ pc[t] = Idle
    BY <1>0, <1>1 DEF CallAllocatePage, TypeOK
  <2>2. /\ AbstractOps' = [AbstractOps EXCEPT ![t] = AbstractOp(where)]
        /\ AbstractOps[t] = "idle"
        /\ AbstractReg' = [AbstractReg EXCEPT ![t] = reg[t]]
        /\ AbstractReg[t] = reg[t]
    BY <1>0, <2>1, MappingAt DEF Idle
  <2>3. AbstractReg' = AbstractReg /\ AbstractOp(where) = "alloc"
    BY <2>2 DEF AbstractReg, AbstractOp, Idle
  <2>4. Free' = Free /\ live' = live /\ out' = out
    BY <1>1 DEF CallAllocatePage, Free
  <2>5. Pool!CallAllocate(t)
    BY <2>2, <2>3, <2>4 DEF Pool!CallAllocate, AbstractOps, AbstractReg
  <2>6. QED BY <2>5 DEF Pool!Next
<1>2. CASE CallGetFreePages(t) \/ CallGetCacheSize(t)
  <2>1. PICK where \in {"free pages", "cache size"} :
          pc' = [pc EXCEPT ![t] = where] /\ reg' = [reg EXCEPT ![t] = reg[t]] /\ pc[t] = Idle
    BY <1>0, <1>2 DEF CallGetFreePages, CallGetCacheSize, TypeOK
  <2>2. /\ AbstractOps' = [AbstractOps EXCEPT ![t] = AbstractOp(where)]
        /\ AbstractOps[t] = "idle"
        /\ AbstractReg' = [AbstractReg EXCEPT ![t] = reg[t]]
        /\ AbstractReg[t] = reg[t]
    BY <1>0, <2>1, MappingAt DEF Idle
  <2>3. AbstractReg' = AbstractReg /\ AbstractOp(where) = "count"
    BY <2>2 DEF AbstractReg, AbstractOp, Idle
  <2>4. Free' = Free /\ live' = live /\ out' = out
    BY <1>2 DEF CallGetFreePages, CallGetCacheSize, Free
  <2>5. Pool!CallCount(t)
    BY <2>2, <2>3, <2>4 DEF Pool!CallCount, AbstractOps, AbstractReg
  <2>6. QED BY <2>5 DEF Pool!Next
<1>3. ASSUME NEW p \in Pages, CallReleasePage(t, p)
      PROVE  Pool!Next
  <2>1. PICK where \in {"release"} :
        /\ pc' = [pc EXCEPT ![t] = where]
        /\ reg' = [reg EXCEPT ![t] = p]
        /\ pc[t] = Idle
        /\ p \in live /\ live' = live \ {p}
    BY <1>3 DEF CallReleasePage
  <2>2. /\ AbstractOps' = [AbstractOps EXCEPT ![t] = AbstractOp(where)]
        /\ AbstractOps[t] = "idle"
        /\ AbstractReg' = [AbstractReg EXCEPT ![t] = p]
    BY <1>0, <2>1, MappingAt DEF Idle
  <2>3. AbstractOp(where) = "release"
    BY <2>1 DEF AbstractOp, Idle
  <2>4. Free' = Free /\ out' = out
    BY <1>3 DEF CallReleasePage, Free
  <2>5. Pool!CallRelease(t, p)
    BY <2>1, <2>2, <2>3, <2>4 DEF Pool!CallRelease, AbstractOps, AbstractReg
  <2>6. QED BY <2>5 DEF Pool!Next
<1>4. QED BY <1>1, <1>2, <1>3

(* Lock and Link change nothing the abstract pool has.  Peek does only when *)
(* it finds the list empty, and then the pool is: the operation takes       *)
(* effect as a Refuse.                                                      *)
LEMMA AccessRefines ==
  ASSUME IInv, NEW t \in Threads, Lock(t) \/ Link(t) \/ Peek(t)
  PROVE  Pool!Next \/ UNCHANGED Pool!vars
<1> USE DEF listVars
<1>0. TypeOK
  BY DEF IInv
<1>1. Free' = Free /\ live' = live /\ out' = out
  BY DEF Free, Lock, Link, Peek
<1>2. CASE Lock(t) \/ Link(t)
  <2>1. PICK where :
          /\ pc' = [pc EXCEPT ![t] = where] /\ reg' = [reg EXCEPT ![t] = reg[t]]
          /\ AbstractOp(where) = AbstractOp(pc[t])
          /\ where # "unlink" /\ pc[t] # "unlink"
    BY <1>0, <1>2 DEF Lock, Link, TypeOK, Entry, AbstractOp, Waiting, Idle
  <2>2. /\ AbstractOps' = [AbstractOps EXCEPT ![t] = AbstractOp(where)]
        /\ AbstractReg' = [AbstractReg EXCEPT ![t] = reg[t]]
        /\ AbstractOps[t] = AbstractOp(where)
        /\ AbstractReg[t] = reg[t]
    <3>1. /\ AbstractOps' = [AbstractOps EXCEPT ![t] = AbstractOp(where)]
          /\ AbstractReg' = [AbstractReg EXCEPT ![t] = IF where = "unlink" THEN NoPage ELSE reg[t]]
          /\ AbstractOps[t] = AbstractOp(pc[t])
          /\ AbstractReg[t] = IF pc[t] = "unlink" THEN NoPage ELSE reg[t]
      BY <1>0, <2>1, MappingAt
    <3>2. QED BY <2>1, <3>1
  <2>3. AbstractOps' = AbstractOps /\ AbstractReg' = AbstractReg
    BY <2>2 DEF AbstractOps, AbstractReg
  <2>4. QED BY <1>1, <2>3 DEF Pool!vars, AbstractOps, AbstractReg
<1>3. CASE Peek(t)
  <2>1. /\ pc[t] = "peek" /\ reg' = [reg EXCEPT ![t] = m_pageCache]
        /\ pc' = [pc EXCEPT ![t] = IF m_pageCache = NoPage THEN "unlock" ELSE "unlink"]
        /\ reg[t] = NoPage
    BY <1>3 DEF Peek, IInv, RegistersMatchPc
  <2>2. /\ AbstractOps[t] = "alloc"
        /\ AbstractReg[t] = NoPage
        /\ AbstractReg' = [AbstractReg EXCEPT ![t] = NoPage]
        /\ AbstractOps' = [AbstractOps EXCEPT
                             ![t] = AbstractOp(IF m_pageCache = NoPage THEN "unlock" ELSE "unlink")]
    BY <1>0, <2>1, MappingAt DEF AbstractOp, Idle
  <2>3. AbstractReg' = AbstractReg
    BY <2>2 DEF AbstractReg
  <2>4. CASE m_pageCache = NoPage
    <3>1. chain = <<>>
      <4>1. chain \in Seq(Pages) /\ m_pageCache = HeadOf(chain) /\ NoPage \notin Pages
        BY BootChainAssumption DEF IInv, TypeOK, ListIntact
      <4>2. ASSUME chain # <<>> PROVE FALSE
        <5>1. Len(chain) \in 1..Len(chain)
          BY <4>1, <4>2, ChainFacts
        <5>2. chain[Len(chain)] \in Pages
          BY <4>1, <5>1, ChainFacts
        <5>3. QED BY <2>4, <4>1, <4>2, <5>2 DEF HeadOf
      <4>3. QED BY <4>2
    <3>2. Free = {}
      BY <1>0, <3>1, ChainFacts DEF Free, TypeOK
    <3>3. AbstractOps' = [AbstractOps EXCEPT ![t] = "return"]
      BY <2>2, <2>4 DEF AbstractOp, Idle
    <3>4. Pool!Refuse(t)
      BY <1>1, <2>2, <2>3, <3>2, <3>3 DEF Pool!Refuse, AbstractOps, AbstractReg
    <3>5. QED BY <3>4 DEF Pool!Next
  <2>5. CASE m_pageCache # NoPage
    <3>1. AbstractOps' = [AbstractOps EXCEPT ![t] = AbstractOps[t]]
      BY <2>2, <2>5 DEF AbstractOp, Idle
    <3>2. AbstractOps' = AbstractOps
      BY <3>1 DEF AbstractOps
    <3>3. QED BY <1>1, <2>3, <3>2 DEF Pool!vars, AbstractOps, AbstractReg
  <2>6. QED BY <2>4, <2>5
<1>4. QED BY <1>2, <1>3

(* GetCachedPage moves the head: the pool's Take of the page it had read. *)
LEMMA UnlinkRefines ==
  ASSUME IInv, IInv', NEW t \in Threads, Unlink(t)
  PROVE  Pool!Next
<1>1. PICK where \in {"unlock"} :
        /\ pc' = [pc EXCEPT ![t] = where] /\ reg' = [reg EXCEPT ![t] = reg[t]]
        /\ pc[t] = "unlink"
  BY DEF Unlink, IInv, TypeOK
<1>2. /\ AbstractOps' = [AbstractOps EXCEPT ![t] = AbstractOp(where)]
      /\ AbstractReg' = [AbstractReg EXCEPT ![t] = reg[t]]
      /\ AbstractOps[t] = AbstractOp(pc[t])
  BY <1>1, MappingAt DEF IInv
<1>3. AbstractOp(where) = "return" /\ AbstractOp(pc[t]) = "alloc"
  BY <1>1 DEF AbstractOp, Idle
<1>4. reg[t] = m_pageCache /\ m_pageCache \in Free /\ Free \subseteq Pages
  BY <1>1, HeadOfList, ChainFacts DEF IInv, ReadsStillTrue, TypeOK, Free
<1>5. Free' = Free \ {reg[t]}
  <2>1. chain \in Seq(Pages) /\ Distinct(chain) /\ chain # <<>> /\ m_pageCache = chain[Len(chain)]
    BY <1>1, HeadOfList DEF IInv, TypeOK, NoPageSharedOrLost, ReadsStillTrue
  <2> DEFINE f == SubSeq(chain, 1, Len(chain) - 1)
  <2>2. PagesOf(f) = PagesOf(chain) \ {chain[Len(chain)]}
    BY <2>1, PoppedChain
  <2>3. chain' = f
    BY DEF Unlink
  <2> HIDE DEF f
  <2>4. QED BY <1>4, <2>1, <2>2, <2>3 DEF Free
<1>6. live' = live /\ out' = out
  BY DEF Unlink
<1>7. PICK p \in Pages : p = reg[t]
  BY <1>4
<1>8. Pool!Take(t, p)
  BY <1>2, <1>3, <1>4, <1>5, <1>6, <1>7 DEF Pool!Take, AbstractOps, AbstractReg
<1>9. QED BY <1>8 DEF Pool!Next

(* AddPageToCache sets the head: the pool's Put. *)
LEMMA PushRefines ==
  ASSUME IInv, NEW t \in Threads, Push(t)
  PROVE  Pool!Next
<1>1. PICK where \in {"unlock"} :
        /\ pc' = [pc EXCEPT ![t] = where] /\ reg' = [reg EXCEPT ![t] = NoPage]
        /\ pc[t] = "push"
  BY DEF Push
<1>2. /\ AbstractOps' = [AbstractOps EXCEPT ![t] = AbstractOp(where)]
      /\ AbstractReg' = [AbstractReg EXCEPT ![t] = NoPage]
      /\ AbstractOps[t] = AbstractOp(pc[t])
  BY <1>1, MappingAt DEF IInv
<1>3. AbstractOp(where) = "return" /\ AbstractOp(pc[t]) = "release"
  BY <1>1 DEF AbstractOp, Idle
<1>4. AbstractReg[t] = reg[t]
  BY <1>1 DEF AbstractReg
<1>5. Free' = Free \cup {reg[t]}
  <2>1. chain \in Seq(Pages) /\ Distinct(chain) /\ reg[t] \in Pages /\ reg[t] # NoPage
    BY <1>1 DEF IInv, TypeOK, NoPageSharedOrLost, ReadsStillTrue
  <2>2. reg[t] \in Carried(t)
    BY <1>1, <2>1 DEF Carried
  <2>3. reg[t] \notin PagesOf(chain)
    BY <2>2 DEF IInv, NoPageSharedOrLost, Free
  <2> DEFINE f == Append(chain, reg[t])
  <2>4. PagesOf(f) = PagesOf(chain) \cup {reg[t]}
    BY <2>1, <2>3, PushedChain
  <2>5. chain' = f
    BY DEF Push
  <2> HIDE DEF f
  <2>6. QED BY <2>4, <2>5 DEF Free
<1>6. live' = live /\ out' = out
  BY DEF Push
<1>7. Pool!Put(t)
  BY <1>2, <1>3, <1>4, <1>5, <1>6 DEF Pool!Put, AbstractOps, AbstractReg
<1>8. QED BY <1>7 DEF Pool!Next

(* Both counters are the number of free pages: the pool's Count. *)
LEMMA ReadRefines ==
  ASSUME IInv, NEW t \in Threads, ReadAvailable(t) \/ ReadCached(t)
  PROVE  Pool!Next
<1> USE DEF listVars
<1>1. PICK where \in {"unlock"} :
        /\ pc' = [pc EXCEPT ![t] = where] /\ reg' = [reg EXCEPT ![t] = reg[t]]
        /\ pc[t] \in {"read available", "read cached"}
  BY DEF ReadAvailable, ReadCached, ReadCounter, IInv, TypeOK
<1>2. /\ AbstractOps' = [AbstractOps EXCEPT ![t] = AbstractOp(where)]
      /\ AbstractReg' = [AbstractReg EXCEPT ![t] = reg[t]]
      /\ AbstractOps[t] = AbstractOp(pc[t])
  BY <1>1, MappingAt DEF IInv
<1>3. AbstractOp(where) = "return" /\ AbstractOp(pc[t]) = "count"
  BY <1>1 DEF AbstractOp, Idle
<1>4. AbstractReg' = AbstractReg
  BY <1>1, <1>2 DEF AbstractReg
<1>5. Cardinality(Free) = Len(chain)
  BY ChainCardinality DEF IInv, TypeOK, NoPageSharedOrLost, Free
<1>6. out' = [out EXCEPT ![t] = Cardinality(Free)]
  BY <1>5 DEF ReadAvailable, ReadCached, ReadCounter, IInv, ListIntact
<1>7. Free' = Free /\ live' = live
  BY DEF ReadAvailable, ReadCached, ReadCounter, Free
<1>8. Pool!Count(t)
  <2>1. AbstractOps[t] = "count" /\ AbstractOps' = [AbstractOps EXCEPT ![t] = "return"]
    BY <1>2, <1>3
  <2>2. Pool!Cardinality(Free) = Cardinality(Free)
    BY DEF Pool!Cardinality, Cardinality
  <2>3. QED BY <1>4, <1>6, <1>7, <2>1, <2>2 DEF Pool!Count, AbstractOps, AbstractReg
<1>9. QED BY <1>8 DEF Pool!Next

(* ~LockGuard and the return: the pool's Return. *)
LEMMA UnlockRefines ==
  ASSUME IInv, NEW t \in Threads, Unlock(t)
  PROVE  Pool!Next
<1> USE DEF listVars
<1>1. PICK where \in {Idle} :
        /\ pc' = [pc EXCEPT ![t] = where] /\ reg' = [reg EXCEPT ![t] = NoPage]
        /\ pc[t] = "unlock"
  BY DEF Unlock
<1>2. /\ AbstractOps' = [AbstractOps EXCEPT ![t] = AbstractOp(where)]
      /\ AbstractReg' = [AbstractReg EXCEPT ![t] = NoPage]
      /\ AbstractOps[t] = AbstractOp(pc[t])
  BY <1>1, MappingAt DEF IInv
<1>3. AbstractOp(where) = "idle" /\ AbstractOp(pc[t]) = "return"
  BY <1>1 DEF AbstractOp, Idle
<1>4. AbstractReg[t] = reg[t]
  BY <1>1 DEF AbstractReg
<1>5. Free' = Free /\ live' = live \cup ({reg[t]} \ {NoPage}) /\ out' = [out EXCEPT ![t] = 0]
  BY DEF Unlock, Free
<1>6. Pool!Return(t)
  BY <1>2, <1>3, <1>4, <1>5 DEF Pool!Return, AbstractOps, AbstractReg
<1>7. QED BY <1>6 DEF Pool!Next

(* Every step of the allocator is a step of the pool or invisible to it. *)
LEMMA NextRefines ==
  ASSUME IInv, IInv', [Next]_vars
  PROVE  [Pool!Next]_Pool!vars
<1>1. ASSUME NEW t \in Threads,
             \/ CallAllocatePage(t) \/ CallGetFreePages(t) \/ CallGetCacheSize(t)
             \/ \E p \in Pages : CallReleasePage(t, p)
      PROVE  Pool!Next
  BY <1>1, CallRefines
<1>2. ASSUME NEW t \in Threads, Step(t)
      PROVE  Pool!Next \/ UNCHANGED Pool!vars
  BY <1>2, AccessRefines, UnlinkRefines, PushRefines, ReadRefines, UnlockRefines DEF Step
<1>3. CASE UNCHANGED vars
  <2>1. Free' = Free /\ live' = live /\ out' = out
    BY <1>3 DEF vars, listVars, Free
  <2>2. AbstractOps' = AbstractOps /\ AbstractReg' = AbstractReg
    BY <1>3 DEF vars, AbstractOps, AbstractReg
  <2>3. QED BY <2>1, <2>2 DEF Pool!vars, AbstractOps, AbstractReg
<1>4. QED BY <1>1, <1>2, <1>3 DEF Next

(* The linked list behind a spin lock implements the page pool: to its     *)
(* callers AllocatePage, ReleasePage, GetFreePages and GetCacheSize are    *)
(* atomic, whatever the threads interleave.                                *)
THEOREM Refinement == Spec => ImplementsPagePool
<1>1. Init => Pool!Init
  BY InitRefines
<1>2. IInv /\ IInv' /\ [Next]_vars => [Pool!Next]_Pool!vars
  BY NextRefines
<1>3. QED BY <1>1, <1>2, Invariance, PTL DEF Spec, ImplementsPagePool, Pool!Spec
=============================================================================
