------------------------------- MODULE Kalloc -------------------------------
(***************************************************************************)
(* The kernel heap (src/sys/kernel/src/kalloc): kalloc and kfree over size *)
(* buckets of one-page slabs for small requests and whole pages, described *)
(* by metadata items of the small heap itself, for the larger ones.        *)
(*                                                                         *)
(* Pages come from and go to the page pool, whose operations are atomic    *)
(* (PageAllocatorProofs, Refinement).  The free-metadata Stack has a lock  *)
(* of its own around each Push and Pop, so that these are atomic too.  A   *)
(* critical section is one step where it touches only what its lock        *)
(* guards, and several where it goes to the pool or to the page counter,   *)
(* which no common lock guards.                                            *)
(***************************************************************************)
EXTENDS Integers, Sequences, FiniteSets, SequencesExt

CONSTANTS
  Threads,
  Pages,             \* the pages of the pool when InitKalloc starts
  BootPage,          \* the page InitKalloc takes for the first slab
  BootItems,         \* the items of it that hold the lgBuckets List objects
  MAX_BUCKET_INDEX,  \* SmallItemHash::MAX_BUCKET_INDEX: buckets are 0 .. this - 1
  ItemsPerSlab,      \* ItemsPerSlab[b]: SmallItemBucket::m_itemsPerSlab
  MaxItems,          \* bound: no slab has more items
  MetaBucket,        \* IndexFromSize of both LargePageMeta and List<LargePageMeta>
  HashPtr,           \* HashPtr[p]: hash_ptr of page p
  EMPTY_MAX,         \* slabs GC leaves in the empty list
  Sizes,             \* what callers ask for: bucket indices and the two below
  OnePage, ManyPages,\* a size above MAX_ITEM_SIZE, up to a page and beyond
  NullFaults,        \* page 0 is not mapped (i386); on x86_64 it is
  CountMod,          \* kallocAllocatedPages is kept modulo CountMod
  NoPage, Null, Nobody

Buckets == 0..(MAX_BUCKET_INDEX - 1)
NoBucket == 255                        \* the m_bucket of a slab that is not set up
Items(b) == 1..ItemsPerSlab[b]
PagePointer(p) == <<p, 0>>             \* page-aligned: what kalloc_large returns
Pointers == Pages \X (0..MaxItems)

(* At least two items fit in a slab (MAX_ITEM_SIZE is half the space), the *)
(* List objects leave their slab neither full nor empty, and IndexFromSize *)
(* gives at most the index after the last bucket's.                        *)
ASSUME KallocAssumption ==
  /\ MAX_BUCKET_INDEX \in Nat \ {0}
  /\ MaxItems \in Nat
  /\ ItemsPerSlab \in [Buckets -> 2..MaxItems]
  /\ Sizes \subseteq (0..MAX_BUCKET_INDEX) \cup {OnePage, ManyPages}
  /\ BootPage \in Pages
  /\ MetaBucket \in Buckets
  /\ BootItems \subseteq Items(MetaBucket)
  /\ BootItems # {} /\ BootItems # Items(MetaBucket)
  /\ EMPTY_MAX \in Nat
  /\ NullFaults \in BOOLEAN
  /\ CountMod \in Nat \ {0}
  /\ NoPage \notin Pages /\ Null \notin Pointers /\ Nobody \notin Threads

VARIABLES
  pool,                  \* free pages of the page allocator
  header,                \* header[p]: SmallItemSlab at the start of page p
  m_partial, m_full, m_empty,    \* lists of slabs of every bucket
  m_mutex,               \* m_mutex[b]: who holds the lock of bucket b
  lgBucketMutex,         \* who holds it
  lgBuckets,             \* lgBuckets[h]: metadata of the large blocks that hash to h
  freeLargeMetas,        \* the stack of metadata not in use
  PagePtr,               \* PagePtr[m]: the page metadata item m describes
  kallocAllocatedPages,
  th,                    \* th[t]: program counter and locals of thread t
  live,                  \* pointers that callers own
  halted                 \* the kernel stopped in a panic or a fault

lists == <<m_partial, m_full, m_empty>>
locks == <<m_mutex, lgBucketMutex>>
large == <<lgBuckets, freeLargeMetas, PagePtr>>
vars == <<pool, header, lists, locks, large, kallocAllocatedPages, th, live, halted>>

Hashes == {HashPtr[p] : p \in Pages}
Idle == [pc |-> "idle", call |-> "none", idx |-> 0, slab |-> NoPage, meta |-> Null,
         ptr |-> Null, seen |-> 0, dry |-> FALSE]

Blank == [bucket |-> NoBucket, free |-> 0, marks |-> {}]

(* The state InitKalloc leaves: one slab in use, for the List objects. *)
Init ==
  /\ pool = Pages \ {BootPage}
  /\ header = [p \in Pages |->
       IF p = BootPage
       THEN [bucket |-> MetaBucket, marks |-> BootItems,
             free |-> ItemsPerSlab[MetaBucket] - Cardinality(BootItems)]
       ELSE Blank]
  /\ m_partial = [b \in Buckets |-> IF b = MetaBucket THEN <<BootPage>> ELSE <<>>]
  /\ m_full = [b \in Buckets |-> <<>>]
  /\ m_empty = [b \in Buckets |-> <<>>]
  /\ m_mutex = [b \in Buckets |-> Nobody]
  /\ lgBucketMutex = Nobody
  /\ lgBuckets = [h \in Hashes |-> <<>>]
  /\ freeLargeMetas = <<>>
  /\ PagePtr = [m \in Pointers |-> NoPage]
  /\ kallocAllocatedPages = 1 % CountMod
  /\ th = [t \in Threads |-> Idle]
  /\ live = {}
  /\ halted = FALSE

At(t, pc) == th[t].pc = pc /\ ~halted

(* List::Remove: the node of x out of the list. *)
Unlink(s, x) ==
  LET i == CHOOSE j \in DOMAIN s : s[j] = x
  IN IF x \in ToSet(s) THEN RemoveAt(s, i) ELSE s

-----------------------------------------------------------------------------
(* kalloc and kalloc_small.                                                *)

(* The loop of kalloc_small goes on with bucket i or, past the last one,   *)
(* gives up; then kalloc_large, which may have asked, gives up as well.    *)
TryFrom(i) == IF i < MAX_BUCKET_INDEX THEN "allocate" ELSE "return"

(* Fault variant of CallKalloc: the loop starts at the bucket after the fit. *)
CallKallocOneAbove(t, sz) ==
  /\ At(t, "idle")
  /\ sz \notin {OnePage, ManyPages}
  /\ th' = [th EXCEPT ![t].call = "kalloc", ![t].idx = sz + 1, ![t].pc = TryFrom(sz + 1)]
  /\ UNCHANGED <<pool, header, lists, locks, large, kallocAllocatedPages, live, halted>>

(* kalloc of a size up to MAX_ITEM_SIZE; sz is its IndexFromSize. *)
CallKalloc(t, sz) ==
  /\ At(t, "idle")
  /\ sz \notin {OnePage, ManyPages}
  /\ th' = [th EXCEPT ![t].call = "kalloc", ![t].idx = sz, ![t].pc = TryFrom(sz)]
  /\ UNCHANGED <<pool, header, lists, locks, large, kallocAllocatedPages, live, halted>>

(* kalloc of more: kalloc_large, which panics beyond one page. *)
CallKallocLarge(t, sz) ==
  /\ At(t, "idle")
  /\ \/ /\ sz = OnePage
        /\ th' = [th EXCEPT ![t].call = "kalloc_large", ![t].pc = "pop_meta"]
        /\ UNCHANGED halted
     \/ /\ sz = ManyPages
        /\ halted' = TRUE
        /\ UNCHANGED th
  /\ UNCHANGED <<pool, header, lists, locks, large, kallocAllocatedPages, live>>

(* Allocate and kalloc_small return item x, to kalloc's caller or to       *)
(* kalloc_large for which it becomes the metadata.                         *)
Deliver(t, x) ==
  \/ /\ th[t].call = "kalloc"
     /\ th' = [th EXCEPT ![t] = [Idle EXCEPT !.call = "kalloc", !.ptr = x, !.pc = "return"]]
     /\ UNCHANGED PagePtr
  \/ /\ th[t].call = "kalloc_large"
     /\ th' = [th EXCEPT ![t] = [Idle EXCEPT !.call = "kalloc_large", !.dry = th[t].dry,
                                             !.meta = x, !.pc = "take_page"]]
     /\ PagePtr' = [PagePtr EXCEPT ![x] = NoPage]

(* Fault variant of FirstFree: the last item that is taken. *)
FirstFreeIsTaken(b, marks) ==
  IF marks = {} THEN 1 ELSE CHOOSE i \in marks : \A j \in marks : j <= i

FirstFree(b, marks) ==
  CHOOSE i \in Items(b) \ marks : \A j \in Items(b) \ marks : i <= j

(* Fault variant of MarkFirstFree: a slab that becomes full stays in partial. *)
MarkFirstFreeStays(t, b, p, slab, partial) ==
  LET i == FirstFree(b, slab.marks) IN
  /\ header' = [header EXCEPT ![p] = [slab EXCEPT !.marks = @ \cup {i}, !.free = @ - 1]]
  /\ m_partial' = [m_partial EXCEPT ![b] = partial]
  /\ UNCHANGED m_full
  /\ Deliver(t, <<p, i>>)

(* Allocate once it has slab p, with the given header, in the given list. *)
MarkFirstFree(t, b, p, slab, partial) ==
  LET i == FirstFree(b, slab.marks)
      free == slab.free - 1 IN
  /\ header' = [header EXCEPT ![p] = [slab EXCEPT !.marks = @ \cup {i}, !.free = free]]
  /\ IF free = 0
     THEN /\ m_partial' = [m_partial EXCEPT ![b] = Unlink(partial, p)]
          /\ m_full' = [m_full EXCEPT ![b] = <<p>> \o @]
     ELSE /\ m_partial' = [m_partial EXCEPT ![b] = partial]
          /\ UNCHANGED m_full
  /\ Deliver(t, <<p, i>>)

(* Fault variant of SlabSetup: the count of free items is not set. *)
SlabSetupWithoutCount(b, slab) == [slab EXCEPT !.bucket = b]

SlabSetup(b, slab) == [slab EXCEPT !.bucket = b, !.free = ItemsPerSlab[b]]

(* SmallItemBucket::Allocate in one critical section, when the bucket has  *)
(* a slab with room or an empty one.                                       *)
AllocateItem(t) ==
  LET b == th[t].idx IN
  /\ At(t, "allocate")
  /\ m_mutex[b] = Nobody
  /\ \/ /\ m_partial[b] # <<>>
        /\ LET p == Head(m_partial[b])
           IN MarkFirstFree(t, b, p, header[p], m_partial[b])
        /\ UNCHANGED m_empty
     \/ /\ m_partial[b] = <<>> /\ m_empty[b] # <<>>
        /\ LET p == Head(m_empty[b])
           IN MarkFirstFree(t, b, p, SlabSetup(b, header[p]), <<p>>)
        /\ m_empty' = [m_empty EXCEPT ![b] = Tail(@)]
  /\ UNCHANGED <<pool, locks, lgBuckets, freeLargeMetas, kallocAllocatedPages, live, halted>>

(* When it has neither, the bucket stays locked while a page is taken. *)
LockBucket(t) ==
  LET b == th[t].idx IN
  /\ At(t, "allocate")
  /\ m_mutex[b] = Nobody
  /\ m_partial[b] = <<>> /\ m_empty[b] = <<>>
  /\ m_mutex' = [m_mutex EXCEPT ![b] = t]
  /\ th' = [th EXCEPT ![t].pc = "take_slab"]
  /\ UNCHANGED <<pool, header, lists, lgBucketMutex, large, kallocAllocatedPages, live, halted>>

(* kallocAllocatedPages: ++ and -- load it, here together with the pool    *)
(* operation before it, and store it in a later step.                      *)
StoreCount(t, change) ==
  kallocAllocatedPages' = (th[t].seen + CountMod + change) % CountMod

(* AllocatePageObj: on a null page the constructor runs too, at address 0. *)
TakeSlab(t) ==
  /\ At(t, "take_slab")
  /\ \/ \E p \in pool :
          /\ pool' = pool \ {p}
          /\ header' = [header EXCEPT ![p] = Blank]
          /\ th' = [th EXCEPT ![t].slab = p, ![t].seen = kallocAllocatedPages,
                              ![t].pc = "setup"]
          /\ UNCHANGED halted
     \/ /\ pool = {}
        /\ halted' = NullFaults
        /\ th' = [th EXCEPT ![t].dry = TRUE, ![t].seen = kallocAllocatedPages,
                            ![t].pc = "setup_null"]
        /\ UNCHANGED <<pool, header>>
  /\ UNCHANGED <<lists, locks, large, kallocAllocatedPages, live>>

(* The rest of Allocate with the new slab. *)
SetupSlab(t) ==
  LET b == th[t].idx
      p == th[t].slab IN
  /\ At(t, "setup")
  /\ StoreCount(t, 1)
  /\ MarkFirstFree(t, b, p, SlabSetup(b, header[p]), <<p>> \o m_partial[b])
  /\ m_mutex' = [m_mutex EXCEPT ![b] = Nobody]
  /\ UNCHANGED <<pool, m_empty, lgBucketMutex, lgBuckets, freeLargeMetas, live, halted>>

(* Fault variant of SetupNull: the early return leaves the bucket locked. *)
SetupNullKeepsLock(t) ==
  LET b == th[t].idx IN
  /\ At(t, "setup_null")
  /\ StoreCount(t, 1)
  /\ th' = [th EXCEPT ![t].seen = 0, ![t].idx = b + 1, ![t].pc = TryFrom(b + 1)]
  /\ UNCHANGED <<pool, header, lists, locks, large, live, halted>>

(* Setup and PushFront work on the null page as well: nobody looks at what *)
(* they write there and the list stays empty.  Allocate then unlocks and   *)
(* returns null, and kalloc_small tries the next bucket.                   *)
SetupNull(t) ==
  LET b == th[t].idx IN
  /\ At(t, "setup_null")
  /\ StoreCount(t, 1)
  /\ m_mutex' = [m_mutex EXCEPT ![b] = Nobody]
  /\ th' = [th EXCEPT ![t].seen = 0, ![t].idx = b + 1, ![t].pc = TryFrom(b + 1)]
  /\ UNCHANGED <<pool, header, lists, lgBucketMutex, large, live, halted>>

-----------------------------------------------------------------------------
(* kalloc_large.                                                           *)

(* Fault variant of PopMeta: the stack's head does not move. *)
PopMetaKeepsIt(t) ==
  /\ At(t, "pop_meta")
  /\ \/ /\ freeLargeMetas # <<>>
        /\ th' = [th EXCEPT ![t].meta = Head(freeLargeMetas), ![t].pc = "take_page"]
     \/ /\ freeLargeMetas = <<>>
        /\ th' = [th EXCEPT ![t].idx = MetaBucket, ![t].pc = TryFrom(MetaBucket)]
  /\ UNCHANGED <<pool, header, lists, locks, large, kallocAllocatedPages, live, halted>>

PopMeta(t) ==
  /\ At(t, "pop_meta")
  /\ \/ /\ freeLargeMetas # <<>>
        /\ freeLargeMetas' = Tail(freeLargeMetas)
        /\ th' = [th EXCEPT ![t].meta = Head(freeLargeMetas), ![t].pc = "take_page"]
     \/ /\ freeLargeMetas = <<>>
        /\ th' = [th EXCEPT ![t].idx = MetaBucket, ![t].pc = TryFrom(MetaBucket)]
        /\ UNCHANGED freeLargeMetas
  /\ UNCHANGED <<pool, header, lists, locks, lgBuckets, PagePtr, kallocAllocatedPages,
                 live, halted>>

TakePage(t) ==
  /\ At(t, "take_page")
  /\ \/ \E p \in pool :
          /\ pool' = pool \ {p}
          /\ PagePtr' = [PagePtr EXCEPT ![th[t].meta] = p]
          /\ th' = [th EXCEPT ![t].seen = kallocAllocatedPages, ![t].pc = "count_page"]
     \/ /\ pool = {}
        /\ PagePtr' = [PagePtr EXCEPT ![th[t].meta] = NoPage]
        /\ th' = [th EXCEPT ![t].dry = TRUE, ![t].seen = kallocAllocatedPages,
                            ![t].pc = "count_page"]
        /\ UNCHANGED pool
  /\ UNCHANGED <<header, lists, locks, lgBuckets, freeLargeMetas, kallocAllocatedPages,
                 live, halted>>

(* With or without a page. *)
CountPage(t) ==
  /\ At(t, "count_page")
  /\ StoreCount(t, 1)
  /\ th' = [th EXCEPT ![t].seen = 0, ![t].pc = "insert"]
  /\ UNCHANGED <<pool, header, lists, locks, large, live, halted>>

(* With a page: PushFront under lgBucketMutex. *)
InsertLarge(t) ==
  LET m == th[t].meta
      p == PagePtr[m] IN
  /\ At(t, "insert")
  /\ p # NoPage
  /\ lgBucketMutex = Nobody
  /\ lgBuckets' = [lgBuckets EXCEPT ![HashPtr[p]] = <<m>> \o @]
  /\ th' = [th EXCEPT ![t] = [Idle EXCEPT !.call = "kalloc_large", !.ptr = PagePointer(p),
                                          !.pc = "return"]]
  /\ UNCHANGED <<pool, header, lists, locks, freeLargeMetas, PagePtr, kallocAllocatedPages,
                 live, halted>>

(* Without one: the metadata goes back to the stack. *)
GiveUpLarge(t) ==
  /\ At(t, "insert")
  /\ PagePtr[th[t].meta] = NoPage
  /\ freeLargeMetas' = <<th[t].meta>> \o freeLargeMetas
  /\ th' = [th EXCEPT ![t].meta = Null, ![t].pc = "return"]
  /\ UNCHANGED <<pool, header, lists, locks, lgBuckets, PagePtr, kallocAllocatedPages,
                 live, halted>>

-----------------------------------------------------------------------------
(* kfree.                                                                  *)

(* The pointer of a whole page is page-aligned, that of an item is not. *)
CallKfree(t, ptr) ==
  /\ At(t, "idle")
  /\ ptr \in live
  /\ live' = live \ {ptr}
  /\ th' = [th EXCEPT ![t].call = "kfree", ![t].ptr = ptr,
                      ![t].pc = IF ptr[2] = 0 THEN "find_page" ELSE "read_header"]
  /\ UNCHANGED <<pool, header, lists, locks, large, kallocAllocatedPages, halted>>

(* GetSlabFromPtr, without a lock. *)
ReadHeader(t) ==
  /\ At(t, "read_header")
  /\ th' = IF header[th[t].ptr[1]].bucket > MAX_BUCKET_INDEX
           THEN [th EXCEPT ![t].ptr = Null, ![t].pc = "return"]
           ELSE [th EXCEPT ![t].pc = "read_bucket"]
  /\ UNCHANGED <<pool, header, lists, locks, large, kallocAllocatedPages, live, halted>>

(* getBucket reads m_bucket again, still without a lock. *)
ReadBucket(t) ==
  /\ At(t, "read_bucket")
  /\ th' = [th EXCEPT ![t].idx = header[th[t].ptr[1]].bucket, ![t].pc = "return_item"]
  /\ UNCHANGED <<pool, header, lists, locks, large, kallocAllocatedPages, live, halted>>

(* Fault variant of LastItem: the slab counts as empty one item too early. *)
LastItemTooEarly(b, lastCount) == lastCount = ItemsPerSlab[b] - 2

(* Freeing with lastCount items free leaves the slab without items in use. *)
LastItem(b, lastCount) == lastCount = ItemsPerSlab[b] - 1

(* Fault variant of MoveToEmpty: the slab also stays in the partial list. *)
MoveToEmptyOnly(b, p) == /\ m_empty' = [m_empty EXCEPT ![b] = Append(@, p)]
                         /\ UNCHANGED <<m_partial, m_full>>

MoveToEmpty(b, p) == /\ m_empty' = [m_empty EXCEPT ![b] = Append(@, p)]
                     /\ m_partial' = [m_partial EXCEPT ![b] = Unlink(@, p)]
                     /\ UNCHANGED m_full

(* SmallItemBucket::Return, in one critical section. *)
ReturnItem(t) ==
  LET b == th[t].idx
      p == th[t].ptr[1]
      i == th[t].ptr[2]
      lastCount == header[p].free IN
  /\ At(t, "return_item")
  /\ m_mutex[b] = Nobody
  /\ IF i \notin Items(b) \cap header[p].marks
     THEN UNCHANGED <<header, lists>>
     ELSE \/ /\ lastCount = 0
             /\ header' = [header EXCEPT ![p].marks = @ \ {i}, ![p].free = 1]
             /\ m_full' = [m_full EXCEPT ![b] = Unlink(@, p)]
             /\ m_partial' = [m_partial EXCEPT ![b] = Append(@, p)]
             /\ UNCHANGED m_empty
          \/ /\ lastCount # 0 /\ LastItem(b, lastCount)
             /\ header' = [header EXCEPT ![p] = [Blank EXCEPT !.marks = header[p].marks \ {i}]]
             /\ MoveToEmpty(b, p)
          \/ /\ lastCount # 0 /\ ~LastItem(b, lastCount)
             /\ header' = [header EXCEPT ![p].marks = @ \ {i}, ![p].free = lastCount + 1]
             /\ UNCHANGED lists
  /\ th' = [th EXCEPT ![t].idx = 0, ![t].ptr = Null, ![t].pc = "return"]
  /\ UNCHANGED <<pool, locks, large, kallocAllocatedPages, live, halted>>

(* The search through lgBuckets and Remove; lgBucketMutex stays locked     *)
(* until kfree returns.                                                    *)
FindPage(t) ==
  LET p == th[t].ptr[1]
      h == HashPtr[p]
      found == {m \in ToSet(lgBuckets[h]) : PagePtr[m] = p} IN
  /\ At(t, "find_page")
  /\ lgBucketMutex = Nobody
  /\ IF found = {}
     THEN /\ th' = [th EXCEPT ![t].ptr = Null, ![t].pc = "return"]
          /\ UNCHANGED <<lgBucketMutex, lgBuckets>>
     ELSE \E m \in found :
            /\ lgBucketMutex' = t
            /\ lgBuckets' = [lgBuckets EXCEPT ![h] = Unlink(@, m)]
            /\ th' = [th EXCEPT ![t].meta = m, ![t].pc = "release_page"]
  /\ UNCHANGED <<pool, header, lists, m_mutex, freeLargeMetas, PagePtr,
                 kallocAllocatedPages, live, halted>>

(* ReleasePage; the page may be in other hands before PagePtr is cleared. *)
ReleasePage(t) ==
  /\ At(t, "release_page")
  /\ pool' = pool \cup {PagePtr[th[t].meta]}
  /\ th' = [th EXCEPT ![t].ptr = Null, ![t].pc = "clear_page"]
  /\ UNCHANGED <<header, lists, locks, large, kallocAllocatedPages, live, halted>>

ClearPagePtr(t) ==
  /\ At(t, "clear_page")
  /\ PagePtr' = [PagePtr EXCEPT ![th[t].meta] = NoPage]
  /\ th' = [th EXCEPT ![t].seen = kallocAllocatedPages, ![t].pc = "uncount_page"]
  /\ UNCHANGED <<pool, header, lists, locks, lgBuckets, freeLargeMetas,
                 kallocAllocatedPages, live, halted>>

UncountPage(t) ==
  /\ At(t, "uncount_page")
  /\ StoreCount(t, -1)
  /\ th' = [th EXCEPT ![t].seen = 0, ![t].pc = "push_meta"]
  /\ UNCHANGED <<pool, header, lists, locks, large, live, halted>>

PushMeta(t) ==
  /\ At(t, "push_meta")
  /\ freeLargeMetas' = <<th[t].meta>> \o freeLargeMetas
  /\ lgBucketMutex' = Nobody
  /\ th' = [th EXCEPT ![t].meta = Null, ![t].pc = "return"]
  /\ UNCHANGED <<pool, header, lists, m_mutex, lgBuckets, PagePtr, kallocAllocatedPages,
                 live, halted>>

(* Back in the caller of kalloc or kfree. *)
Return(t) ==
  /\ At(t, "return")
  /\ live' = live \cup ({th[t].ptr} \ {Null})
  /\ th' = [th EXCEPT ![t] = Idle]
  /\ UNCHANGED <<pool, header, lists, locks, large, kallocAllocatedPages, halted>>

-----------------------------------------------------------------------------
(* SmallItemBucket::GC.                                                    *)

CallGC(t, b) ==
  /\ At(t, "idle")
  /\ m_mutex[b] = Nobody
  /\ m_mutex' = [m_mutex EXCEPT ![b] = t]
  /\ th' = [th EXCEPT ![t].call = "GC", ![t].idx = b, ![t].pc = "collect"]
  /\ UNCHANGED <<pool, header, lists, lgBucketMutex, large, kallocAllocatedPages,
                 live, halted>>

(* One turn of its loop, or the end of it. *)
Collect(t) ==
  LET b == th[t].idx IN
  /\ At(t, "collect")
  /\ \/ /\ Len(m_empty[b]) > EMPTY_MAX
        /\ m_empty' = [m_empty EXCEPT ![b] = Front(@)]
        /\ pool' = pool \cup {Last(m_empty[b])}
        /\ th' = [th EXCEPT ![t].seen = kallocAllocatedPages, ![t].pc = "uncount_slab"]
        /\ UNCHANGED m_mutex
     \/ /\ Len(m_empty[b]) <= EMPTY_MAX
        /\ m_mutex' = [m_mutex EXCEPT ![b] = Nobody]
        /\ th' = [th EXCEPT ![t] = Idle]
        /\ UNCHANGED <<m_empty, pool>>
  /\ UNCHANGED <<header, m_partial, m_full, lgBucketMutex, large, kallocAllocatedPages,
                 live, halted>>

UncountSlab(t) ==
  /\ At(t, "uncount_slab")
  /\ StoreCount(t, -1)
  /\ th' = [th EXCEPT ![t].seen = 0, ![t].pc = "collect"]
  /\ UNCHANGED <<pool, header, lists, locks, large, live, halted>>

-----------------------------------------------------------------------------

Step(t) == \/ AllocateItem(t) \/ LockBucket(t) \/ TakeSlab(t) \/ SetupSlab(t) \/ SetupNull(t)
           \/ PopMeta(t) \/ TakePage(t) \/ CountPage(t) \/ InsertLarge(t) \/ GiveUpLarge(t)
           \/ ReadHeader(t) \/ ReadBucket(t) \/ ReturnItem(t)
           \/ FindPage(t) \/ ReleasePage(t) \/ ClearPagePtr(t) \/ UncountPage(t) \/ PushMeta(t)
           \/ Collect(t) \/ UncountSlab(t) \/ Return(t)

Next == \E t \in Threads :
          \/ \E sz \in Sizes : CallKalloc(t, sz) \/ CallKallocLarge(t, sz)
          \/ \E ptr \in live : CallKfree(t, ptr)
          \/ \E b \in Buckets : CallGC(t, b)
          \/ Step(t)

Spec == Init /\ [][Next]_vars

(* Every thread keeps running until it spins on a lock that is taken.      *)
FairSpec == Spec /\ \A t \in Threads : WF_vars(Step(t))

-----------------------------------------------------------------------------
(* Properties.                                                             *)

Pcs == {"idle", "allocate", "take_slab", "setup", "setup_null", "pop_meta", "take_page",
        "count_page", "insert", "read_header", "read_bucket", "return_item", "find_page",
        "release_page", "clear_page", "uncount_page", "push_meta", "return", "collect",
        "uncount_slab"}
Calls == {"none", "kalloc", "kalloc_large", "kfree", "GC"}

Locals ==
  [pc : Pcs, call : Calls, idx : 0..MAX_BUCKET_INDEX, slab : Pages \cup {NoPage},
   meta : Pointers \cup {Null}, ptr : Pointers \cup {Null}, seen : 0..(CountMod - 1),
   dry : BOOLEAN]
Headers == [bucket : Buckets \cup {NoBucket}, free : 0..MaxItems, marks : SUBSET (1..MaxItems)]

TypeOK ==
  /\ pool \subseteq Pages
  /\ header \in [Pages -> Headers]
  /\ m_partial \in [Buckets -> Seq(Pages)]
  /\ m_full \in [Buckets -> Seq(Pages)]
  /\ m_empty \in [Buckets -> Seq(Pages)]
  /\ m_mutex \in [Buckets -> Threads \cup {Nobody}]
  /\ lgBucketMutex \in Threads \cup {Nobody}
  /\ lgBuckets \in [Hashes -> Seq(Pointers)]
  /\ freeLargeMetas \in Seq(Pointers)
  /\ PagePtr \in [Pointers -> Pages \cup {NoPage}]
  /\ kallocAllocatedPages \in 0..(CountMod - 1)
  /\ th \in [Threads -> Locals]
  /\ live \subseteq Pointers
  /\ halted \in BOOLEAN

(* Metadata whose page a thread has released and not cleared yet.          *)
Stale(m) == \E t \in Threads : th[t].pc = "clear_page" /\ th[t].meta = m

(* What page p is used for: it is in the pool, or a slab in a list of a    *)
(* bucket, or the page of a metadata item, or the slab a thread has taken  *)
(* and not put in a list yet.                                              *)
PageUses ==
  ({"free"} \X {0}) \cup ({"partial", "full", "empty"} \X Buckets)
    \cup ({"large"} \X Pointers) \cup ({"hand"} \X Threads)

UsedAs(p, use) ==
  CASE use[1] = "free"    -> p \in pool
    [] use[1] = "partial" -> p \in ToSet(m_partial[use[2]])
    [] use[1] = "full"    -> p \in ToSet(m_full[use[2]])
    [] use[1] = "empty"   -> p \in ToSet(m_empty[use[2]])
    [] use[1] = "large"   -> PagePtr[use[2]] = p /\ ~Stale(use[2])
    [] use[1] = "hand"    -> th[use[2]].pc = "setup" /\ th[use[2]].slab = p

(* No page is lost or used twice: each one is free in the pool, or in one  *)
(* list of one bucket at one place, or the page of one metadata item, or   *)
(* in the hands of one thread (GetAvailableSlab, GC, kalloc_large, kfree). *)
PageHasOneUse ==
  /\ \A p \in Pages :
       \E use \in PageUses : \A other \in PageUses : UsedAs(p, other) <=> other = use
  /\ \A b \in Buckets :
       IsInjective(m_partial[b]) /\ IsInjective(m_full[b]) /\ IsInjective(m_empty[b])

(* Who has pointer x: a caller, the boot, the stack of free metadata, a    *)
(* bucket of large blocks, or a thread inside kalloc or kfree.             *)
Keepers ==
  ({"caller", "boot", "spare"} \X {0}) \cup ({"hashed"} \X Hashes)
    \cup ({"meta", "ptr"} \X Threads)

KeptBy(x, keeper) ==
  CASE keeper[1] = "caller" -> x \in live
    [] keeper[1] = "boot"   -> x \in {BootPage} \X BootItems
    [] keeper[1] = "spare"  -> x \in ToSet(freeLargeMetas)
    [] keeper[1] = "hashed" -> x \in ToSet(lgBuckets[keeper[2]])
    [] keeper[1] = "meta"   -> th[keeper[2]].meta = x
    [] keeper[1] = "ptr"    -> th[keeper[2]].ptr = x

(* An item is marked in its slab exactly while it has an owner, and never  *)
(* has two: a caller, a thread inside kalloc or kfree, lgBuckets or the    *)
(* stack of free metadata.  A page pointer has an owner only while some    *)
(* metadata item describes its page (Allocate, Return, Stack::Pop, Push).  *)
ItemHasOneOwner ==
  /\ \A x \in Pointers :
       LET kept == {k \in Keepers : KeptBy(x, k)} IN
       /\ \A j, k \in kept : j = k
       /\ IF x[2] # 0 THEN x[2] \in header[x[1]].marks <=> kept # {}
          ELSE kept # {} => \E m \in Pointers : UsedAs(x[1], <<"large", m>>)
  /\ IsInjective(freeLargeMetas) /\ \A h \in Hashes : IsInjective(lgBuckets[h])

(* Whenever nobody has bucket b locked, each of its slabs is in the list   *)
(* that its free count says, the count is that of the marks, and an empty  *)
(* slab has the header Reset leaves (Allocate, Return).                    *)
ListsMatchCounts ==
  \A b \in Buckets : m_mutex[b] = Nobody =>
    /\ \A p \in ToSet(m_partial[b]) : header[p].free \in 1..(ItemsPerSlab[b] - 1)
    /\ \A p \in ToSet(m_full[b]) : header[p].free = 0
    /\ \A p \in ToSet(m_empty[b]) : header[p] = Blank
    /\ \A p \in ToSet(m_partial[b]) \cup ToSet(m_full[b]) :
         /\ header[p].bucket = b
         /\ header[p].free + Cardinality(header[p].marks) = ItemsPerSlab[b]

(* kfree reads m_bucket twice without a lock (GetSlabFromPtr, getBucket):  *)
(* no step changes it while somebody holds a pointer into the slab.        *)
HeldItems == {x \in live \cup {th[t].ptr : t \in Threads} : x # Null /\ x[2] # 0}

BucketStable ==
  \A x \in HeldItems \cap HeldItems' : header'[x[1]].bucket = header[x[1]].bucket

BucketStableWhileHeld == [][BucketStable]_vars

(* kalloc returns null only if it found the page pool empty on the way     *)
(* (kalloc_small, kalloc_large: "Out of memory!").                         *)
NullOnlyWithoutPages ==
  \A t \in Threads :
    /\ th[t].pc = "return"
    /\ th[t].call \in {"kalloc", "kalloc_large"}
    /\ th[t].ptr = Null
    => th[t].dry

(* Every lock that is taken is released, on every path through kalloc,     *)
(* kfree and GC: nobody waits for another lock in a circle.                *)
LocksReleased ==
  /\ \A b \in Buckets : m_mutex[b] # Nobody ~> (m_mutex[b] = Nobody \/ halted)
  /\ lgBucketMutex # Nobody ~> (lgBucketMutex = Nobody \/ halted)

(* The buckets, slabs and metadata implement Heap: no two blocks in use    *)
(* overlap.                                                                *)
AbstractOp(pc) ==
  CASE pc \in {"return", "clear_page", "uncount_page", "push_meta"}  -> "return"
    [] pc \in {"read_header", "read_bucket", "return_item",
               "find_page", "release_page"}                          -> "free"
    [] pc \in {"collect", "uncount_slab", "idle"}                    -> "idle"
    [] OTHER                                                         -> "alloc"

Ops == [t \in Threads |-> AbstractOp(th[t].pc)]
Regs == [t \in Threads |-> th[t].ptr]

TheHeap == INSTANCE Heap WITH Blocks <- Pointers, op <- Ops, reg <- Regs

ImplementsHeap == TheHeap!Spec

(* What vm::PrintStats prints as "pages allocated" is, once every call has *)
(* returned, the number of pages the heap holds.  The code does not keep   *)
(* this: see the README.                                                   *)
AllocatedPagesCounted ==
  (\A t \in Threads : th[t].pc = "idle") =>
    kallocAllocatedPages =
      Cardinality({p \in Pages : \E use \in PageUses : UsedAs(p, use) /\ use[1] # "free"})
        % CountMod

(* The null page is answered with a null pointer (small_bucket.cpp: "Out   *)
(* of pages (and probably memory)"), not with a fault.  The code does not  *)
(* keep this where page 0 is not mapped: see the README.                   *)
OutOfPagesIsAnswered == ~halted
=============================================================================
