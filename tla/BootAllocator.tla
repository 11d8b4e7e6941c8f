--------------------------- MODULE BootAllocator ---------------------------
(***************************************************************************)
(* BootPageAllocator of the x86_64 kernel (vm/boot_allocator.cpp), which   *)
(* preinit makes in the first page of the boot heap: it moves HeapNext up  *)
(* through the memory above the kernel and keeps what is released in a     *)
(* list threaded through the pages themselves.  Pages go to and fro as     *)
(* PagePointers (pageptr.h), addresses with flags in the low bits.         *)
(*                                                                         *)
(* A caller asks for up to MaxRequest pages at a time, and callers take no *)
(* more than MaxHeapPages of the boot heap.                                *)
(***************************************************************************)
EXTENDS Words, FiniteSets

CONSTANTS
  MemoryMaps,      \* the available mappings a loader may report, in order
  KernelStart,
  KernelEnd,
  HighMemory,      \* HighMemorySizeKByte * 1024
  g_bootAllocatedPages, \* pages that start.S took for its page tables
  MaxRequest,
  MaxHeapPages     \* bound of the model: pages HeapNext moves over

VARIABLES
  bootHeap,        \* of ArgumentData: MemoryMap, HeapStart, HeapNext
  m_totalPages,
  m_free,          \* the pages of the free list, first page first
  m_freeCount,
  held             \* the PagePointers callers hold

vars == <<bootHeap, m_totalPages, m_free, m_freeCount, held>>

Seqs == INSTANCE SequencesExt

Smaller(a, b) == IF a < b THEN a ELSE b

-----------------------------------------------------------------------------
(* InitHeapInfo (x86_64/preinit.cpp): the heap starts in the first mapping *)
(* that starts above the kernel and is long enough, else in the page after *)
(* the kernel.                                                             *)
target == AlignNext(KernelEnd, PageSize)

Roomy(mapping) ==
  LET start == AlignCeiling(mapping.Start, PageSize)
      adjust == Word(start - mapping.Start) IN
  /\ start >= target
  /\ adjust <= mapping.Length
  /\ mapping.Length - adjust >= AlignNext(KernelEnd - KernelStart, PageSize)

HeapStartIn(map) ==
  IF \E i \in DOMAIN map : Roomy(map[i])
  THEN AlignCeiling(map[Seqs!SelectInSeq(map, Roomy)].Start, PageSize) ELSE target

(* The pages of start.S come first, then the one the allocator lives in.   *)
InitHeapInfo(map) ==
  [MemoryMap |-> map, HeapStart |-> HeapStartIn(map),
   HeapNext |-> HeapStartIn(map) + (g_bootAllocatedPages + 1) * PageSize]

MapEnd(mapping) == Word(mapping.Start + mapping.Length)

(* GetPagesFromMappings: the pages of the mapping the boot heap is in,     *)
(* counted from the start of the mapping.  Of an end at 4 GB or above,     *)
(* AlignFloor leaves the lower half, and the difference may wrap.          *)
InMapping(heap, mapping) == /\ mapping.Start <= heap.HeapStart
                            /\ heap.HeapNext < MapEnd(mapping)

HeapMapping(heap) == Seqs!SelectInSeq(heap.MemoryMap, LAMBDA m : InMapping(heap, m))

GetPagesFromMappings(heap) ==
  IF HeapMapping(heap) = 0 THEN 0
  ELSE LET mapping == heap.MemoryMap[HeapMapping(heap)]
       IN Word(AlignFloor(MapEnd(mapping), PageSize) - mapping.Start) \div PageSize

(* The constructor.  Without a mapping the basic memory size is all there  *)
(* is to go by; it asserts that something is.                              *)
Init ==
  /\ \E map \in MemoryMaps : bootHeap = InitHeapInfo(map)
  /\ m_totalPages = IF GetPagesFromMappings(bootHeap) # 0 THEN GetPagesFromMappings(bootHeap)
                    ELSE HighMemory \div PageSize
  /\ m_totalPages > 0
  /\ m_free = <<>> /\ m_freeCount = 0
  /\ held = {}

GetFreePages ==
  Word(m_totalPages - (bootHeap.HeapNext - bootHeap.HeapStart) \div PageSize + m_freeCount)

InBounds(fresh) ==
  bootHeap.HeapNext + fresh * PageSize <= bootHeap.HeapStart + MaxHeapPages * PageSize

(* Fault variant of AllocatePages: HeapNext moves by the pages asked for. *)
AllocatePagesMovesByCount(count) ==
  LET reused == Smaller(count, Len(m_free))
      fresh == count - reused
      next == bootHeap.HeapNext
      pointers == {FromPhysical(m_free[i], 0) : i \in 1..reused}
                    \cup {FromPhysical(next + i * PageSize, 0) : i \in 0..(fresh - 1)} IN
  /\ count <= GetFreePages /\ InBounds(fresh)
  /\ m_free' = SubSeq(m_free, reused + 1, Len(m_free))
  /\ m_freeCount' = m_freeCount - reused
  /\ bootHeap' = [bootHeap EXCEPT !.HeapNext = @ + (fresh - 1) * PageSize]
  /\ held' = held \cup pointers
  /\ UNCHANGED m_totalPages

(* Pages of the list first, then of the heap.  A caller that asks for more *)
(* than are counted free gets none.                                        *)
AllocatePages(count) ==
  LET reused == Smaller(count, Len(m_free))
      fresh == count - reused
      next == bootHeap.HeapNext
      pointers == {FromPhysical(m_free[i], 0) : i \in 1..reused}
                    \cup {FromPhysical(next + i * PageSize, 0) : i \in 0..(fresh - 1)} IN
  /\ count <= GetFreePages /\ InBounds(fresh)
  /\ m_free' = SubSeq(m_free, reused + 1, Len(m_free))
  /\ m_freeCount' = m_freeCount - reused
  /\ bootHeap' = [bootHeap EXCEPT !.HeapNext = @ + fresh * PageSize]
  /\ held' = held \cup pointers
  /\ UNCHANGED m_totalPages

(* The pages of a span, in the order the caller put them in; the assertion *)
(* lets only single physical pages in.                                     *)
ReleasePages(ptrs) ==
  /\ \A i \in DOMAIN ptrs : IsPhysical(ptrs[i]) /\ Order(ptrs[i]) = 0
  /\ m_free' = Seqs!Reverse([i \in DOMAIN ptrs |-> Value(ptrs[i])]) \o m_free
  /\ m_freeCount' = m_freeCount + Len(ptrs)
  /\ held' = held \ Seqs!ToSet(ptrs)
  /\ UNCHANGED <<bootHeap, m_totalPages>>

Next == \/ \E count \in 1..MaxRequest : AllocatePages(count)
        \/ \E p \in held, q \in held :
             ReleasePages(IF p = q THEN <<p>> ELSE <<p, q>>)

Spec == Init /\ [][Next]_vars

-----------------------------------------------------------------------------
(* Properties.                                                             *)

HeapsMapping(mapping) == InMapping(InitHeapInfo(bootHeap.MemoryMap), mapping)

(* A page of the boot heap is with one caller or once in the free list,   *)
(* never both, and is a page between HeapStart and HeapNext: one call may  *)
(* take some pages from the list and some from the heap.  What a caller    *)
(* gets is memory: where the heap's mapping starts with the heap and ends  *)
(* below 4 GB (2^UintBits), no page is handed out past its end.            *)
EveryPageOnce ==
  LET own == g_bootAllocatedPages + 1
      taken == (bootHeap.HeapNext - bootHeap.HeapStart) \div PageSize
      pages == {Value(ptr) : ptr \in held}
      listed == Seqs!ToSet(m_free) IN
  /\ Cardinality(pages) = Cardinality(held)
  /\ Cardinality(listed) = Len(m_free) /\ m_freeCount = Len(m_free)
  /\ pages \cap listed = {}
  /\ pages \cup listed = {bootHeap.HeapStart + i * PageSize : i \in own..(taken - 1)}
  /\ \A i \in DOMAIN bootHeap.MemoryMap :
       LET mapping == bootHeap.MemoryMap[i] IN
       HeapsMapping(mapping) /\ mapping.Start = bootHeap.HeapStart
         /\ MapEnd(mapping) < 2 ^ UintBits
           => bootHeap.HeapNext <= MapEnd(mapping)

(* Not kept: no page is handed out past the end of the mapping the heap is  *)
(* in.  Where the kernel is in the mapping too, the pages below the heap    *)
(* are counted as free ones (boot_allocator.cpp:62); where the mapping ends *)
(* at 4 GB, its end is rounded to 0 (boot_allocator.cpp:49, align.h:36) and *)
(* the count of its pages wraps.                                            *)
NeverPastMapping ==
  \A i \in DOMAIN bootHeap.MemoryMap :
    HeapsMapping(bootHeap.MemoryMap[i]) => bootHeap.HeapNext <= MapEnd(bootHeap.MemoryMap[i])
=============================================================================
