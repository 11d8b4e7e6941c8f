----------------------------- MODULE BootMemory -----------------------------
(***************************************************************************)
(* How the kernel learns which memory it may use, on i386: the boot        *)
(* loader's records become the memory map, InitHeapInfo places the boot    *)
(* heap, the boot page allocator grows it for the first page tables,       *)
(* AddMemoryMap may add ranges to the map, KnockoutUsedMemory cuts the     *)
(* kernel out of it and InitBootPages fills the page allocator's list.     *)
(*                                                                         *)
(* Ranges are kept as in the code, by start and length, with the last      *)
(* address computed modulo the width of an address.  The types of added    *)
(* ranges are left out: everything in the map is available memory.         *)
(***************************************************************************)
EXTENDS Integers, Sequences, FiniteSets, FiniteSetsExt, SequencesExt

CONSTANTS
  PageSize,          \* bytes in a page
  Word,              \* 2^(width of an address)
  MaxMemoryEntries,  \* entries of the memory map table
  IdentityMark,      \* first address that is not mapped to itself
  KernelStart,       \* first byte of the kernel
  KernelEnds,        \* possible values of the symbol after its last byte
  BootTables,        \* pages the first page tables take from the boot heap
  FirmwareMaps,      \* the lists of memory records a loader may hand over
  AddedRanges,       \* the ranges AddMemoryMap may be called with
  EndsShared         \* whether they may end where an entry ends already

VARIABLES
  phase,      \* how far the boot has come
  KernelEnd, HeapStart, HeapNext,  \* members of boot::ArgumentData
  MemoryMap,  \* its table, up to MemoryMapCount
  pageCache,  \* the page allocator's list, first page first
  panicked,
  given       \* auxiliary: every address the loader or AddMemoryMap reported

vars == <<phase, KernelEnd, HeapStart, HeapNext, MemoryMap, pageCache, panicked, given>>

Entry(start, length) == [Start |-> start, Length |-> length]

Bytes(m) == m.Start .. (m.Start + m.Length - 1)

Covered(map) == UNION {Bytes(map[i]) : i \in DOMAIN map}

AlignFloor(a) == a - (a % PageSize)
AlignCeiling(a) == AlignFloor(a + PageSize - 1)
AlignNext(a) == AlignFloor(a + PageSize)

ASSUME BootMemoryAssumption ==
  /\ {PageSize, MaxMemoryEntries, BootTables} \subseteq Nat \ {0}
  /\ Word % PageSize = 0 /\ KernelStart % PageSize = 0 /\ IdentityMark % PageSize = 0
  /\ \A e \in KernelEnds : /\ e \in KernelStart+1 .. IdentityMark-1
                          /\ AlignNext(e - KernelStart) >= BootTables * PageSize
  /\ \A records \in FirmwareMaps : \A i \in DOMAIN records :
       records[i].Length > 0 /\ records[i].Start + records[i].Length <= Word

-----------------------------------------------------------------------------
(* MemoryRange.                                                            *)

(* The last address; 2^width - 1 for an empty range at 0. *)
End(m) == (m.Start + m.Length - 1) % Word

(* Fault variant of Contiguous: ranges that overlap are not contiguous. *)
ContiguousOnlyTouching(m, r) ==
  /\ m.Length # 0 /\ r.Length # 0
  /\ (End(m) + 1 = r.Start \/ End(r) + 1 = m.Start)

Contiguous(m, r) ==
  /\ m.Length # 0 /\ r.Length # 0
  /\ \/ m = r
     \/ (End(m) + 1) % Word >= r.Start /\ End(m) < End(r)
     \/ (End(r) + 1) % Word >= m.Start /\ End(r) < End(m)

(* Fault variant of Merge: the end is taken for a length. *)
MergeEndExclusive(m, r) ==
  LET base == Min({m.Start, r.Start})
  IN Entry(base, Max({End(m), End(r)}) - base)

Merge(m, r) ==
  LET base == Min({m.Start, r.Start})
  IN Entry(base, Max({End(m), End(r)}) - base + 1)

-----------------------------------------------------------------------------
(* The memory map table.                                                   *)

(* The bubble sort is stable: entry i comes after those that start below   *)
(* it and those that start with it and stood before it.                    *)
SortMappings(map) ==
  LET place(i) == 1 + Cardinality({j \in DOMAIN map :
                        \/ map[j].Start < map[i].Start
                        \/ map[j].Start = map[i].Start /\ j < i})
  IN [k \in DOMAIN map |-> map[CHOOSE i \in DOMAIN map : place(i) = k]]

RemoveDeadMappings(map) == SelectSeq(map, LAMBDA m : m.Length > 0)

(* The pass merges each entry into the last one kept where it can. *)
MergeContiguousMappings(map) ==
  FoldLeft(LAMBDA kept, m :
             IF kept # <<>> /\ Contiguous(Last(kept), m)
             THEN Append(Front(kept), Merge(Last(kept), m))
             ELSE Append(kept, m),
           <<>>, RemoveDeadMappings(SortMappings(map)))

-----------------------------------------------------------------------------

Init ==
  /\ phase = "loader"
  /\ KernelEnd \in KernelEnds
  /\ HeapStart = 0 /\ HeapNext = 0
  /\ MemoryMap = <<>> /\ pageCache = <<>>
  /\ panicked = FALSE
  /\ given = {}

(* Multiboot and Multiboot 2: the available records, as they come. *)
ParseMemoryMap(records) ==
  LET available == SelectSeq(records, LAMBDA r : r.Available)
      taken == SubSeq(available, 1, Min({Len(available), MaxMemoryEntries})) IN
  /\ phase = "loader"
  /\ phase' = "place heap"
  /\ MemoryMap' = [i \in DOMAIN taken |-> Entry(taken[i].Start, taken[i].Length)]
  /\ given' = Covered(taken)
  /\ UNCHANGED <<KernelEnd, HeapStart, HeapNext, pageCache, panicked>>

(* Fault variant of HoldsHeap: the entry may start below the kernel's end. *)
HoldsHeapAnywhere(m) ==
  LET start == AlignCeiling(m.Start) IN
  /\ start - m.Start <= m.Length
  /\ m.Length - (start - m.Start) >= AlignNext(KernelEnd - KernelStart)

(* Can entry m hold the page tables of the kernel, above the kernel? *)
HoldsHeap(m) ==
  LET start == AlignCeiling(m.Start) IN
  /\ start >= AlignNext(KernelEnd)
  /\ start - m.Start <= m.Length
  /\ m.Length - (start - m.Start) >= AlignNext(KernelEnd - KernelStart)

(* No loader sets HeapStart.  Table entries past MemoryMapCount are blank  *)
(* or defaults that start below the kernel, which the loop skips.          *)
InitHeapInfo ==
  LET roomy == {i \in DOMAIN MemoryMap : HoldsHeap(MemoryMap[i])} IN
  /\ phase = "place heap"
  /\ HeapStart' = IF roomy = {} THEN AlignNext(KernelEnd)
                  ELSE AlignCeiling(MemoryMap[Min(roomy)].Start)
  /\ HeapNext' = HeapStart'
  /\ phase' = "page tables"
  /\ UNCHANGED <<KernelEnd, MemoryMap, pageCache, panicked, given>>

(* BootPageAllocator::AllocatePage, for a page table. *)
AllocatePage ==
  /\ phase = "page tables"
  /\ HeapNext < HeapStart + BootTables * PageSize
  /\ HeapNext' = HeapNext + PageSize
  /\ UNCHANGED <<phase, KernelEnd, HeapStart, MemoryMap, pageCache, panicked, given>>

(* preinit returns and kmain publishes the arguments. *)
EnterKernel ==
  /\ phase = "page tables"
  /\ HeapNext = HeapStart + BootTables * PageSize
  /\ phase' = "kmain"
  /\ UNCHANGED <<KernelEnd, HeapStart, HeapNext, MemoryMap, pageCache, panicked, given>>

(* Fault variant of AddMemoryMap: the table is taken to have room. *)
AddMemoryMapUnlimited(r) ==
  /\ phase = "kmain" /\ ~panicked
  /\ r.Length > 0
  /\ MemoryMap' = MergeContiguousMappings(Append(MemoryMap, r))
  /\ given' = given \cup Bytes(r)
  /\ UNCHANGED <<phase, KernelEnd, HeapStart, HeapNext, pageCache, panicked>>

(* A call that finds the table full returns false and changes nothing, and *)
(* so does one with an empty range.                                        *)
AddMemoryMap(r) ==
  /\ phase = "kmain" /\ ~panicked
  /\ r.Length > 0
  /\ Len(MemoryMap) + 1 < MaxMemoryEntries
  /\ MemoryMap' = MergeContiguousMappings(Append(MemoryMap, r))
  /\ given' = given \cup Bytes(r)
  /\ UNCHANGED <<phase, KernelEnd, HeapStart, HeapNext, pageCache, panicked>>

-----------------------------------------------------------------------------
(* KnockoutUsedMemory.                                                     *)

(* KernelRange includes the address KernelEnd. *)
kernelStartAligned == AlignFloor(KernelStart)
kernelEndAligned == AlignCeiling(KernelEnd) - 1

Touched(m) == End(m) >= kernelStartAligned /\ m.Start <= kernelEndAligned
HasStartGap(m) == kernelStartAligned > m.Start
HasEndGap(m) == kernelEndAligned < End(m)
Split(m) == Touched(m) /\ HasStartGap(m) /\ HasEndGap(m)

(* Fault variant of AboveKernel: it starts with the kernel's last byte. *)
AboveKernelTooLow(m) == Entry(kernelEndAligned, End(m) - kernelEndAligned + 1)

(* What is left of m above the kernel, and what is left of it in place. *)
AboveKernel(m) == Entry(kernelEndAligned + 1, End(m) - kernelEndAligned)

Trimmed(m) ==
  CASE ~Touched(m) -> m
    [] Touched(m) /\ HasStartGap(m) -> Entry(m.Start, kernelStartAligned - m.Start)
    [] Touched(m) /\ ~HasStartGap(m) /\ HasEndGap(m) -> AboveKernel(m)
    [] OTHER -> Entry(m.Start, 0)

(* The loop stops at an entry it splits: the upper part goes to the end of *)
(* the table.  It also stops past the kernel, where Trimmed changes none.  *)
KnockoutUsedMemory ==
  LET map == SortMappings(MemoryMap)
      last == SelectInSeq(map, Split)
      trim(i) == IF last = 0 \/ i <= last THEN Trimmed(map[i]) ELSE map[i]
      upper == IF last = 0 THEN <<>> ELSE <<AboveKernel(map[last])>> IN
  /\ phase = "kmain" /\ ~panicked
  /\ IF last # 0 /\ Len(map) + 1 >= MaxMemoryEntries
     THEN panicked' = TRUE /\ UNCHANGED <<phase, MemoryMap>>
     ELSE /\ MemoryMap' = RemoveDeadMappings([i \in DOMAIN map |-> trim(i)] \o upper)
          /\ phase' = "boot pages"
          /\ UNCHANGED panicked
  /\ UNCHANGED <<KernelEnd, HeapStart, HeapNext, pageCache, given>>

-----------------------------------------------------------------------------
(* PageAllocator::InitBootPages.                                           *)

(* The addresses the two loops go through. *)
PageAddresses(map) ==
  FlattenSeq([i \in DOMAIN map |->
    [k \in 1..(AlignCeiling(map[i].Length) \div PageSize) |->
       map[i].Start + (k - 1) * PageSize]])

(* Fault variant of AboveHeap: pages are skipped below the heap's start. *)
AboveHeapStart(addr) == addr >= HeapStart

(* HeapPhysical().End() is HeapNext itself. *)
AboveHeap(addr) == addr >= HeapNext

(* Fault variant of PastIdentityMark: the page below the mark counts too. *)
EndsAtIdentityMark(addr) == addr + PageSize >= IdentityMark

PastIdentityMark(addr) == addr >= IdentityMark

(* The first address past the mark returns from the function. *)
InitBootPages ==
  LET seen == SelectSeq(PageAddresses(MemoryMap), AboveHeap)
      past == SelectInSeq(seen, PastIdentityMark)
      added == IF past = 0 THEN seen ELSE SubSeq(seen, 1, past - 1) IN
  /\ phase = "boot pages" /\ ~panicked
  /\ pageCache' = Reverse(added)
  /\ panicked' = (added = <<>>)
  /\ phase' = "running"
  /\ UNCHANGED <<KernelEnd, HeapStart, HeapNext, MemoryMap, given>>

-----------------------------------------------------------------------------

(* The callers' part: two ranges with one end are not merged, so a caller  *)
(* that keeps the entries apart adds no such range.                        *)
MayBeAdded(r) ==
  EndsShared \/ \A i \in DOMAIN MemoryMap : End(MemoryMap[i]) # End(r)

Next == \/ \E records \in FirmwareMaps : ParseMemoryMap(records)
        \/ InitHeapInfo \/ AllocatePage \/ EnterKernel
        \/ \E r \in AddedRanges : MayBeAdded(r) /\ AddMemoryMap(r)
        \/ KnockoutUsedMemory
        \/ InitBootPages

Spec == Init /\ [][Next]_vars

-----------------------------------------------------------------------------
(* Properties.                                                             *)

(* The table keeps to its size, and every member to its type. *)
TypeOK ==
  /\ phase \in {"loader", "place heap", "page tables", "kmain", "boot pages", "running"}
  /\ KernelEnd \in KernelEnds
  /\ {HeapStart, HeapNext} \subseteq Nat
  /\ Len(MemoryMap) <= MaxMemoryEntries
  /\ \A i \in DOMAIN MemoryMap : MemoryMap[i] \in [Start : 0..Word-1, Length : 1..Word]
  /\ pageCache \in Seq(Nat)
  /\ panicked \in BOOLEAN
  /\ given \subseteq 0..Word-1

PageBytes(p) == p .. (p + PageSize - 1)

(* The addresses of every page that holds a byte of the kernel. *)
KernelBytes == UNION {PageBytes(AlignFloor(b)) : b \in KernelStart..(KernelEnd - 1)}

(* No address is in two entries.                                           *)
EntriesApart ==
  \A i, j \in DOMAIN MemoryMap :
    i # j => Bytes(MemoryMap[i]) \cap Bytes(MemoryMap[j]) = {}

(* AddMemoryMap and KnockoutUsedMemory: however ranges arrive, overlap and *)
(* are sorted, merged and cut, the map covers what was reported and, in    *)
(* the end, all of it but the kernel's pages, each address once.           *)
(* InitBootPages relies on it: a page in two entries would be put in its   *)
(* list twice.                                                             *)
MapExact ==
  /\ Covered(MemoryMap) = IF phase \in {"boot pages", "running"} THEN given \ KernelBytes
                          ELSE given
  /\ EntriesApart

(* InitHeapInfo and BootPageAllocator: if memory goes on for long enough   *)
(* after the kernel, the boot heap has usable memory to itself.            *)
HeapUsable ==
  LET target == AlignNext(KernelEnd) IN
  target..(target + BootTables * PageSize - 1) \subseteq given
    => HeapStart..(HeapNext - 1) \subseteq given \ KernelBytes

(* InitBootPages: the page allocator starts with whole pages of usable     *)
(* memory below the identity mark, each once, none of the kernel's and     *)
(* none of the boot heap's.                                                *)
BootPagesUsable ==
  /\ IsInjective(pageCache)
  /\ \A i \in DOMAIN pageCache :
       LET p == pageCache[i] IN
       /\ p % PageSize = 0 /\ p < IdentityMark
       /\ PageBytes(p) \subseteq given \ KernelBytes
       /\ PageBytes(p) \cap (HeapStart..(HeapNext - 1)) = {}

(* InitBootPages: while the map is in order it finds all such pages above  *)
(* the boot heap, so that it panics only when there are none.              *)
BootPagesComplete ==
  /\ phase = "running"
  /\ \A i \in 2..Len(MemoryMap) : MemoryMap[i-1].Start < MemoryMap[i].Start
  => \A p \in HeapNext..(IdentityMark - 1) :
       p % PageSize = 0 /\ PageBytes(p) \subseteq given \ KernelBytes
         => Contains(pageCache, p)

(* test_kernel_args.cpp: adding a range that lies inside an entry leaves   *)
(* the entries as they were; in particular there are no more of them.  The *)
(* code does not keep this where EndsShared: see the README.               *)
ContainedAddIsNoop ==
  [][\A r \in AddedRanges :
       /\ AddMemoryMap(r)
       /\ \E i \in DOMAIN MemoryMap : Bytes(r) \subseteq Bytes(MemoryMap[i])
       => Len(MemoryMap') <= Len(MemoryMap)]_vars

(* The comment on InitHeapInfo: the heap is placed just after the kernel.  *)
(* The code does not keep this: see the README.                            *)
HeapFollowsKernel ==
  phase \notin {"loader", "place heap"} => HeapStart = AlignNext(KernelEnd)

=============================================================================
