----------------------------- MODULE PageTables -----------------------------
(***************************************************************************)
(* The page tables of i386 (arch/i386/src/paging.cpp, include/paging.h and *)
(* the base class in include/kernel/vm/page_table.h): a page directory and *)
(* page tables that live in physical frames like everything else, so that  *)
(* mem holds them as words and a wrong index reaches another frame.  The   *)
(* model covers the boot (paging::Preinit), vmm::Init, after which the     *)
(* page allocator's owners write to its pages, and calls of MapPage,       *)
(* MapPages, UnmapPage and GetPhysicalPageFor.                             *)
(*                                                                         *)
(* Addresses are page numbers: the offset in a page only matters for being *)
(* aligned or not.                                                         *)
(***************************************************************************)
EXTENDS Naturals

CONSTANTS
  Entries,      \* TableEntries, the words that fit in a frame: 1024
  MaskRange,    \* how many values the mask of ToEntryIndex and ToDirIndex lets by: 2^14
  FrameCount,   \* frames of physical memory
  KernelBase,   \* Phys2Virt of frame 0
  KernelStart,  \* first frame of the kernel
  KernelLast,   \* the frame of AlignCeiling(KernelEnd)
  HeapStart,    \* first frame of the boot heap
  CallerFrames, CallerPages, CallerFlags,  \* what callers map, and where to
  MapLengths,   \* the counts MapPages is called with
  LookedUp,     \* the pages UnmapPage and GetPhysicalPageFor are called for
  Junk          \* what a frame may hold before the kernel uses it

Frames == 0..FrameCount-1
VirtualPages == 0..Entries * Entries - 1

Word == [present : BOOLEAN, frame : Frames, write : BOOLEAN, user : BOOLEAN]
Zero == [present |-> FALSE, frame |-> 0, write |-> FALSE, user |-> FALSE]
Cleared == [i \in 0..Entries-1 |-> Zero]

ASSUME PageTablesAssumption ==
  /\ Entries \in Nat \ {0} /\ MaskRange \in Nat
  /\ MaskRange >= Entries /\ MaskRange % Entries = 0
  /\ FrameCount \in Nat /\ {KernelStart, KernelLast, HeapStart} \subseteq Nat
  /\ KernelBase % Entries = 0 /\ KernelBase \in VirtualPages
  /\ 1 <= KernelStart /\ KernelStart <= KernelLast /\ KernelLast < Entries
  /\ HeapStart > KernelStart /\ HeapStart <= Entries /\ Entries <= FrameCount
  /\ CallerFrames \subseteq Frames /\ CallerPages \subseteq VirtualPages
  /\ LookedUp \subseteq VirtualPages
  /\ Junk \in Word

VARIABLES
  mem,       \* mem[f][i]: word i of frame f
  HeapNext,  \* next frame of the boot allocator
  m_dir,     \* frame of the directory
  cr3,       \* the directory the processor uses, 0 while paging is off
  booted,    \* i of InitBootPages' loop: the last page it has begun with
  high,      \* whether that page is still to be mapped to the high half
  pool,      \* frames the page allocator manages, from vmm::Init on
  request, answer  \* the last call and what it returned

vars == <<mem, HeapNext, m_dir, cr3, booted, high, pool, request, answer>>

-----------------------------------------------------------------------------
(* Words, indices and flags.                                               *)

ToEntryIndex(v) == v % MaskRange
ToDirIndex(v) == (v \div Entries) % MaskRange

(* An index past the frame reaches the frames behind it. *)
Load(m, f, i) == m[f + i \div Entries][i % Entries]
Store(m, f, i, word) == [m EXCEPT ![f + i \div Entries][i % Entries] = word]

MapToEntryFlags(flags) ==
  [write |-> flags \cap {"Write", "Execute"} # {}, user |-> "Kernel" \notin flags]

MapToDirFlags(flags) ==
  [write |-> flags \cap {"Write", "Execute"} # {}, user |-> "Kernel" \notin flags]

Present(frame, rights) ==
  [present |-> TRUE, frame |-> frame, write |-> rights.write, user |-> rights.user]

-----------------------------------------------------------------------------
(* PageTable.  st holds the memory and the boot allocator's next frame.    *)

(* Fault variant of AllocatePage: the next frame is not moved. *)
AllocatePageAgain(st) == st

(* BootPageAllocator: it hands out st.next, and never fails. *)
AllocatePage(st) == [st EXCEPT !.next = @ + 1]

(* Fault variant of AddDirectoryEntry: the table is not cleared. *)
AddDirectoryEntryDirty(st, dir, index, table, flags) ==
  [st EXCEPT !.mem = Store(st.mem, dir, index, Present(table, MapToDirFlags(flags)))]

AddDirectoryEntry(st, dir, index, table, flags) ==
  [st EXCEPT !.mem = Store([st.mem EXCEPT ![table] = Cleared],
                           dir, index, Present(table, MapToDirFlags(flags)))]

(* The frame of the table for v, 0 (nullptr) when there is none. *)
GetPageTable(m, dir, v) ==
  LET pde == Load(m, dir, ToDirIndex(v)) IN IF pde.present THEN pde.frame ELSE 0

(* Fault variant of GetOrCreatePageTable: an existing table is replaced. *)
CreatePageTable(st, dir, v, flags) ==
  AddDirectoryEntry(AllocatePage(st), dir, ToDirIndex(v), st.next, flags)

GetOrCreatePageTable(st, dir, v, flags) ==
  IF GetPageTable(st.mem, dir, v) # 0 THEN st
  ELSE AddDirectoryEntry(AllocatePage(st), dir, ToDirIndex(v), st.next, flags)

(* doMapPage for aligned addresses; a mapped page is overwritten. *)
doMapPage(st, dir, p, v, flags) ==
  LET made == GetOrCreatePageTable(st, dir, v, flags)
      table == GetPageTable(made.mem, dir, v)
  IN [made EXCEPT !.mem = Store(made.mem, table, ToEntryIndex(v),
                                Present(p, MapToEntryFlags(flags)))]

(* UnmapPage and GetPhysicalPageFor look for the directory entry of v, and *)
(* then for the table of the address this entry's value happens to be.     *)
TableFor(m, dir, v) ==
  LET pde == m[dir][(v \div Entries) % Entries]
  IN IF pde.present THEN GetPageTable(m, dir, pde.frame) ELSE 0

HasEntry(m, dir, v) ==
  /\ m[dir][(v \div Entries) % Entries].present
  /\ Load(m, TableFor(m, dir, v), v % Entries).present

doUnmapPage(m, dir, v) ==
  IF ~HasEntry(m, dir, v) THEN m
  ELSE [m EXCEPT ![TableFor(m, dir, v)][v % Entries].present = FALSE]

doGetPhysicalPageFor(m, dir, v) ==
  IF HasEntry(m, dir, v) THEN Load(m, TableFor(m, dir, v), v % Entries).frame ELSE 0

-----------------------------------------------------------------------------
(* Boot.                                                                   *)

MapRequest(p, v, n, flags) ==
  [op |-> "map", p |-> p, v |-> v, n |-> n, flags |-> flags]

(* Fault variant of InKernel: the last page is left out of the high half. *)
InKernelExclusive(i) == KernelStart <= i /\ i + 1 < KernelLast

(* klast is one page past the kernel, and <= takes it in. *)
InKernel(i) == KernelStart <= i /\ i <= KernelLast

(* The constructor of the boot page table has taken and cleared a frame. *)
Init ==
  /\ m_dir = HeapStart
  /\ \E rest \in {Zero, Junk} :
       mem = [f \in Frames |-> IF f = HeapStart THEN Cleared
                               ELSE [i \in 0..Entries-1 |-> rest]]
  /\ HeapNext = HeapStart + 1
  /\ cr3 = 0 /\ booted = 0 /\ high = FALSE /\ pool = {}
  /\ request = [op |-> "none"] /\ answer = "NoError"

State == [mem |-> mem, next |-> HeapNext]

Becomes(st) == mem' = st.mem /\ HeapNext' = st.next

MapPage(p, v, flags) ==
  /\ request' = MapRequest(p, v, 1, flags)
  /\ Becomes(doMapPage(State, m_dir, p, v, flags))
  /\ answer' = "NoError"
  /\ UNCHANGED <<m_dir, cr3, pool>>

(* InitBootPages: every page but 0 is mapped to itself, and one of the     *)
(* kernel to the high half as well, before the next.                       *)
MapToItself ==
  /\ booted < Entries - 1 /\ ~high
  /\ booted' = booted + 1
  /\ high' = InKernel(booted')
  /\ MapPage(booted', booted', {"Write", "Kernel"})

MapToHighHalf ==
  /\ high
  /\ high' = FALSE
  /\ MapPage(booted, KernelBase + booted, {"Execute", "Kernel"})
  /\ UNCHANGED booted

MakeActive ==
  /\ booted = Entries - 1 /\ ~high /\ cr3 = 0
  /\ cr3' = m_dir
  /\ UNCHANGED <<mem, HeapNext, m_dir, booted, high, pool, request, answer>>

(* vmm::Init: the page allocator gets what lies between the boot heap and  *)
(* the end of the identity map.  g_useGlobalAlloc stays false.             *)
VmmInit ==
  /\ cr3 # 0 /\ pool = {}
  /\ pool' = HeapNext..Entries-1
  /\ UNCHANGED <<mem, HeapNext, m_dir, cr3, booted, high, request, answer>>

-----------------------------------------------------------------------------
(* Calls.                                                                  *)

(* MapPages: the pages in turn; after[k] is what k of them leave.  No page *)
(* but the first can fail, so its undoing loop has nothing to undo.        *)
MapPages(p, v, n, flags) ==
  LET after[k \in 0..n] ==
        IF k = 0 THEN State
        ELSE doMapPage(after[k - 1], m_dir, p + k - 1, v + k - 1, flags) IN
  /\ cr3 # 0
  /\ request' = MapRequest(p, v, n, flags)
  /\ Becomes(after[n])
  /\ answer' = "NoError"
  /\ UNCHANGED <<m_dir, cr3, booted, high, pool>>

(* A call with an address inside a page. *)
MapUnaligned ==
  /\ cr3 # 0
  /\ request' = [op |-> "refused"]
  /\ answer' = "NotAligned"
  /\ UNCHANGED <<mem, HeapNext, m_dir, cr3, booted, high, pool>>

UnmapPage(v) ==
  /\ cr3 # 0
  /\ request' = [op |-> "unmap", v |-> v, n |-> 1]
  /\ mem' = doUnmapPage(mem, m_dir, v)
  /\ answer' = "NoError"
  /\ UNCHANGED <<HeapNext, m_dir, cr3, booted, high, pool>>

(* The address is aligned down first. *)
GetPhysicalPageFor(v) ==
  /\ cr3 # 0
  /\ request' = [op |-> "lookup", v |-> v, n |-> 1]
  /\ answer' = doGetPhysicalPageFor(mem, m_dir, v)
  /\ UNCHANGED <<mem, HeapNext, m_dir, cr3, booted, high, pool>>

(* The owner of a page of the page allocator writes to it. *)
OwnerWrites(f) ==
  /\ f \in pool
  /\ mem' = [mem EXCEPT ![f] = [i \in 0..Entries-1 |-> Junk]]
  /\ UNCHANGED <<HeapNext, m_dir, cr3, booted, high, pool, request, answer>>

Next ==
  \/ MapToItself \/ MapToHighHalf \/ MakeActive \/ VmmInit
  \/ \E p \in CallerFrames, v \in CallerPages, n \in MapLengths, flags \in CallerFlags :
       /\ v..(v + n - 1) \subseteq CallerPages /\ p..(p + n - 1) \subseteq CallerFrames
       /\ MapPages(p, v, n, flags)
  \/ MapUnaligned
  \/ \E v \in LookedUp : UnmapPage(v) \/ GetPhysicalPageFor(v)
  \/ \E f \in pool : OwnerWrites(f)

Spec == Init /\ [][Next]_vars

-----------------------------------------------------------------------------
(* What the processor sees.                                                *)

Unmapped == [frame |-> 0, write |-> FALSE, user |-> FALSE]

(* The walk the processor makes for a page, and the rights both levels     *)
(* leave.  An i386 walks with ten bits for each level.                     *)
Walk(v) ==
  LET pde == mem[m_dir][v \div Entries]
      pte == mem[pde.frame][v % Entries]
  IN IF pde.present /\ pte.present
     THEN [frame |-> pte.frame, write |-> pde.write /\ pte.write,
           user |-> pde.user /\ pte.user]
     ELSE Unmapped

TableFrames ==
  {m_dir} \cup {mem[m_dir][i].frame : i \in {j \in 0..Entries-1 : mem[m_dir][j].present}}

-----------------------------------------------------------------------------
(* Properties.                                                             *)

TypeOK ==
  /\ mem \in [Frames -> [0..Entries-1 -> Word]]
  /\ HeapNext \in 0..FrameCount /\ m_dir \in Frames /\ cr3 \in {0, m_dir}
  /\ booted \in 0..Entries-1 /\ high \in BOOLEAN
  /\ pool \subseteq Frames

(* doMapPage, MapPages and doUnmapPage: what the processor translates      *)
(* changes exactly as asked, and lookups agree with it, whatever the order *)
(* of calls, what fresh frames held and what owners of pages write.        *)
AS == INSTANCE AddressSpace WITH space <- [v \in VirtualPages |-> Walk(v)]
ImplementsAddressSpace == AS!Spec

(* BootPageAllocator and vmm::Init: the directory and each table have a    *)
(* frame of their own, below the boot heap's end, that the page allocator  *)
(* does not hand out.                                                      *)
TablesApart ==
  /\ \A i, j \in 0..Entries-1 :
       /\ mem[m_dir][i].present /\ mem[m_dir][j].present
       /\ mem[m_dir][i].frame = mem[m_dir][j].frame
       => i = j
  /\ TableFrames \subseteq HeapStart..HeapNext-1
  /\ TableFrames \cap pool = {}

(* Preinit: when paging is turned on, every page of the identity map but   *)
(* the null page is there, the tables among them, and the kernel is where  *)
(* it was linked to, for the kernel only.                                  *)
KernelReachable ==
  [][cr3' # cr3 =>
       /\ Walk(0) = Unmapped
       /\ \A f \in 1..Entries-1 :
            Walk(f) = [frame |-> f, write |-> TRUE, user |-> FALSE]
       /\ TableFrames \subseteq 1..Entries-1
       /\ \A f \in KernelStart..KernelLast-1 : Walk(KernelBase + f).frame = f
       /\ \A v \in VirtualPages : ~Walk(v).user]_vars

(* The comment on doUnmapPage, "Remove a virtual page from paging": after  *)
(* the call the page is not translated.                                    *)
UnmapRemoves == request.op = "unmap" => Walk(request.v) = Unmapped

=============================================================================
