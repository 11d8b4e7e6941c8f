-------------------------- MODULE PageTablesProofs --------------------------
(***************************************************************************)
(* The page tables of i386, for every size of memory, kernel and set of    *)
(* callers: the tables have frames of their own, the kernel is where it    *)
(* was linked to when paging is turned on, and the calls change what they  *)
(* name and nothing else.                                                  *)
(***************************************************************************)
EXTENDS PageTables, WellFoundedInduction, TLAPS

(* The pages MapPage is right for once the boot is over: the mask of       *)
(* ToEntryIndex does them no harm, and they share a table with the         *)
(* identity map or with the kernel's half.  A page elsewhere gets a table  *)
(* in a frame that the page allocator owns as well.                        *)
HighIndex == KernelBase \div Entries

Reaches(v) ==
  /\ v \in VirtualPages
  /\ ToEntryIndex(v) = v % Entries
  /\ v \div Entries \in {0, HighIndex}

(* The layout of the kernel, and what callers keep to: the high half       *)
(* starts on a multiple of 64 megabytes, the boot heap has room for the    *)
(* directory and two tables inside the identity map, all mappings are the  *)
(* kernel's, and UnmapPage and GetPhysicalPageFor are called for the       *)
(* identity map only, where alone they are right (UnmapRemoves).           *)
Layout ==
  /\ KernelBase % MaskRange = 0
  /\ HeapStart + 3 <= Entries
  /\ \A v \in CallerPages : Reaches(v)
  /\ \A flags \in CallerFlags : "Kernel" \in flags
  /\ MapLengths \subseteq Nat \ {0}
  /\ LookedUp \subseteq 0..Entries-1

Memories == [Frames -> [0..Entries-1 -> Word]]

(* The walk through a memory m with the directory of the boot.             *)
WalkIn(m, v) ==
  LET pde == m[HeapStart][v \div Entries]
      pte == m[pde.frame][v % Entries]
  IN IF pde.present /\ pte.present
     THEN [frame |-> pte.frame, write |-> pde.write /\ pte.write,
           user |-> pde.user /\ pte.user]
     ELSE Unmapped

(* The tables that are made are for the two halves, in frames of their own *)
(* between the directory and next, writable and the kernel's; and as many  *)
(* frames are taken as tables are made, so there is room for both.         *)
Tables(m, next) ==
  /\ m \in Memories
  /\ next \in HeapStart+1..HeapStart+3
  /\ \A i \in 0..Entries-1 : m[HeapStart][i].present =>
       /\ i \in {0, HighIndex}
       /\ m[HeapStart][i].frame \in HeapStart+1..next-1
       /\ m[HeapStart][i].write = TRUE /\ m[HeapStart][i].user = FALSE
  /\ \A i, j \in 0..Entries-1 :
       m[HeapStart][i].present /\ m[HeapStart][j].present /\ i # j
         => m[HeapStart][i].frame # m[HeapStart][j].frame
  /\ next > HeapStart + 1 => \E i \in {0, HighIndex} : m[HeapStart][i].present
  /\ next > HeapStart + 2 => \A i \in {0, HighIndex} : m[HeapStart][i].present

(* What InitBootPages has mapped.                                          *)
BootMapped(m) ==
  /\ WalkIn(m, 0) = Unmapped
  /\ \A f \in 1..booted : WalkIn(m, f) = [frame |-> f, write |-> TRUE, user |-> FALSE]
  /\ \A f \in KernelStart..KernelLast :
       f < booted \/ (f = booted /\ ~high) => WalkIn(m, KernelBase + f).frame = f

PageInv ==
  /\ m_dir = HeapStart /\ cr3 \in {0, HeapStart}
  /\ booted \in 0..Entries-1 /\ high \in BOOLEAN
  /\ high => booted \in 1..Entries-1 /\ InKernel(booted)
  /\ Tables(mem, HeapNext)
  /\ booted > 0 => mem[HeapStart][0].present
  /\ booted > KernelStart \/ (booted = KernelStart /\ ~high) => mem[HeapStart][HighIndex].present
  /\ cr3 = 0 => BootMapped(mem) /\ pool = {}
  /\ cr3 # 0 => booted = Entries - 1 /\ ~high
  /\ pool \subseteq HeapNext..Entries-1

-----------------------------------------------------------------------------
(* Numbers.                                                                *)

(* The constants, typed. *)
LEMMA Constants ==
  /\ Entries \in Nat /\ Entries >= 2 /\ MaskRange \in Nat /\ MaskRange >= Entries
  /\ FrameCount \in Nat /\ Entries <= FrameCount /\ HeapStart \in Nat /\ HeapStart >= 2
  /\ KernelStart \in Nat /\ KernelStart >= 1 /\ KernelLast \in Nat
  /\ KernelStart <= KernelLast /\ KernelLast < Entries /\ KernelBase \in Nat
<1>1. KernelBase \in Nat
  BY PageTablesAssumption DEF VirtualPages
<1>2. Entries <= FrameCount /\ HeapStart >= 2 /\ Entries >= 2
  BY PageTablesAssumption
<1>3. QED BY <1>1, <1>2, PageTablesAssumption

(* The words a frame may hold at first, and those of a cleared one. *)
LEMMA Words == Zero \in Word /\ ~Zero.present /\ Junk \in Word
<1>1. 0 \in Frames
  <2>1. FrameCount \in Nat /\ FrameCount >= 2
    BY Constants
  <2>2. QED BY ONLY <2>1 DEF Frames
<1>2. Zero \in Word /\ ~Zero.present
  BY ONLY <1>1 DEF Zero, Word
<1>3. QED BY <1>2, PageTablesAssumption

(* Quotient and remainder are what they are made of. *)
LEMMA DivisionOf ==
  ASSUME NEW c \in Nat \ {0}, NEW q \in Nat, NEW r \in 0..(c - 1)
  PROVE  (c * q + r) \div c = q /\ (c * q + r) % c = r
<1>1. PICK d \in Nat, s \in 0..(c - 1), i \in Nat :
        i = c * q + r /\ i = c * d + s /\ d = i \div c /\ s = i % c
  BY SMT
<1>2. c * (q - d) = s - r
  <2>1. c * q - c * d = s - r
    BY <1>1
  <2>2. c * (q - d) = c * q - c * d
    BY ONLY c \in Nat \ {0}, q \in Nat, <1>1
  <2>3. QED BY <2>1, <2>2
<1>3. q = d
  <2>1. CASE q > d
    <3>1. PICK k \in Nat : q = d + 1 + k
      BY <2>1
    <3>2. c * (1 + k) = c + c * k /\ c * k \in Nat
      OBVIOUS
    <3>3. QED BY <1>2, <3>1, <3>2
  <2>2. CASE q < d
    <3>1. PICK k \in Nat : d = q + 1 + k
      BY <2>2
    <3>2. c * (1 + k) = c + c * k /\ c * k \in Nat
      OBVIOUS
    <3>3. c * (q - d) = -(c * (1 + k))
      BY <3>1
    <3>4. QED BY <1>2, <3>2, <3>3
  <2>3. QED BY <2>1, <2>2
<1>4. r = s
  BY <1>1, <1>3
<1>5. QED BY ONLY <1>1, <1>3, <1>4

(* A number in quotient and remainder. *)
LEMMA Division ==
  ASSUME NEW i \in Nat, NEW c \in Nat \ {0}
  PROVE  /\ i \div c \in Nat /\ i % c \in 0..(c - 1)
         /\ i = c * (i \div c) + (i % c)
  BY SMT

(* Both indices of a virtual page are within a frame, and tell it apart. *)
LEMMA PageIndices ==
  /\ \A v \in VirtualPages : v \in Nat /\ v \div Entries \in 0..Entries-1
                             /\ v % Entries \in 0..Entries-1
  /\ \A v, w \in VirtualPages :
       v \div Entries = w \div Entries /\ v % Entries = w % Entries => v = w
<1>1. ASSUME NEW v \in VirtualPages
      PROVE  /\ v \in Nat /\ v \div Entries \in 0..Entries-1 /\ v % Entries \in 0..Entries-1
             /\ v = Entries * (v \div Entries) + (v % Entries)
  <2>1. v \in Nat /\ v < Entries * Entries /\ Entries \in Nat \ {0}
    BY Constants DEF VirtualPages
  <2>2. PICK q, r : q = v \div Entries /\ r = v % Entries
    OBVIOUS
  <2>3. q \in Nat /\ r \in 0..(Entries - 1) /\ v = Entries * q + r
    BY ONLY <2>1, <2>2, Division
  <2>4. q < Entries
    <3> SUFFICES ASSUME q >= Entries PROVE FALSE
      BY <2>3, Constants
    <3>1. PICK k \in Nat : q = Entries + k
      BY <2>3, Constants
    <3>2. Entries * (Entries + k) = Entries * Entries + Entries * k /\ Entries * k \in Nat
      BY Constants
    <3>3. QED BY <2>1, <2>3, <3>1, <3>2, Constants
  <2>5. QED BY <2>1, <2>2, <2>3, <2>4, Constants
<1>2. QED BY <1>1

(* The pages of the identity map. *)
LEMMA LowPages ==
  ASSUME NEW f \in 0..Entries-1
  PROVE  Reaches(f) /\ f \div Entries = 0 /\ f % Entries = f
<1>1. f \div Entries = 0 /\ f % Entries = f
  <2>1. Entries * 0 + f = f
    BY Constants
  <2>2. QED BY <2>1, Constants, DivisionOf
<1>2. f % MaskRange = f
  <2>1. MaskRange * 0 + f = f /\ f \in 0..(MaskRange - 1)
    BY Constants
  <2>2. QED BY <2>1, Constants, DivisionOf
<1>3. f \in VirtualPages
  <2>1. Entries * Entries = Entries * (Entries - 1) + Entries /\ Entries * (Entries - 1) \in Nat
    BY Constants
  <2>2. QED BY <2>1, Constants DEF VirtualPages
<1>4. QED BY <1>1, <1>2, <1>3 DEF Reaches, ToEntryIndex

(* The pages of the high half. *)
LEMMA HighPages ==
  ASSUME Layout, NEW f \in 0..Entries-1
  PROVE  /\ Reaches(KernelBase + f) /\ (KernelBase + f) \div Entries = HighIndex
         /\ (KernelBase + f) % Entries = f /\ HighIndex \in 0..Entries-1
<1>1. PICK q \in Nat : q = HighIndex /\ KernelBase = Entries * q
  <2>1. KernelBase \div Entries \in Nat /\ KernelBase % Entries = 0
        /\ KernelBase = Entries * (KernelBase \div Entries) + (KernelBase % Entries)
    BY PageTablesAssumption, Constants, Division
  <2>2. PICK q \in Nat : q = KernelBase \div Entries
    BY <2>1
  <2>3. Entries * q + 0 = Entries * q
    BY Constants
  <2>4. QED BY <2>1, <2>2, <2>3 DEF HighIndex
<1>2. q \in 0..Entries-1
  BY <1>1, PageIndices, PageTablesAssumption DEF HighIndex
<1>3. (KernelBase + f) \div Entries = q /\ (KernelBase + f) % Entries = f
  BY <1>1, Constants, DivisionOf
<1>4. (KernelBase + f) % MaskRange = f
  <2>1. PICK a \in Nat : KernelBase = MaskRange * a
    <3>1. KernelBase \div MaskRange \in Nat /\ KernelBase % MaskRange = 0
          /\ KernelBase = MaskRange * (KernelBase \div MaskRange) + (KernelBase % MaskRange)
      BY Constants, Division DEF Layout
    <3>2. PICK a \in Nat : a = KernelBase \div MaskRange
      BY <3>1
    <3>3. MaskRange * a + 0 = MaskRange * a
      BY Constants
    <3>4. QED BY <3>1, <3>2, <3>3
  <2>2. f \in 0..(MaskRange - 1)
    BY Constants
  <2>3. QED BY <2>1, <2>2, Constants, DivisionOf
<1>5. KernelBase + f \in VirtualPages
  <2>1. Entries * (q + 1) = Entries * q + Entries
    BY Constants
  <2>2. PICK k \in Nat : Entries = q + 1 + k
    <3>1. Entries - q - 1 \in Nat /\ Entries = q + 1 + (Entries - q - 1)
      BY <1>2, Constants
    <3>2. QED BY <3>1
  <2>3. Entries * (q + 1 + k) = Entries * (q + 1) + Entries * k /\ Entries * k \in Nat
        /\ Entries * (q + 1) \in Nat
    BY Constants
  <2>4. KernelBase + f < Entries * Entries
    BY <1>1, <2>1, <2>2, <2>3, Constants
  <2>5. QED BY <2>4, Constants DEF VirtualPages
<1>6. QED BY <1>1, <1>2, <1>3, <1>4, <1>5 DEF Reaches, ToEntryIndex

(* An index within a frame stays in it. *)
LEMMA WithinFrame ==
  ASSUME NEW m, NEW f \in Nat, NEW i \in 0..Entries-1, NEW word
  PROVE  Load(m, f, i) = m[f][i] /\ Store(m, f, i, word) = [m EXCEPT ![f][i] = word]
<1>1. i \div Entries = 0 /\ i % Entries = i /\ f + 0 = f
  BY LowPages
<1>2. QED BY <1>1 DEF Load, Store

(* The directory index of a virtual page. *)
LEMMA DirectoryIndex ==
  ASSUME NEW v \in VirtualPages
  PROVE  ToDirIndex(v) = v \div Entries
<1>1. v \div Entries \in 0..Entries-1
  BY PageIndices
<1>2. PICK i \in 0..Entries-1 : i = v \div Entries
  BY <1>1
<1>3. MaskRange * 0 + i = i /\ i \in 0..(MaskRange - 1)
  BY Constants
<1>4. QED BY <1>2, <1>3, Constants, DivisionOf DEF ToDirIndex

-----------------------------------------------------------------------------
(* doMapPage.                                                              *)

(* A table that is made. *)
LEMMA MadeTable ==
  ASSUME NEW m, NEW next, Layout, Tables(m, next),
         NEW j \in 0..Entries-1, m[HeapStart][j].present
  PROVE  /\ j \in {0, HighIndex} /\ m[HeapStart][j] \in Word
         /\ m[HeapStart][j].frame \in HeapStart+1..next-1
         /\ m[HeapStart][j].frame \in Frames \ {HeapStart}
         /\ m[HeapStart][j].frame \in 1..Entries-1
         /\ m[HeapStart][j].write = TRUE /\ m[HeapStart][j].user = FALSE
<1>1. /\ j \in {0, HighIndex} /\ m[HeapStart][j].frame \in HeapStart+1..next-1
      /\ m[HeapStart][j].write = TRUE /\ m[HeapStart][j].user = FALSE
  BY DEF Tables
<1>2. m \in Memories /\ HeapStart \in Frames /\ next \in HeapStart+1..HeapStart+3
      /\ HeapStart + 3 <= Entries
  BY Constants DEF Tables, Layout, Frames
<1>3. m[HeapStart][j] \in Word
  BY ONLY <1>2, j \in 0..Entries-1 DEF Memories
<1>4. PICK f : f = m[HeapStart][j].frame
  OBVIOUS
<1>5. f \in HeapStart+1..next-1
  BY <1>1, <1>4
<1>6. f \in Frames \ {HeapStart} /\ f \in 1..Entries-1
  BY ONLY <1>2, <1>5, Constants DEF Frames
<1>7. QED BY <1>1, <1>3, <1>4, <1>6

(* A frame taken for a table is within the identity map and no table yet.  *)
LEMMA FreshFrame ==
  ASSUME NEW m, NEW next, Layout, Tables(m, next),
         NEW i \in {0, HighIndex}, ~m[HeapStart][i].present
  PROVE  /\ next \in Frames /\ next \in HeapStart+1..HeapStart+2 /\ next # 0
         /\ next # HeapStart /\ i \in 0..Entries-1
         /\ \A j \in 0..Entries-1 : m[HeapStart][j].present => m[HeapStart][j].frame # next
<1>1. HighIndex \in 0..Entries-1 /\ 0 \in 0..Entries-1
  <2>1. 0 \in 0..Entries-1
    BY Constants
  <2>2. QED BY <2>1, HighPages
<1>2. next \in HeapStart+1..HeapStart+2
  BY Constants DEF Tables
<1>3. next \in Frames
  BY <1>2, Constants DEF Frames, Layout
<1>4. ASSUME NEW j \in 0..Entries-1, m[HeapStart][j].present
      PROVE  m[HeapStart][j].frame # next
  BY <1>2, <1>4, Constants DEF Tables
<1>5. QED BY <1>1, <1>2, <1>3, <1>4, Constants

(* The memory after a table for directory entry i has been added.          *)
WithTable(m, next, i, word) == [[m EXCEPT ![next] = Cleared] EXCEPT ![HeapStart][i] = word]

TableAdded(m, next, i, word, n) ==
  /\ Tables(m, next) /\ i \in {0, HighIndex} /\ ~m[HeapStart][i].present
  /\ word \in Word /\ n = WithTable(m, next, i, word)
  /\ word = [present |-> TRUE, frame |-> next, write |-> TRUE, user |-> FALSE]

(* A new table translates no page, and the other entries stay. *)
LEMMA AddedTable ==
  ASSUME Layout, NEW m, NEW next, NEW i, NEW word, NEW n, TableAdded(m, next, i, word, n)
  PROVE  /\ Tables(n, next + 1) /\ n[HeapStart][i] = word
         /\ \A j \in 0..Entries-1 : j # i => n[HeapStart][j] = m[HeapStart][j]
         /\ \A w \in VirtualPages : WalkIn(n, w) = WalkIn(m, w)
<1> USE DEF TableAdded
<1>1. /\ next \in Frames /\ next \in HeapStart+1..HeapStart+2 /\ next # HeapStart
      /\ i \in 0..Entries-1
      /\ \A j \in 0..Entries-1 : m[HeapStart][j].present => m[HeapStart][j].frame # next
  BY FreshFrame
<1>2. m \in Memories /\ HeapStart \in Frames
  BY Constants DEF Tables, Frames, Layout
<1>3. Cleared \in [0..Entries-1 -> Word] /\ \A e \in 0..Entries-1 : ~Cleared[e].present
  <2>1. Zero \in Word /\ ~Zero.present
    BY ONLY Words
  <2>2. QED BY <2>1 DEF Cleared
<1>4. /\ n \in Memories /\ n[next] = Cleared
      /\ n[HeapStart] = [m[HeapStart] EXCEPT ![i] = word]
      /\ \A f \in Frames \ {next, HeapStart} : n[f] = m[f]
  BY <1>1, <1>2, <1>3 DEF WithTable, Memories
<1>5. /\ n[HeapStart][i] = word
      /\ \A j \in 0..Entries-1 : j # i => n[HeapStart][j] = m[HeapStart][j]
  <2>1. m[HeapStart] \in [0..Entries-1 -> Word]
    BY ONLY <1>2 DEF Memories
  <2>2. QED BY ONLY <1>1, <1>4, <2>1
<1>6. Tables(n, next + 1)
  <2>1. next + 1 \in HeapStart+1..HeapStart+3
    BY <1>1, Constants
  <2> PICK upper : upper = next + 1
    OBVIOUS
  <2>2. ASSUME NEW j \in 0..Entries-1, n[HeapStart][j].present
        PROVE  /\ j \in {0, HighIndex}
               /\ n[HeapStart][j].frame \in HeapStart+1..upper-1
               /\ n[HeapStart][j].write = TRUE /\ n[HeapStart][j].user = FALSE
    <3>1. CASE j = i
      BY <1>1, <1>5, <3>1, Constants
    <3>2. CASE j # i
      <4>1. n[HeapStart][j] = m[HeapStart][j] /\ m[HeapStart][j].present
        BY <1>5, <2>2, <3>2
      <4>2. PICK f : f = m[HeapStart][j].frame /\ f \in HeapStart+1..next-1
        BY <4>1, MadeTable
      <4>3. f \in HeapStart+1..upper-1
        BY <1>1, <4>2, Constants
      <4>4. QED BY <4>1, <4>2, <4>3, MadeTable
    <3>3. QED BY <3>1, <3>2
  <2>3. \A j, k \in 0..Entries-1 :
          n[HeapStart][j].present /\ n[HeapStart][k].present /\ j # k
            => n[HeapStart][j].frame # n[HeapStart][k].frame
    <3>1. \A j, k \in 0..Entries-1 :
            m[HeapStart][j].present /\ m[HeapStart][k].present /\ j # k
              => m[HeapStart][j].frame # m[HeapStart][k].frame
      BY DEF Tables
    <3>2. n[HeapStart][i].frame = next
      BY <1>5
    <3>3. QED BY ONLY <1>1, <1>5, <3>1, <3>2
  <2>4. next + 1 > HeapStart + 2 => \A j \in {0, HighIndex} : n[HeapStart][j].present
    <3> SUFFICES ASSUME next + 1 > HeapStart + 2, NEW j \in {0, HighIndex}, j # i
                 PROVE  n[HeapStart][j].present
      BY <1>5
    <3>1. next > HeapStart + 1
      BY <1>1, Constants
    <3>2. m[HeapStart][j].present
      BY <3>1 DEF Tables
    <3>3. j \in 0..Entries-1
      BY Constants, HighPages
    <3>4. QED BY <1>5, <3>2, <3>3
  <2>5. n[HeapStart][i].present
    BY <1>5
  <2>6. upper > HeapStart + 2 => \A j \in {0, HighIndex} : n[HeapStart][j].present
    BY <2>4
  <2>7. Tables(n, upper)
    BY ONLY TableAdded(m, next, i, word, n), upper = next + 1, <1>4, <2>1, <2>2, <2>3, <2>5, <2>6 DEF Tables
  <2>8. QED BY <2>7
<1>7. ASSUME NEW w \in VirtualPages PROVE WalkIn(n, w) = WalkIn(m, w)
  <2>1. PICK j \in 0..Entries-1, e \in 0..Entries-1 : j = w \div Entries /\ e = w % Entries
    BY PageIndices
  <2>2. CASE j = i
    <3>1. WalkIn(m, w) = Unmapped
      BY <2>1, <2>2 DEF WalkIn
    <3>2. ~n[n[HeapStart][j].frame][e].present
      <4>1. n[HeapStart][j].frame = next
        BY <1>5, <2>2
      <4>2. QED BY <1>3, <1>4, <4>1
    <3>3. WalkIn(n, w) = Unmapped
      BY ONLY <2>1, <3>2 DEF WalkIn
    <3>4. QED BY <3>1, <3>3
  <2>3. CASE j # i /\ m[HeapStart][j].present
    <3>1. PICK f \in Frames \ {next, HeapStart} : f = m[HeapStart][j].frame
      BY <1>1, <2>3, MadeTable
    <3>2. n[HeapStart][j] = m[HeapStart][j] /\ n[f] = m[f]
      BY <1>4, <1>5, <2>3
    <3>3. QED BY ONLY <2>1, <3>1, <3>2 DEF WalkIn
  <2>4. CASE j # i /\ ~m[HeapStart][j].present
    BY <1>5, <2>1, <2>4 DEF WalkIn
  <2>5. QED BY <2>2, <2>3, <2>4
<1>8. QED BY <1>5, <1>6, <1>7

(* The memory n after the word for page v has been set in its table.       *)
EntrySet(m, next, v, i, e, word, n) ==
  /\ Tables(m, next) /\ v \in VirtualPages /\ word \in Word
  /\ i \in 0..Entries-1 /\ i = v \div Entries /\ m[HeapStart][i].present
  /\ e \in 0..Entries-1 /\ e = v % Entries
  /\ n = [m EXCEPT ![m[HeapStart][i].frame][e] = word]

(* A word of a table that is made: it translates one page. *)
LEMMA SetEntry ==
  ASSUME Layout, NEW m, NEW next, NEW v, NEW i, NEW e, NEW word, NEW n,
         EntrySet(m, next, v, i, e, word, n)
  PROVE  /\ Tables(n, next) /\ n[HeapStart] = m[HeapStart]
         /\ WalkIn(n, v) = IF word.present
                           THEN [frame |-> word.frame, write |-> word.write, user |-> FALSE]
                           ELSE Unmapped
         /\ \A w \in VirtualPages : w # v => WalkIn(n, w) = WalkIn(m, w)
<1>0. /\ Tables(m, next) /\ v \in VirtualPages /\ word \in Word
      /\ i \in 0..Entries-1 /\ i = v \div Entries /\ m[HeapStart][i].present
      /\ e \in 0..Entries-1 /\ e = v % Entries
  BY DEF EntrySet
<1> USE DEF EntrySet
<1>1. /\ m \in Memories /\ HeapStart \in Frames
      /\ \A j \in 0..Entries-1 : m[HeapStart][j].present =>
           /\ m[HeapStart][j].frame \in Frames \ {HeapStart}
           /\ j # i => m[HeapStart][j].frame # m[HeapStart][i].frame
  <2>1. m \in Memories /\ HeapStart \in Frames
    BY Constants DEF Tables, Frames, Layout
  <2>2. QED BY <2>1, MadeTable DEF Tables
<1>2. PICK t \in Frames \ {HeapStart} : t = m[HeapStart][i].frame
  BY <1>1
<1>3. /\ n \in Memories /\ n[HeapStart] = m[HeapStart]
      /\ n[t] = [m[t] EXCEPT ![e] = word]
      /\ \A f \in Frames \ {t} : n[f] = m[f]
  BY <1>1, <1>2 DEF Memories
<1>4. n[t][e] = word /\ \A k \in 0..Entries-1 : k # e => n[t][k] = m[t][k]
  <2>1. m[t] \in [0..Entries-1 -> Word]
    BY ONLY <1>1, <1>2 DEF Memories
  <2>2. QED BY ONLY <1>0, <1>3, <2>1
<1>5. Tables(n, next)
  BY ONLY <1>0, <1>3 DEF Tables
<1>6. WalkIn(n, v) = IF word.present
                     THEN [frame |-> word.frame, write |-> word.write, user |-> FALSE]
                     ELSE Unmapped
  <2>1. PICK pde \in Word : pde = m[HeapStart][i] /\ pde.present /\ pde.frame = t
    BY <1>2, MadeTable
  <2>2. pde.write = TRUE /\ pde.user = FALSE
    BY <2>1, MadeTable
  <2>3. WalkIn(n, v) = IF word.present
                       THEN [frame |-> word.frame, write |-> pde.write /\ word.write,
                             user |-> pde.user /\ word.user]
                       ELSE Unmapped
    BY ONLY <1>0, <1>3, <1>4, <2>1 DEF WalkIn
  <2>4. word.write \in BOOLEAN
    BY DEF Word
  <2>5. QED BY <2>2, <2>3, <2>4
<1>7. ASSUME NEW w \in VirtualPages, w # v PROVE WalkIn(n, w) = WalkIn(m, w)
  <2>1. PICK j \in 0..Entries-1, k \in 0..Entries-1 : j = w \div Entries /\ k = w % Entries
    BY PageIndices
  <2>2. CASE ~m[HeapStart][j].present
    BY <1>3, <2>1, <2>2 DEF WalkIn
  <2>3. CASE m[HeapStart][j].present
    <3>1. PICK f \in Frames : f = m[HeapStart][j].frame
      BY <1>1, <2>3
    <3>2. n[f][k] = m[f][k]
      <4>1. CASE j = i
        <5>1. k # e
          BY <1>7, <2>1, <4>1, PageIndices
        <5>2. QED BY <1>2, <1>4, <3>1, <4>1, <5>1
      <4>2. CASE j # i
        <5>1. f \in Frames \ {t}
          BY ONLY <1>1, <1>2, <2>1, <2>3, <3>1, <4>2
        <5>2. QED BY ONLY <1>3, <5>1
      <4>3. QED BY <4>1, <4>2
    <3>3. QED BY ONLY <1>3, <2>1, <3>1, <3>2 DEF WalkIn
  <2>4. QED BY <2>2, <2>3
<1>8. QED BY <1>3, <1>5, <1>6, <1>7

(* doMapPage makes the table of a page it can reach, if there is none, and *)
(* the processor then translates this page as asked and the others as      *)
(* before.                                                                 *)
LEMMA MapsOne ==
  ASSUME NEW m, NEW next, Layout, Tables(m, next), NEW p \in Frames, NEW v, Reaches(v),
         NEW flags, "Kernel" \in flags,
         m[HeapStart][v \div Entries].present \/ flags \cap {"Write", "Execute"} # {},
         NEW st, st = [mem |-> m, next |-> next]
  PROVE  \E n, after :
           /\ doMapPage(st, HeapStart, p, v, flags) = [mem |-> n, next |-> after]
           /\ Tables(n, after)
           /\ \A i \in 0..Entries-1 : m[HeapStart][i].present => n[HeapStart][i].present
           /\ n[HeapStart][v \div Entries].present
           /\ m[HeapStart][v \div Entries].present => after = next
           /\ \A w \in VirtualPages :
                WalkIn(n, w) = IF w = v THEN AS!Translation(p, flags) ELSE WalkIn(m, w)
<1> DEFINE made == GetOrCreatePageTable(st, HeapStart, v, flags)
<1>1. PICK i \in 0..Entries-1, e \in 0..Entries-1 :
        i = v \div Entries /\ e = v % Entries /\ ToDirIndex(v) = i /\ ToEntryIndex(v) = e
  BY PageIndices, DirectoryIndex DEF Reaches
<1>2. v \in VirtualPages /\ i \in {0, HighIndex} /\ HeapStart \in Nat
  BY <1>1, Constants DEF Reaches
<1>3. \A x : GetPageTable(x, HeapStart, v)
              = IF x[HeapStart][i].present THEN x[HeapStart][i].frame ELSE 0
  BY <1>1, <1>2, WithinFrame DEF GetPageTable
<1>4. \E m1, next1 :
        /\ made = [mem |-> m1, next |-> next1] /\ Tables(m1, next1)
        /\ \A j \in 0..Entries-1 : m[HeapStart][j].present => m1[HeapStart][j].present
        /\ m1[HeapStart][i].present
        /\ m[HeapStart][i].present => next1 = next
        /\ \A w \in VirtualPages : WalkIn(m1, w) = WalkIn(m, w)
  <2>1. CASE m[HeapStart][i].present
    <3>1. GetPageTable(m, HeapStart, v) # 0
      <4>1. PICK f \in 1..Entries-1 : f = m[HeapStart][i].frame
        BY <2>1, MadeTable
      <4>2. QED BY <1>3, <2>1, <4>1, Constants
    <3>2. made = st
      BY <3>1 DEF GetOrCreatePageTable
    <3>3. QED BY <2>1, <3>2
  <2>2. CASE ~m[HeapStart][i].present
    <3>1. PICK word \in Word :
            word = [present |-> TRUE, frame |-> next, write |-> TRUE, user |-> FALSE]
      BY <1>2, <2>2, FreshFrame DEF Word
    <3>2. Present(next, MapToDirFlags(flags)) = word
      BY <1>1, <2>2, <3>1 DEF Present, MapToDirFlags
    <3>3. made = [mem |-> WithTable(m, next, i, word), next |-> next + 1]
      <4>1. made = AddDirectoryEntry(AllocatePage(st), HeapStart, i, next, flags)
        BY <1>1, <1>3, <2>2 DEF GetOrCreatePageTable
      <4>2. AllocatePage(st) = [mem |-> m, next |-> next + 1]
        BY DEF AllocatePage
      <4>3. Store([m EXCEPT ![next] = Cleared], HeapStart, i, word) = WithTable(m, next, i, word)
        <5>1. PICK x : x = [m EXCEPT ![next] = Cleared]
          OBVIOUS
        <5>2. Store(x, HeapStart, i, word) = [x EXCEPT ![HeapStart][i] = word]
          BY ONLY <1>2, i \in 0..Entries-1, WithinFrame
        <5>3. QED BY <5>1, <5>2 DEF WithTable
      <4>4. QED BY <3>2, <4>1, <4>2, <4>3 DEF AddDirectoryEntry
    <3>4. PICK m1 : m1 = WithTable(m, next, i, word)
      OBVIOUS
    <3>5. /\ Tables(m1, next + 1) /\ m1[HeapStart][i] = word
          /\ \A j \in 0..Entries-1 : j # i => m1[HeapStart][j] = m[HeapStart][j]
          /\ \A w \in VirtualPages : WalkIn(m1, w) = WalkIn(m, w)
      <4>1. TableAdded(m, next, i, word, m1)
        BY <1>2, <2>2, <3>1, <3>4 DEF TableAdded
      <4>2. QED BY ONLY Layout, <4>1, AddedTable
    <3>6. m1[HeapStart][i].present
      BY <3>1, <3>5
    <3>7. QED BY <2>2, <3>3, <3>4, <3>5, <3>6
  <2>3. QED BY <2>1, <2>2
<1>5. PICK m1, next1 :
        /\ made = [mem |-> m1, next |-> next1] /\ Tables(m1, next1)
        /\ \A j \in 0..Entries-1 : m[HeapStart][j].present => m1[HeapStart][j].present
        /\ m1[HeapStart][i].present
        /\ m[HeapStart][i].present => next1 = next
        /\ \A w \in VirtualPages : WalkIn(m1, w) = WalkIn(m, w)
  BY <1>4
<1>6. PICK word \in Word :
        /\ word = Present(p, MapToEntryFlags(flags))
        /\ word.present /\ word.frame = p
        /\ word.write = (flags \cap {"Write", "Execute"} # {})
  <2>1. PICK write \in BOOLEAN, user \in BOOLEAN :
          write = (flags \cap {"Write", "Execute"} # {}) /\ user = ("Kernel" \notin flags)
    OBVIOUS
  <2>2. Present(p, MapToEntryFlags(flags))
          = [present |-> TRUE, frame |-> p, write |-> write, user |-> user]
    BY ONLY <2>1 DEF Present, MapToEntryFlags
  <2>3. [present |-> TRUE, frame |-> p, write |-> write, user |-> user] \in Word
    BY DEF Word
  <2>4. QED BY ONLY <2>1, <2>2, <2>3
<1>7. PICK t \in Nat : t = m1[HeapStart][i].frame /\ GetPageTable(m1, HeapStart, v) = t
  <2>1. PICK t \in 1..Entries-1 : t = m1[HeapStart][i].frame
    BY ONLY Layout, i \in 0..Entries-1, <1>5, MadeTable
  <2>2. QED BY ONLY <1>3, <1>5, <2>1, Constants
<1>8. PICK n : n = [m1 EXCEPT ![m1[HeapStart][i].frame][e] = word]
  OBVIOUS
<1>9. doMapPage(st, HeapStart, p, v, flags) = [mem |-> n, next |-> next1]
  <2>1. doMapPage(st, HeapStart, p, v, flags)
        = [made EXCEPT !.mem = Store(made.mem, GetPageTable(made.mem, HeapStart, v),
                                     ToEntryIndex(v), Present(p, MapToEntryFlags(flags)))]
    BY DEF doMapPage
  <2> HIDE DEF made
  <2>2. Store(m1, t, e, word) = n
    <3>1. Store(m1, t, e, word) = [m1 EXCEPT ![t][e] = word]
      BY ONLY t \in Nat, e \in 0..Entries-1, WithinFrame
    <3>2. QED BY <1>7, <1>8, <3>1
  <2>3. QED BY ONLY <1>1, <1>5, <1>6, <1>7, <2>1, <2>2
<1>10. /\ Tables(n, next1) /\ n[HeapStart] = m1[HeapStart]
       /\ WalkIn(n, v) = IF word.present
                         THEN [frame |-> word.frame, write |-> word.write, user |-> FALSE]
                         ELSE Unmapped
       /\ \A w \in VirtualPages : w # v => WalkIn(n, w) = WalkIn(m1, w)
  <2>1. EntrySet(m1, next1, v, i, e, word, n)
    BY <1>1, <1>2, <1>5, <1>8 DEF EntrySet
  <2>2. QED BY ONLY Layout, <2>1, SetEntry
<1>11. WalkIn(n, v) = AS!Translation(p, flags)
  <2>1. AS!Translation(p, flags) = [frame |-> p, write |-> word.write, user |-> FALSE]
    BY <1>6 DEF AS!Translation, AS!MayWrite
  <2>2. QED BY <1>6, <1>10, <2>1
<1>12. \A w \in VirtualPages :
         WalkIn(n, w) = IF w = v THEN AS!Translation(p, flags) ELSE WalkIn(m, w)
  BY <1>5, <1>10, <1>11
<1>13. QED BY ONLY <1>1, <1>5, <1>9, <1>10, <1>12

(* The same of a memory and next frame in one: what doMapPage asks of a    *)
(* call, and what becomes of the memory.                                   *)
States == [mem : Memories, next : Nat]

MapCall(st, p, v, flags) ==
  /\ st \in States /\ Tables(st.mem, st.next)
  /\ p \in Frames /\ Reaches(v) /\ "Kernel" \in flags
  /\ st.mem[HeapStart][v \div Entries].present \/ flags \cap {"Write", "Execute"} # {}

Mapped(st, p, v, flags, to) ==
  /\ to \in States /\ Tables(to.mem, to.next)
  /\ \A i \in 0..Entries-1 : st.mem[HeapStart][i].present => to.mem[HeapStart][i].present
  /\ to.mem[HeapStart][v \div Entries].present
  /\ st.mem[HeapStart][v \div Entries].present => to.next = st.next
  /\ \A w \in VirtualPages :
       WalkIn(to.mem, w) = IF w = v THEN AS!Translation(p, flags) ELSE WalkIn(st.mem, w)

(* doMapPage does what it is called for. *)
LEMMA MapsState ==
  ASSUME Layout, NEW st, NEW p, NEW v, NEW flags, MapCall(st, p, v, flags)
  PROVE  Mapped(st, p, v, flags, doMapPage(st, HeapStart, p, v, flags))
<1>1. PICK m, next : m = st.mem /\ next = st.next /\ st = [mem |-> m, next |-> next]
  BY DEF MapCall, States
<1>2. PICK n, after :
        /\ doMapPage(st, HeapStart, p, v, flags) = [mem |-> n, next |-> after]
        /\ Tables(n, after)
        /\ \A i \in 0..Entries-1 : m[HeapStart][i].present => n[HeapStart][i].present
        /\ n[HeapStart][v \div Entries].present
        /\ m[HeapStart][v \div Entries].present => after = next
        /\ \A w \in VirtualPages :
             WalkIn(n, w) = IF w = v THEN AS!Translation(p, flags) ELSE WalkIn(m, w)
  BY <1>1, MapsOne DEF MapCall
<1>3. PICK to : to = [mem |-> n, next |-> after]
  OBVIOUS
<1>4. to.mem = n /\ to.next = after
  BY <1>3
<1>5. n \in Memories /\ after \in Nat
  BY <1>2, Constants DEF Tables
<1>6. to \in States
  BY <1>3, <1>5 DEF States
<1>7. Mapped(st, p, v, flags, to)
  BY ONLY <1>1, <1>2, <1>4, <1>6 DEF Mapped
<1>8. QED BY <1>2, <1>3, <1>7

-----------------------------------------------------------------------------
(* MapPages.                                                               *)

(* A set of natural numbers that is not empty has a least one. *)
LEMMA LeastNatural ==
  ASSUME NEW T \in SUBSET Nat, T # {}
  PROVE  \E x \in T : \A y \in T : x <= y
<1>1. PICK x \in T : \A y \in T : ~(<<y, x>> \in OpToRel(<, Nat))
  BY WFMin, NatLessThanWellFounded
<1>2. \A y \in T : <<y, x>> \in OpToRel(<, Nat) <=> y < x
  BY ZenonT(30) DEF OpToRel
<1>3. \A y \in T : ~(y < x)
  BY ONLY <1>1, <1>2, ZenonT(30)
<1>4. \A y \in T : y \in Nat
  OBVIOUS
<1>5. \A y \in T : x <= y
  BY ONLY <1>3, <1>4, x \in T, SMT
<1>6. QED BY ONLY <1>5, x \in T

(* A set that holds 0 and the number after each of its numbers below n     *)
(* holds all numbers up to n.                                              *)
LEMMA CountingUp ==
  ASSUME NEW n \in Nat, NEW T, 0 \in T, \A k \in 1..n : k - 1 \in T => k \in T
  PROVE  \A k \in 0..n : k \in T
<1> SUFFICES ASSUME NEW m \in 0..n, m \notin T PROVE FALSE
  OBVIOUS
<1> DEFINE Missing == {k \in 0..n : k \notin T}
<1>1. Missing \in SUBSET Nat /\ Missing # {}
  OBVIOUS
<1>2. PICK k \in Missing : \A j \in Missing : k <= j
  BY <1>1, LeastNatural
<1>3. k \in 1..n /\ k - 1 \in 0..n /\ ~(k <= k - 1)
  BY <1>2
<1>4. k - 1 \in T
  BY <1>2, <1>3
<1>5. QED BY <1>2, <1>3, <1>4

(* What the first k pages leave keeps within P[k], so what MapPages leaves *)
(* is within the last.                                                     *)
LEMMA MapsInSteps ==
  ASSUME NEW p, NEW v, NEW n \in Nat, NEW flags, MapPages(p, v, n, flags),
         NEW P, State \in P[0],
         \A k \in 1..n : \A st \in P[k - 1] :
           doMapPage(st, m_dir, p + k - 1, v + k - 1, flags) \in P[k]
  PROVE  \E st \in P[n] : Becomes(st)
<1> DEFINE Next_(f, k) == IF k = 0 THEN State
                          ELSE doMapPage(f[k - 1], m_dir, p + k - 1, v + k - 1, flags)
           IsAfter(f, k) == f = [j \in 0..k |-> Next_(f, j)]
           Possible == {k \in 0..n : \E f : IsAfter(f, k)}
<1>1. 0 \in Possible
  <2>1. IsAfter([j \in 0..0 |-> State], 0)
    OBVIOUS
  <2> HIDE DEF IsAfter
  <2>2. QED BY <2>1
<1>2. ASSUME NEW k \in 1..n, NEW f, IsAfter(f, k - 1) PROVE \E g : IsAfter(g, k)
  <2> DEFINE last == doMapPage(f[k - 1], m_dir, p + k - 1, v + k - 1, flags)
             g == [j \in 0..k |-> IF j = k THEN last ELSE f[j]]
  <2>1. \A j \in 0..(k - 1) : f[j] = Next_(f, j)
    BY <1>2
  <2>2. \A j \in 0..k : g[j] = Next_(g, j)
    <3> SUFFICES ASSUME NEW j \in 0..k PROVE g[j] = Next_(g, j)
      OBVIOUS
    <3>1. CASE j = k
      <4>1. k # 0 /\ k - 1 \in 0..k /\ k - 1 # k
        OBVIOUS
      <4>2. g[k - 1] = f[k - 1] /\ g[j] = last
        BY <3>1, <4>1
      <4>3. QED BY <3>1, <4>1, <4>2
    <3>2. CASE j # k
      <4>1. j \in 0..(k - 1) /\ g[j] = f[j]
        BY <3>2
      <4>2. j # 0 => g[j - 1] = f[j - 1]
        BY <3>2
      <4>3. QED BY <2>1, <4>1, <4>2
    <3>3. QED BY <3>1, <3>2
  <2>3. IsAfter(g, k)
    BY <2>2
  <2>4. QED BY <2>3
<1>3. PICK f : IsAfter(f, n)
  <2> HIDE DEF IsAfter
  <2>0. \A k \in 1..n : k - 1 \in Possible => k \in Possible
    BY <1>2
  <2> HIDE DEF Possible
  <2>1. \A k \in 0..n : k \in Possible
    BY <1>1, <2>0, CountingUp
  <2>2. n \in Possible
    BY <2>1
  <2>3. QED BY <2>2 DEF Possible
<1> DEFINE after == CHOOSE f_1 : IsAfter(f_1, n)
<1>4. IsAfter(after, n)
  BY <1>3
<1>5. \A k \in 0..n : after[k] = Next_(after, k)
  BY <1>4
<1> DEFINE Good == {k \in 0..n : after[k] \in P[k]}
<1>6. 0 \in Good
  BY <1>5
<1>7. \A k \in 1..n : k - 1 \in Good => k \in Good
  <2> SUFFICES ASSUME NEW k \in 1..n, k - 1 \in Good PROVE k \in Good
    OBVIOUS
  <2>1. after[k] = doMapPage(after[k - 1], m_dir, p + k - 1, v + k - 1, flags)
    BY <1>5
  <2>2. QED BY <2>1
<1>8. after[n] \in P[n]
  <2> HIDE DEF Good
  <2>1. \A k \in 0..n : k \in Good
    BY <1>6, <1>7, CountingUp
  <2>2. n \in Good
    BY <2>1
  <2>3. QED BY <2>2 DEF Good
<1>9. Becomes(after[n])
  BY DEF MapPages
<1>10. QED BY <1>8, <1>9

(* MapPages maps each page it is called for, and takes no frame. *)
LEMMA MapsAll ==
  ASSUME Layout, PageInv, cr3 # 0, NEW p \in CallerFrames, NEW v \in CallerPages,
         NEW n \in MapLengths, NEW flags \in CallerFlags,
         v..(v + n - 1) \subseteq CallerPages, p..(p + n - 1) \subseteq CallerFrames,
         MapPages(p, v, n, flags)
  PROVE  /\ Tables(mem', HeapNext) /\ HeapNext' = HeapNext
         /\ \A i \in {0, HighIndex} : mem'[HeapStart][i].present
         /\ \A w \in VirtualPages :
              WalkIn(mem', w) = IF w \in v..(v + n - 1)
                                THEN AS!Translation(p + (w - v), flags) ELSE WalkIn(mem, w)
<1>1. /\ p \in Nat /\ v \in Nat /\ n \in Nat /\ n >= 1 /\ m_dir = HeapStart
      /\ Tables(mem, HeapNext) /\ HeapNext \in Nat /\ mem \in Memories
  <2>1. p \in Nat /\ v \in Nat
    BY PageTablesAssumption, Constants DEF Frames, VirtualPages
  <2>2. n \in Nat /\ n >= 1
    BY DEF Layout
  <2>3. QED BY <2>1, <2>2, Constants DEF PageInv, Tables
<1>2. \A i \in {0, HighIndex} : i \in 0..Entries-1 /\ mem[HeapStart][i].present
  <2>1. booted = Entries - 1 /\ ~high
    BY DEF PageInv
  <2>2. booted > 0 /\ (booted > KernelStart \/ booted = KernelStart)
    BY <2>1, Constants
  <2>3. 0 \in 0..Entries-1 /\ HighIndex \in 0..Entries-1
    BY Constants, HighPages
  <2>4. QED BY <2>1, <2>2, <2>3 DEF PageInv
<1> DEFINE Sofar(k, st) ==
             /\ Tables(st.mem, st.next) /\ st.next = HeapNext
             /\ \A i \in {0, HighIndex} : st.mem[HeapStart][i].present
             /\ \A w \in VirtualPages :
                  WalkIn(st.mem, w) = IF w \in v..(v + k - 1)
                                      THEN AS!Translation(p + (w - v), flags) ELSE WalkIn(mem, w)
           P == [k \in 0..n |-> {st \in States : Sofar(k, st)}]
<1>3. State \in P[0]
  <2>1. State \in States /\ State.mem = mem /\ State.next = HeapNext
    BY <1>1 DEF State, States
  <2>2. \A w \in VirtualPages : w \notin v..(v + 0 - 1)
    BY <1>1
  <2>3. Sofar(0, State)
    BY <1>1, <1>2, <2>1, <2>2
  <2>4. QED BY <1>1, <2>1, <2>3
<1>4. ASSUME NEW k \in 1..n, NEW st \in P[k - 1]
      PROVE  doMapPage(st, m_dir, p + k - 1, v + k - 1, flags) \in P[k]
  <2>1. st \in States /\ Sofar(k - 1, st) /\ k \in Nat /\ k >= 1
    BY <1>1
  <2>2. PICK q, u : q = p + k - 1 /\ u = v + k - 1
    OBVIOUS
  <2>3. q \in CallerFrames /\ u \in CallerPages
    BY <1>1, <2>2
  <2>4. MapCall(st, q, u, flags)
    BY <1>2, <2>1, <2>3, PageTablesAssumption DEF MapCall, Layout, Reaches
  <2>5. PICK to : to = doMapPage(st, m_dir, q, u, flags) /\ Mapped(st, q, u, flags, to)
    BY <1>1, <2>4, MapsState
  <2>6. to \in States /\ Tables(to.mem, to.next)
    BY <2>5 DEF Mapped
  <2>7. to.next = HeapNext
    BY <2>1, <2>3, <2>5 DEF Mapped, Layout, Reaches
  <2>8. \A i \in {0, HighIndex} : to.mem[HeapStart][i].present
    BY <1>2, <2>1, <2>5 DEF Mapped
  <2>9. ASSUME NEW w \in VirtualPages
        PROVE  WalkIn(to.mem, w) = IF w \in v..(v + k - 1)
                                   THEN AS!Translation(p + (w - v), flags) ELSE WalkIn(mem, w)
    <3>1. WalkIn(to.mem, w) = IF w = u THEN AS!Translation(q, flags) ELSE WalkIn(st.mem, w)
      BY <2>5 DEF Mapped
    <3>2. WalkIn(st.mem, w) = IF w \in v..(v + (k - 1) - 1)
                              THEN AS!Translation(p + (w - v), flags) ELSE WalkIn(mem, w)
      BY <2>1
    <3>3. w \in Nat
      BY PageIndices
    <3>4. CASE w = u
      <4>1. w \in v..(v + k - 1) /\ p + (w - v) = q
        BY <1>1, <2>1, <2>2, <3>4
      <4>2. QED BY <3>1, <3>4, <4>1
    <3>5. CASE w # u
      <4>1. w \in v..(v + k - 1) <=> w \in v..(v + (k - 1) - 1)
        BY <1>1, <2>1, <2>2, <3>3, <3>5
      <4>2. QED BY <3>1, <3>2, <3>5, <4>1
    <3>6. QED BY <3>4, <3>5
  <2>10. Sofar(k, to)
    BY <2>6, <2>7, <2>8, <2>9
  <2>11. to \in P[k]
    BY <2>6, <2>10
  <2>12. QED BY <2>2, <2>5, <2>11
<1>5. PICK st \in P[n] : Becomes(st)
  <2> HIDE DEF P
  <2>1. QED BY <1>1, <1>3, <1>4, MapsInSteps
<1>6. Sofar(n, st)
  BY <1>1, <1>5
<1>7. mem' = st.mem /\ HeapNext' = st.next
  BY <1>5 DEF Becomes
<1>8. QED BY <1>6, <1>7

-----------------------------------------------------------------------------
(* UnmapPage and GetPhysicalPageFor, in the identity map.                  *)

(* They find the word of the page. *)
LEMMA Finds ==
  ASSUME Layout, PageInv, cr3 # 0, NEW v \in LookedUp
  PROVE  \E t \in Frames :
           /\ t = mem[HeapStart][0].frame /\ mem[HeapStart][0].present
           /\ v \div Entries = 0 /\ v % Entries = v /\ v \in 0..Entries-1
           /\ TableFor(mem, m_dir, v) = t
           /\ HasEntry(mem, m_dir, v) = mem[t][v].present
           /\ Load(mem, t, v) = mem[t][v]
<1>1. v \in 0..Entries-1 /\ v \div Entries = 0 /\ v % Entries = v
  BY LowPages DEF Layout
<1>2. m_dir = HeapStart /\ Tables(mem, HeapNext) /\ mem[HeapStart][0].present
  BY Constants DEF PageInv
<1>3. 0 \in 0..Entries-1 /\ 0 % Entries = 0 /\ HeapStart \in Nat
  BY Constants, LowPages
<1>4. PICK t \in 1..Entries-1 : t = mem[HeapStart][0].frame /\ t \in Frames
  BY <1>2, <1>3, MadeTable
<1>5. t \div Entries = 0 /\ t \in VirtualPages
  <2>1. t \in 0..Entries-1
    BY <1>4
  <2>2. QED BY <2>1, LowPages DEF Reaches
<1>6. GetPageTable(mem, HeapStart, t) = t
  <2>1. ToDirIndex(t) = 0
    BY <1>5, DirectoryIndex
  <2>2. Load(mem, HeapStart, 0) = mem[HeapStart][0]
    BY <1>3, WithinFrame
  <2>3. QED BY <1>2, <1>4, <2>1, <2>2 DEF GetPageTable
<1>7. TableFor(mem, m_dir, v) = t
  BY <1>1, <1>2, <1>3, <1>4, <1>6 DEF TableFor
<1>8. Load(mem, t, v) = mem[t][v]
  <2>1. t \in Nat
    BY <1>4
  <2>2. QED BY <1>1, <2>1, WithinFrame
<1>9. mem[t][v].present \in BOOLEAN
  <2>1. mem \in Memories
    BY ONLY <1>2 DEF Tables
  <2>2. mem[t][v] \in Word
    BY ONLY <1>1, <1>4, <2>1 DEF Memories
  <2>3. QED BY ONLY <2>2 DEF Word
<1>10. HasEntry(mem, m_dir, v) = mem[t][v].present
  BY <1>1, <1>2, <1>3, <1>7, <1>8, <1>9 DEF HasEntry
<1>11. QED BY <1>1, <1>2, <1>4, <1>7, <1>8, <1>10

(* After UnmapPage its page is not translated, and the others as before. *)
LEMMA Unmaps ==
  ASSUME Layout, PageInv, NEW v \in LookedUp, UnmapPage(v)
  PROVE  /\ Tables(mem', HeapNext) /\ mem'[HeapStart] = mem[HeapStart]
         /\ \A w \in VirtualPages :
              WalkIn(mem', w) = IF w = v THEN Unmapped ELSE WalkIn(mem, w)
<1>1. cr3 # 0 /\ mem' = doUnmapPage(mem, m_dir, v) /\ Tables(mem, HeapNext)
  BY DEF UnmapPage, PageInv
<1>2. PICK t \in Frames :
        /\ t = mem[HeapStart][0].frame /\ mem[HeapStart][0].present
        /\ v \div Entries = 0 /\ v % Entries = v /\ v \in 0..Entries-1
        /\ TableFor(mem, m_dir, v) = t
        /\ HasEntry(mem, m_dir, v) = mem[t][v].present
  BY <1>1, Finds
<1>3. v \in VirtualPages /\ mem[t][v] \in Word /\ mem[t] \in [0..Entries-1 -> Word]
  <2>1. mem \in Memories
    BY <1>1 DEF Tables
  <2>2. QED BY <1>2, <2>1, PageTablesAssumption DEF Memories
<1>4. CASE ~mem[t][v].present
  <2>1. mem' = mem
    BY <1>1, <1>2, <1>4 DEF doUnmapPage
  <2>2. WalkIn(mem, v) = Unmapped
    BY <1>2, <1>4 DEF WalkIn
  <2>3. QED BY <1>1, <2>1, <2>2
<1>5. CASE mem[t][v].present
  <2>1. PICK old \in Word : old = mem[t][v]
    BY <1>3
  <2>2. PICK word \in Word : word = [old EXCEPT !.present = FALSE] /\ ~word.present
    <3>1. [old EXCEPT !.present = FALSE] \in Word
      BY DEF Word
    <3>2. ~[old EXCEPT !.present = FALSE].present
      BY DEF Word
    <3>3. QED BY <3>1, <3>2
  <2>3. mem' = [mem EXCEPT ![t][v] = word]
    <3>1. mem' = [mem EXCEPT ![t][v].present = FALSE]
      BY <1>1, <1>2, <1>5 DEF doUnmapPage
    <3>2. QED BY <1>3, <2>1, <2>2, <3>1
  <2>4. 0 \in 0..Entries-1
    BY Constants
  <2>5. EntrySet(mem, HeapNext, v, 0, v, word, mem')
    BY ONLY <1>1, <1>2, <1>3, <2>2, <2>4, <2>3 DEF EntrySet
  <2>6. /\ Tables(mem', HeapNext) /\ mem'[HeapStart] = mem[HeapStart]
        /\ WalkIn(mem', v) = IF word.present
                             THEN [frame |-> word.frame, write |-> word.write, user |-> FALSE]
                             ELSE Unmapped
        /\ \A w \in VirtualPages : w # v => WalkIn(mem', w) = WalkIn(mem, w)
    BY ONLY Layout, <2>5, SetEntry
  <2>7. QED BY ONLY <2>2, <2>6
<1>6. QED BY <1>4, <1>5

(* What the owner of a page writes changes no table and no translation.    *)
LEMMA OwnerApart ==
  ASSUME Layout, PageInv, NEW f, OwnerWrites(f)
  PROVE  /\ Tables(mem', HeapNext) /\ mem'[HeapStart] = mem[HeapStart]
         /\ \A w \in VirtualPages : WalkIn(mem', w) = WalkIn(mem, w)
<1>1. /\ f \in HeapNext..Entries-1 /\ Tables(mem, HeapNext) /\ mem \in Memories
      /\ mem' = [mem EXCEPT ![f] = [i \in 0..Entries-1 |-> Junk]]
  BY DEF OwnerWrites, PageInv, Tables
<1>2. f \in Frames \ {HeapStart} /\ HeapStart \in Frames /\ f \notin HeapStart+1..HeapNext-1
  BY <1>1, Constants DEF Tables, Frames, Layout
<1>3. [i \in 0..Entries-1 |-> Junk] \in [0..Entries-1 -> Word]
  BY PageTablesAssumption
<1>4. /\ mem' \in Memories /\ mem'[HeapStart] = mem[HeapStart]
      /\ \A g \in Frames \ {f} : mem'[g] = mem[g]
  BY <1>1, <1>2, <1>3 DEF Memories
<1>5. Tables(mem', HeapNext)
  BY ONLY <1>1, <1>4 DEF Tables
<1>6. ASSUME NEW w \in VirtualPages PROVE WalkIn(mem', w) = WalkIn(mem, w)
  <2>1. PICK j \in 0..Entries-1, e \in 0..Entries-1 : j = w \div Entries /\ e = w % Entries
    BY PageIndices
  <2>2. CASE ~mem[HeapStart][j].present
    BY <1>4, <2>1, <2>2 DEF WalkIn
  <2>3. CASE mem[HeapStart][j].present
    <3>1. PICK g \in Frames : g = mem[HeapStart][j].frame /\ g \in HeapStart+1..HeapNext-1
      BY <1>1, <2>3, MadeTable
    <3>2. mem'[g] = mem[g]
      BY <1>2, <1>4, <3>1
    <3>3. QED BY ONLY <1>4, <2>1, <3>1, <3>2 DEF WalkIn
  <2>4. QED BY <2>2, <2>3
<1>7. QED BY <1>4, <1>5, <1>6

-----------------------------------------------------------------------------
(* The invariant.                                                          *)

(* It holds when InitBootPages begins: no table is made.                   *)
LEMMA InitKeeps == Layout /\ Init => PageInv
<1> SUFFICES ASSUME Layout, Init PROVE PageInv
  OBVIOUS
<1>1. PICK rest \in Word :
        mem = [f \in Frames |-> IF f = HeapStart THEN Cleared
                                ELSE [i \in 0..Entries-1 |-> rest]]
  <2>1. Zero \in Word /\ Junk \in Word
    BY ONLY Words
  <2>2. PICK word \in {Zero, Junk} :
          mem = [f \in Frames |-> IF f = HeapStart THEN Cleared
                                  ELSE [i \in 0..Entries-1 |-> word]]
    BY Zenon DEF Init
  <2>3. word \in Word
    BY ONLY <2>1, word \in {Zero, Junk}
  <2>4. QED BY ONLY <2>2, <2>3, Zenon
<1>2. HeapStart \in Frames /\ Cleared \in [0..Entries-1 -> Word]
      /\ \A i \in 0..Entries-1 : ~Cleared[i].present
  <2>1. Zero \in Word /\ ~Zero.present
    BY ONLY Words
  <2>2. HeapStart \in Frames
    BY Constants DEF Frames, Layout
  <2>3. QED BY <2>1, <2>2 DEF Cleared
<1>3. mem \in Memories /\ mem[HeapStart] = Cleared
  BY <1>1, <1>2 DEF Memories
<1>4. Tables(mem, HeapNext)
  <2>1. HeapNext = HeapStart + 1 /\ HeapNext \in HeapStart+1..HeapStart+3
    BY Constants DEF Init
  <2>2. ~(HeapNext > HeapStart + 1) /\ ~(HeapNext > HeapStart + 2)
    BY <2>1, Constants
  <2>3. HeapNext \in HeapStart+1..HeapStart+3
    BY <2>1
  <2>4. QED BY ONLY <1>2, <1>3, <2>2, <2>3 DEF Tables
<1>5. BootMapped(mem)
  <2>1. 0 \in 0..Entries-1 /\ 0 \div Entries = 0
    BY Constants, LowPages
  <2>2. WalkIn(mem, 0) = Unmapped
    BY <1>2, <1>3, <2>1 DEF WalkIn
  <2>3. booted = 0
    BY DEF Init
  <2>4. QED BY <2>2, <2>3, Constants DEF BootMapped
<1>6. booted = 0 /\ high = FALSE /\ cr3 = 0 /\ pool = {} /\ m_dir = HeapStart
  BY DEF Init
<1>7. ~(booted > KernelStart) /\ booted # KernelStart /\ ~(booted > 0) /\ booted \in 0..Entries-1
  BY <1>6, Constants
<1>8. QED BY ONLY <1>4, <1>5, <1>6, <1>7 DEF PageInv

(* The boot maps a page to itself, or to the high half. *)
BootStep(p, v, flags) ==
  /\ Layout /\ PageInv /\ cr3 = 0 /\ MapPage(p, v, flags)
  /\ p \in 1..Entries-1 /\ v \in {p, KernelBase + p}
  /\ "Kernel" \in flags /\ flags \cap {"Write", "Execute"} # {}

(* Such a step maps its page for the kernel, and no other.                 *)
LEMMA BootMaps ==
  ASSUME NEW p, NEW v, NEW flags, BootStep(p, v, flags)
  PROVE  /\ Tables(mem', HeapNext')
         /\ \A i \in 0..Entries-1 : mem[HeapStart][i].present => mem'[HeapStart][i].present
         /\ mem'[HeapStart][v \div Entries].present
         /\ AS!Translation(p, flags) = [frame |-> p, write |-> TRUE, user |-> FALSE]
         /\ \A w \in VirtualPages :
              WalkIn(mem', w) = IF w = v THEN AS!Translation(p, flags) ELSE WalkIn(mem, w)
<1>1. /\ Layout /\ m_dir = HeapStart /\ Tables(mem, HeapNext) /\ p \in 0..Entries-1
      /\ v \in {p, KernelBase + p} /\ MapPage(p, v, flags)
      /\ "Kernel" \in flags /\ flags \cap {"Write", "Execute"} # {}
  BY Constants DEF BootStep, PageInv
<1>2. Reaches(v) /\ p \in Frames
  <2>1. Reaches(p) /\ Reaches(KernelBase + p)
    BY <1>1, LowPages, HighPages
  <2>2. p \in Frames
    BY <1>1, Constants DEF Frames
  <2>3. QED BY <1>1, <2>1, <2>2
<1>3. State \in States /\ State.mem = mem /\ State.next = HeapNext
  <2>1. mem \in Memories /\ HeapNext \in Nat
    BY <1>1, Constants DEF Tables
  <2>2. QED BY <2>1 DEF State, States
<1>4. MapCall(State, p, v, flags)
  BY <1>1, <1>2, <1>3 DEF MapCall
<1>5. PICK to : to = doMapPage(State, HeapStart, p, v, flags) /\ Mapped(State, p, v, flags, to)
  BY <1>1, <1>4, MapsState
<1>6. mem' = to.mem /\ HeapNext' = to.next
  BY <1>1, <1>5 DEF MapPage, Becomes
<1>7. AS!Translation(p, flags) = [frame |-> p, write |-> TRUE, user |-> FALSE]
  BY <1>1 DEF AS!Translation, AS!MayWrite
<1>8. QED BY ONLY <1>3, <1>5, <1>6, <1>7 DEF Mapped
(* A request to map is served when each page it names is translated as     *)
(* asked, and the others as before.                                        *)
LEMMA MapServed ==
  ASSUME NEW p, NEW v, NEW n, NEW flags, m_dir = HeapStart, m_dir' = HeapStart,
         request' = MapRequest(p, v, n, flags), answer' = "NoError",
         \A w \in VirtualPages :
           WalkIn(mem', w) = IF w \in v..(v + n - 1)
                             THEN AS!Translation(p + (w - v), flags) ELSE WalkIn(mem, w)
  PROVE  AS!Serve
<1>1. \A w \in VirtualPages : Walk(w) = WalkIn(mem, w) /\ Walk(w)' = WalkIn(mem', w)
  BY DEF Walk, WalkIn
<1>2. request' = [op |-> "map", p |-> p, v |-> v, n |-> n, flags |-> flags]
  BY DEF MapRequest
<1>3. [w \in VirtualPages |-> Walk(w)]' = [w \in VirtualPages |-> WalkIn(mem', w)]
  BY <1>1
<1>4. AS!After([w \in VirtualPages |-> Walk(w)], request')
      = [w \in VirtualPages |-> IF w \in v..(v + n - 1)
                                THEN AS!Translation(p + (w - v), flags) ELSE WalkIn(mem, w)]
  <2>1. \A s : AS!After(s, request')
              = [w \in VirtualPages |-> IF w \in v..(v + n - 1)
                                        THEN AS!Translation(p + (w - v), flags) ELSE s[w]]
    BY ONLY <1>2 DEF AS!After, AS!PagesNamed
  <2>2. QED BY ONLY <1>1, <2>1
<1>5. [w \in VirtualPages |-> Walk(w)]' = AS!After([w \in VirtualPages |-> Walk(w)], request')
  BY ONLY <1>3, <1>4, \A w \in VirtualPages :
           WalkIn(mem', w) = IF w \in v..(v + n - 1)
                             THEN AS!Translation(p + (w - v), flags) ELSE WalkIn(mem, w)
<1>6. \A s : AS!Result(s, request') = "NoError"
  BY ONLY <1>2 DEF AS!Result
<1>7. QED BY <1>5, <1>6 DEF AS!Serve

(* MapPage names one page. *)
LEMMA OneServed ==
  ASSUME NEW p \in Nat, NEW v \in Nat, NEW flags, m_dir = HeapStart, m_dir' = HeapStart,
         MapPage(p, v, flags),
         \A w \in VirtualPages :
           WalkIn(mem', w) = IF w = v THEN AS!Translation(p, flags) ELSE WalkIn(mem, w)
  PROVE  AS!Serve
<1>1. request' = MapRequest(p, v, 1, flags) /\ answer' = "NoError"
  BY DEF MapPage
<1>2. ASSUME NEW w \in VirtualPages
      PROVE  WalkIn(mem', w) = IF w \in v..(v + 1 - 1)
                               THEN AS!Translation(p + (w - v), flags) ELSE WalkIn(mem, w)
  <2>1. w \in Nat /\ (w \in v..(v + 1 - 1) <=> w = v)
    BY PageIndices
  <2>2. w = v => p + (w - v) = p
    OBVIOUS
  <2>3. WalkIn(mem', w) = IF w = v THEN AS!Translation(p, flags) ELSE WalkIn(mem, w)
    OBVIOUS
  <2>4. QED BY ONLY <2>1, <2>2, <2>3
<1>3. QED BY <1>1, <1>2, MapServed

(* MapToItself goes on with the next page. *)
LEMMA ItselfKeeps ==
  ASSUME Layout, PageInv, MapToItself
  PROVE  PageInv' /\ AS!Serve
<1> DEFINE b == booted'
           flags == {"Write", "Kernel"}
<1>1. /\ booted \in 0..Entries-1 /\ booted < Entries - 1 /\ ~high
      /\ booted' = booted + 1 /\ booted' \in 1..Entries-1
      /\ high' = InKernel(booted') /\ MapPage(booted', booted', flags)
  BY Constants DEF MapToItself, PageInv
<1>2. cr3 = 0 /\ BootMapped(mem) /\ pool = {} /\ m_dir = HeapStart
  BY <1>1 DEF PageInv
<1>3. m_dir' = HeapStart /\ cr3' = 0 /\ pool' = {}
  BY <1>1, <1>2 DEF MapPage
<1>4. BootStep(b, b, flags)
  BY <1>1, <1>2 DEF BootStep
<1>5. /\ Tables(mem', HeapNext')
      /\ \A i \in 0..Entries-1 : mem[HeapStart][i].present => mem'[HeapStart][i].present
      /\ mem'[HeapStart][b \div Entries].present
      /\ AS!Translation(b, flags) = [frame |-> b, write |-> TRUE, user |-> FALSE]
      /\ \A w \in VirtualPages :
           WalkIn(mem', w) = IF w = b THEN AS!Translation(b, flags) ELSE WalkIn(mem, w)
  BY <1>4, BootMaps
<1>6. mem'[HeapStart][0].present
  BY <1>1, <1>5, LowPages, Constants
<1>7. ASSUME booted' > KernelStart \/ (booted' = KernelStart /\ ~high')
      PROVE  mem'[HeapStart][HighIndex].present
  <2>1. booted >= KernelStart
    <3>1. booted' = KernelStart => InKernel(booted')
      BY ONLY Constants DEF InKernel
    <3>2. booted' > KernelStart
      BY ONLY <1>1, <1>7, <3>1, Constants, Zenon
    <3>3. QED BY ONLY <1>1, <3>2, Constants
  <2>2. mem[HeapStart][HighIndex].present
    BY <1>1, <2>1, Constants DEF PageInv
  <2>3. HighIndex \in 0..Entries-1
    BY <1>1, HighPages
  <2>4. QED BY <1>5, <2>2, <2>3
<1>8. BootMapped(mem)'
  <2>1. WalkIn(mem', 0) = Unmapped
    <3>1. 0 \in VirtualPages
      BY Constants, LowPages DEF Reaches
    <3>2. QED BY <1>1, <1>2, <1>5, <3>1 DEF BootMapped
  <2>2. ASSUME NEW f \in 1..booted'
        PROVE  WalkIn(mem', f) = [frame |-> f, write |-> TRUE, user |-> FALSE]
    <3>1. f \in VirtualPages
      BY <1>1, Constants, LowPages DEF Reaches
    <3>2. CASE f = b
      BY <1>5, <3>1, <3>2
    <3>3. CASE f # b
      <4>1. f \in 1..booted
        BY <1>1, <3>3
      <4>2. QED BY <1>2, <1>5, <3>1, <3>3, <4>1 DEF BootMapped
    <3>4. QED BY <3>2, <3>3
  <2>3. ASSUME NEW f \in KernelStart..KernelLast,
               f < booted' \/ (f = booted' /\ ~high')
        PROVE  WalkIn(mem', KernelBase + f).frame = f
    <3>1. f \in 0..Entries-1 /\ f < booted'
      <4>1. f = booted' => InKernel(booted')
        BY ONLY <1>1, f \in KernelStart..KernelLast, Constants DEF InKernel
      <4>2. f < booted'
        BY ONLY <1>1, <2>3, <4>1, Zenon
      <4>3. QED BY ONLY f \in KernelStart..KernelLast, <4>2, Constants
    <3>2. f < booted \/ (f = booted /\ ~high)
      BY <1>1, <3>1
    <3>3. WalkIn(mem, KernelBase + f).frame = f
      BY <1>2, <3>2 DEF BootMapped
    <3>4. KernelBase + f \in VirtualPages /\ (KernelBase + f) % Entries = f
      BY <3>1, HighPages DEF Reaches
    <3>5. b % Entries = b
      BY <1>1, LowPages
    <3>6. KernelBase + f # b
      BY <1>1, <3>1, <3>4, <3>5
    <3>7. QED BY <1>5, <3>3, <3>4, <3>6
  <2>4. QED BY <2>1, <2>2, <2>3 DEF BootMapped
<1>9. high' \in BOOLEAN /\ (high' => InKernel(booted'))
  BY <1>1 DEF InKernel
<1>10. PageInv'
  BY ONLY <1>1, <1>3, <1>5, <1>6, <1>7, <1>8, <1>9, Constants DEF PageInv
<1>11. AS!Serve
  BY ONLY <1>1, <1>2, <1>3, <1>5, OneServed
<1>12. QED BY <1>10, <1>11
(* MapToHighHalf maps the same page once more. *)
LEMMA HighHalfKeeps ==
  ASSUME Layout, PageInv, MapToHighHalf
  PROVE  PageInv' /\ AS!Serve
<1> DEFINE v == KernelBase + booted
           flags == {"Execute", "Kernel"}
<1>1. /\ high /\ ~high' /\ high' \in BOOLEAN /\ booted' = booted
      /\ booted \in 1..Entries-1 /\ InKernel(booted)
      /\ MapPage(booted, v, flags)
  BY DEF MapToHighHalf, PageInv
<1>2. cr3 = 0 /\ BootMapped(mem) /\ pool = {} /\ m_dir = HeapStart
  BY <1>1 DEF PageInv
<1>3. m_dir' = HeapStart /\ cr3' = 0 /\ pool' = {}
  BY <1>1, <1>2 DEF MapPage
<1>4. BootStep(booted, v, flags)
  BY <1>1, <1>2 DEF BootStep
<1>5. /\ Tables(mem', HeapNext')
      /\ \A i \in 0..Entries-1 : mem[HeapStart][i].present => mem'[HeapStart][i].present
      /\ mem'[HeapStart][v \div Entries].present
      /\ AS!Translation(booted, flags) = [frame |-> booted, write |-> TRUE, user |-> FALSE]
      /\ \A w \in VirtualPages :
           WalkIn(mem', w) = IF w = v THEN AS!Translation(booted, flags) ELSE WalkIn(mem, w)
  BY <1>4, BootMaps
<1>6. /\ booted \in 0..Entries-1 /\ v \in VirtualPages /\ v % Entries = booted
      /\ v \div Entries = HighIndex /\ v \in Nat
  <2>1. booted \in 0..Entries-1
    BY <1>1
  <2>2. Reaches(v) /\ v % Entries = booted /\ v \div Entries = HighIndex
    BY ONLY Layout, <2>1, HighPages
  <2>3. v \in Nat
    BY ONLY <2>1, Constants
  <2>4. v \in VirtualPages
    BY ONLY <2>2 DEF Reaches
  <2>5. QED BY <2>1, <2>2, <2>3, <2>4
<1>7. mem'[HeapStart][HighIndex].present
  BY <1>5, <1>6
<1>8. mem'[HeapStart][0].present
  <2>1. mem[HeapStart][0].present /\ 0 \in 0..Entries-1
    BY <1>1, Constants DEF PageInv
  <2>2. QED BY <1>5, <2>1
<1>9. BootMapped(mem)'
  <2>1. WalkIn(mem', 0) = Unmapped
    <3>1. 0 \in VirtualPages /\ 0 # v
      BY <1>1, Constants, LowPages DEF Reaches
    <3>2. QED BY <1>2, <1>5, <3>1 DEF BootMapped
  <2>2. ASSUME NEW f \in 1..booted'
        PROVE  WalkIn(mem', f) = [frame |-> f, write |-> TRUE, user |-> FALSE]
    <3>1. f \in VirtualPages /\ f % Entries = f /\ f \in 1..booted
      BY <1>1, Constants, LowPages DEF Reaches
    <3>2. WalkIn(mem, f) = [frame |-> f, write |-> TRUE, user |-> FALSE]
      BY <1>2, <3>1 DEF BootMapped
    <3>3. f = v => f = booted
      BY <1>6, <3>1
    <3>4. QED BY ONLY <1>5, <3>1, <3>2, <3>3
  <2>3. ASSUME NEW f \in KernelStart..KernelLast,
               f < booted' \/ (f = booted' /\ ~high')
        PROVE  WalkIn(mem', KernelBase + f).frame = f
    <3>1. f \in Nat /\ (f < booted \/ f = booted)
      BY <1>1, <2>3, Constants
    <3>2. KernelBase + f \in VirtualPages
      <4>1. f \in 0..Entries-1
        BY Constants
      <4>2. QED BY <4>1, HighPages DEF Reaches
    <3>3. CASE f = booted
      BY <1>5, <3>2, <3>3
    <3>4. CASE f < booted
      <4>1. WalkIn(mem, KernelBase + f).frame = f
        BY <1>2, <3>4 DEF BootMapped
      <4>2. KernelBase + f # v
        BY <3>1, <3>4, <1>6, Constants
      <4>3. QED BY ONLY <1>5, <3>2, <4>1, <4>2
    <3>5. QED BY <3>1, <3>3, <3>4
  <2>4. QED BY <2>1, <2>2, <2>3 DEF BootMapped
<1>10. booted' \in 0..Entries-1
  BY <1>1, <1>6
<1>11. PageInv'
  BY ONLY <1>1, <1>3, <1>5, <1>7, <1>8, <1>9, <1>10 DEF PageInv
<1>12. AS!Serve
  BY ONLY <1>1, <1>2, <1>3, <1>5, <1>6, OneServed
<1>13. QED BY <1>11, <1>12

(* A step after the boot that keeps the tables and takes no frame. *)
LEMMA KeptAfterBoot ==
  ASSUME PageInv, cr3 # 0, Tables(mem', HeapNext), HeapNext' = HeapNext,
         \A i \in {0, HighIndex} : mem[HeapStart][i].present => mem'[HeapStart][i].present,
         UNCHANGED <<m_dir, cr3, booted, high, pool>>
  PROVE  PageInv'
<1>1. \A i \in {0, HighIndex} : mem[HeapStart][i].present => mem'[HeapStart][i].present
  OBVIOUS
<1>2. /\ m_dir' = m_dir /\ cr3' = cr3 /\ booted' = booted /\ high' = high /\ pool' = pool
      /\ HeapNext' = HeapNext /\ Tables(mem', HeapNext') /\ cr3 # 0
  OBVIOUS
<1>3. QED BY ONLY PageInv, <1>1, <1>2, Zenon DEF PageInv

(* MakeActive and VmmInit change no word of memory. *)
LEMMA StartKeeps ==
  ASSUME Layout, PageInv, MakeActive \/ VmmInit
  PROVE  PageInv' /\ UNCHANGED AS!asVars
<1>1. /\ mem' = mem /\ HeapNext' = HeapNext /\ m_dir' = m_dir /\ booted' = booted
      /\ high' = high /\ request' = request /\ answer' = answer
  BY DEF MakeActive, VmmInit
<1>2. UNCHANGED AS!asVars
  BY <1>1 DEF AS!asVars, Walk
<1>3. CASE MakeActive
  <2>1. /\ booted = Entries - 1 /\ ~high /\ cr3 = 0 /\ cr3' = m_dir /\ pool' = pool
    BY <1>3 DEF MakeActive
  <2>2. HeapStart # 0
    BY Constants
  <2>3. QED BY ONLY PageInv, <1>1, <1>2, <2>1, <2>2 DEF PageInv
<1>4. CASE VmmInit
  <2>1. cr3 # 0 /\ cr3' = cr3 /\ pool' = HeapNext'..Entries-1
    BY <1>1, <1>4 DEF VmmInit
  <2>2. QED BY ONLY PageInv, <1>1, <1>2, <2>1 DEF PageInv
<1>5. QED BY <1>3, <1>4
(* MapPages serves its request. *)
LEMMA MapPagesKeeps ==
  ASSUME Layout, PageInv, NEW p \in CallerFrames, NEW v \in CallerPages,
         NEW n \in MapLengths, NEW flags \in CallerFlags,
         v..(v + n - 1) \subseteq CallerPages, p..(p + n - 1) \subseteq CallerFrames,
         MapPages(p, v, n, flags)
  PROVE  PageInv' /\ AS!Serve
<1>1. /\ cr3 # 0 /\ request' = MapRequest(p, v, n, flags) /\ answer' = "NoError"
      /\ UNCHANGED <<m_dir, cr3, booted, high, pool>> /\ m_dir = HeapStart
  BY DEF MapPages, PageInv
<1>2. /\ Tables(mem', HeapNext) /\ HeapNext' = HeapNext
      /\ \A i \in {0, HighIndex} : mem'[HeapStart][i].present
      /\ \A w \in VirtualPages :
           WalkIn(mem', w) = IF w \in v..(v + n - 1)
                             THEN AS!Translation(p + (w - v), flags) ELSE WalkIn(mem, w)
  BY <1>1, MapsAll
<1>3. PageInv'
  BY <1>1, <1>2, KeptAfterBoot
<1>4. AS!Serve
  BY ONLY <1>1, <1>2, MapServed
<1>5. QED BY <1>3, <1>4

(* A call that is refused changes nothing. *)
LEMMA UnalignedKeeps ==
  ASSUME PageInv, MapUnaligned
  PROVE  PageInv' /\ AS!Serve
<1>1. /\ mem' = mem /\ HeapNext' = HeapNext /\ m_dir' = m_dir /\ cr3' = cr3
      /\ booted' = booted /\ high' = high /\ pool' = pool
      /\ request' = [op |-> "refused"] /\ answer' = "NotAligned"
  BY DEF MapUnaligned
<1>2. PageInv'
  BY ONLY PageInv, <1>1, Zenon DEF PageInv, BootMapped
<1>3. [w \in VirtualPages |-> Walk(w)]' = [w \in VirtualPages |-> Walk(w)]
  BY <1>1 DEF Walk
<1>4. \A s : AS!After(s, request') = s /\ AS!Result(s, request') = "NotAligned"
  BY ONLY <1>1 DEF AS!After, AS!Result
<1>5. QED BY <1>1, <1>2, <1>3, <1>4 DEF AS!Serve

(* UnmapPage serves its request, for the pages it is called for here. *)
LEMMA UnmapKeeps ==
  ASSUME Layout, PageInv, NEW v \in LookedUp, UnmapPage(v)
  PROVE  PageInv' /\ AS!Serve
<1>1. /\ cr3 # 0 /\ HeapNext' = HeapNext /\ UNCHANGED <<m_dir, cr3, booted, high, pool>>
      /\ request' = [op |-> "unmap", v |-> v, n |-> 1] /\ answer' = "NoError"
      /\ m_dir = HeapStart /\ v \in Nat
  <2>1. v \in Nat
    BY PageTablesAssumption DEF VirtualPages
  <2>2. QED BY <2>1 DEF UnmapPage, PageInv
<1>2. /\ Tables(mem', HeapNext) /\ mem'[HeapStart] = mem[HeapStart]
      /\ \A w \in VirtualPages :
           WalkIn(mem', w) = IF w = v THEN Unmapped ELSE WalkIn(mem, w)
  BY Unmaps
<1>3. PageInv'
  BY <1>1, <1>2, KeptAfterBoot
<1>4. \A w \in VirtualPages : Walk(w) = WalkIn(mem, w) /\ Walk(w)' = WalkIn(mem', w)
  BY <1>1 DEF Walk, WalkIn
<1>5. \A w \in VirtualPages : w \in v..(v + 1 - 1) <=> w = v
  BY <1>1, PageIndices
<1>6. /\ \A s : AS!After(s, request')
              = [w \in VirtualPages |-> IF w \in v..(v + 1 - 1) THEN Unmapped ELSE s[w]]
      /\ \A s : AS!Result(s, request') = "NoError"
  BY ONLY <1>1 DEF AS!After, AS!PagesNamed, AS!Result
<1>7. [w \in VirtualPages |-> Walk(w)]'
      = AS!After([w \in VirtualPages |-> Walk(w)], request')
  BY ONLY <1>2, <1>4, <1>5, <1>6
<1>8. QED BY <1>1, <1>3, <1>6, <1>7 DEF AS!Serve

(* GetPhysicalPageFor answers what the page is translated to, for the      *)
(* pages it is called for here.                                            *)
LEMMA LookupServes ==
  ASSUME Layout, PageInv, NEW v \in LookedUp, GetPhysicalPageFor(v)
  PROVE  PageInv' /\ AS!Serve
<1>1. /\ cr3 # 0 /\ request' = [op |-> "lookup", v |-> v, n |-> 1]
      /\ answer' = doGetPhysicalPageFor(mem, m_dir, v)
      /\ mem' = mem /\ HeapNext' = HeapNext /\ m_dir' = m_dir /\ cr3' = cr3
      /\ booted' = booted /\ high' = high /\ pool' = pool /\ m_dir = HeapStart
      /\ v \in VirtualPages
  BY PageTablesAssumption DEF GetPhysicalPageFor, PageInv
<1>2. PageInv'
  BY ONLY PageInv, <1>1, Zenon DEF PageInv, BootMapped
<1>3. PICK t \in Frames :
        /\ t = mem[HeapStart][0].frame /\ mem[HeapStart][0].present
        /\ v \div Entries = 0 /\ v % Entries = v
        /\ TableFor(mem, m_dir, v) = t
        /\ HasEntry(mem, m_dir, v) = mem[t][v].present
        /\ Load(mem, t, v) = mem[t][v]
  BY <1>1, Finds
<1>4. answer' = IF mem[t][v].present THEN mem[t][v].frame ELSE 0
  BY <1>1, <1>3 DEF doGetPhysicalPageFor
<1>5. /\ mem[t][v].present => Walk(v).frame = mem[t][v].frame
      /\ ~mem[t][v].present => Walk(v) = Unmapped
  BY <1>1, <1>3 DEF Walk
<1>6. answer' = IF Walk(v) = Unmapped THEN 0 ELSE Walk(v).frame
  <2>1. Unmapped.frame = 0
    BY DEF Unmapped
  <2>2. QED BY ONLY <1>4, <1>5, <2>1
<1>7. [w \in VirtualPages |-> Walk(w)]' = [w \in VirtualPages |-> Walk(w)]
  BY <1>1 DEF Walk
<1>8. \A s : /\ AS!After(s, request') = s
             /\ AS!Result(s, request') = IF s[v] = Unmapped THEN 0 ELSE s[v].frame
  BY ONLY <1>1 DEF AS!After, AS!Result
<1>9. AS!Result([w \in VirtualPages |-> Walk(w)], request')
      = IF Walk(v) = Unmapped THEN 0 ELSE Walk(v).frame
  BY ONLY <1>1, <1>8
<1>10. QED BY <1>2, <1>6, <1>7, <1>8, <1>9 DEF AS!Serve

(* An owner of a page changes no translation. *)
LEMMA OwnerKeeps ==
  ASSUME Layout, PageInv, NEW f, OwnerWrites(f)
  PROVE  PageInv' /\ UNCHANGED AS!asVars
<1>1. /\ cr3 # 0 /\ HeapNext' = HeapNext /\ UNCHANGED <<m_dir, cr3, booted, high, pool>>
      /\ request' = request /\ answer' = answer /\ m_dir = HeapStart
  BY DEF OwnerWrites, PageInv
<1>2. /\ Tables(mem', HeapNext) /\ mem'[HeapStart] = mem[HeapStart]
      /\ \A w \in VirtualPages : WalkIn(mem', w) = WalkIn(mem, w)
  BY OwnerApart
<1>3. PageInv'
  BY <1>1, <1>2, KeptAfterBoot
<1>4. \A w \in VirtualPages : Walk(w) = WalkIn(mem, w) /\ Walk(w)' = WalkIn(mem', w)
  BY <1>1 DEF Walk, WalkIn
<1>5. [w \in VirtualPages |-> Walk(w)]' = [w \in VirtualPages |-> Walk(w)]
  BY <1>2, <1>4
<1>6. QED BY <1>1, <1>3, <1>5 DEF AS!asVars

(* A step that changes nothing. *)
LEMMA StutterKeeps ==
  ASSUME PageInv, UNCHANGED vars
  PROVE  PageInv' /\ UNCHANGED AS!asVars
<1>1. /\ mem' = mem /\ HeapNext' = HeapNext /\ m_dir' = m_dir /\ cr3' = cr3
      /\ booted' = booted /\ high' = high /\ pool' = pool
      /\ request' = request /\ answer' = answer
  BY DEF vars
<1>2. PageInv'
  BY ONLY PageInv, <1>1, Zenon DEF PageInv, BootMapped
<1>3. QED BY <1>1, <1>2 DEF AS!asVars, Walk

(* Each step keeps the invariant, and serves a request of the address      *)
(* space or changes nothing of it.                                         *)
LEMMA StepKeeps ==
  Layout /\ PageInv /\ [Next]_vars => PageInv' /\ [AS!Serve]_(AS!asVars)
<1> SUFFICES ASSUME Layout, PageInv, [Next]_vars
             PROVE  PageInv' /\ (AS!Serve \/ UNCHANGED AS!asVars)
  OBVIOUS
<1>1. CASE MapToItself
  BY <1>1, ItselfKeeps
<1>2. CASE MapToHighHalf
  BY <1>2, HighHalfKeeps
<1>3. CASE MakeActive \/ VmmInit
  BY <1>3, StartKeeps
<1>4. ASSUME NEW p \in CallerFrames, NEW v \in CallerPages,
             NEW n \in MapLengths, NEW flags \in CallerFlags,
             v..(v + n - 1) \subseteq CallerPages, p..(p + n - 1) \subseteq CallerFrames,
             MapPages(p, v, n, flags)
      PROVE  PageInv' /\ AS!Serve
  BY ONLY Layout, PageInv, <1>4, MapPagesKeeps
<1>5. CASE MapUnaligned
  BY <1>5, UnalignedKeeps
<1>6. ASSUME NEW v \in LookedUp, UnmapPage(v) PROVE PageInv' /\ AS!Serve
  BY <1>6, UnmapKeeps
<1>7. ASSUME NEW v \in LookedUp, GetPhysicalPageFor(v) PROVE PageInv' /\ AS!Serve
  BY <1>7, LookupServes
<1>8. ASSUME NEW f \in pool, OwnerWrites(f) PROVE PageInv' /\ UNCHANGED AS!asVars
  BY <1>8, OwnerKeeps
<1>9. CASE UNCHANGED vars
  BY <1>9, StutterKeeps
<1>10. QED BY <1>1, <1>2, <1>3, <1>4, <1>5, <1>6, <1>7, <1>8, <1>9, Zenon DEF Next
-----------------------------------------------------------------------------
(* Theorems.                                                               *)

(* The layout speaks of constants only. *)
LEMMA LayoutStays == Layout => []Layout
<1>1. Layout => Layout'
  BY DEF Layout, Reaches, ToEntryIndex, HighIndex, VirtualPages
<1>2. QED BY <1>1, PTL

(* The invariant, in every state. *)
THEOREM TablesHold == Layout => (Spec => []PageInv)
<1>1. Layout /\ Init => PageInv
  BY InitKeeps
<1>2. Layout /\ PageInv /\ [Next]_vars => PageInv'
  BY StepKeeps
<1>3. QED BY <1>1, <1>2, LayoutStays, PTL DEF Spec

(* The types of PageTables: every word of memory that the boot, the calls  *)
(* and the owners of pages leave is one, whatever index they computed.     *)
THEOREM PageTablesTyped == Layout => (Spec => []TypeOK)
<1>1. Layout /\ PageInv => TypeOK
  <2> SUFFICES ASSUME Layout, PageInv PROVE TypeOK
    OBVIOUS
  <2>1. mem \in [Frames -> [0..Entries-1 -> Word]]
    BY DEF PageInv, Tables, Memories
  <2>2. HeapNext \in 0..FrameCount /\ m_dir \in Frames /\ cr3 \in {0, m_dir}
    BY Constants DEF PageInv, Tables, Frames, Layout
  <2>3. pool \subseteq Frames
    BY <2>2, Constants DEF PageInv, Frames
  <2>4. booted \in 0..Entries-1 /\ high \in BOOLEAN
    BY DEF PageInv
  <2>5. QED BY <2>1, <2>2, <2>3, <2>4 DEF TypeOK
<1>2. QED BY <1>1, TablesHold, LayoutStays, PTL

(* BootPageAllocator and vmm::Init: the directory and each table have a    *)
(* frame of their own, below the end of the boot heap, that the page       *)
(* allocator does not hand out.                                            *)
THEOREM TablesStayApart == Layout => (Spec => []TablesApart)
<1>1. Layout /\ PageInv => TablesApart
  <2> SUFFICES ASSUME Layout, PageInv PROVE TablesApart
    OBVIOUS
  <2>1. m_dir = HeapStart /\ Tables(mem, HeapNext) /\ pool \subseteq HeapNext..Entries-1
    BY DEF PageInv
  <2>2. ASSUME NEW i \in 0..Entries-1, NEW j \in 0..Entries-1,
               mem[m_dir][i].present, mem[m_dir][j].present,
               mem[m_dir][i].frame = mem[m_dir][j].frame
        PROVE  i = j
    BY ONLY <2>1, <2>2 DEF Tables
  <2>3. ASSUME NEW f \in TableFrames PROVE f \in HeapStart..HeapNext-1
    <3>1. HeapNext \in HeapStart+1..HeapStart+3
      BY <2>1 DEF Tables
    <3>2. CASE f = HeapStart
      BY <3>1, <3>2, Constants
    <3>3. CASE f # HeapStart
      <4>1. PICK i \in 0..Entries-1 : mem[HeapStart][i].present /\ f = mem[HeapStart][i].frame
        BY <2>1, <3>3 DEF TableFrames
      <4>2. f \in HeapStart+1..HeapNext-1
        BY <2>1, <4>1, MadeTable
      <4>3. QED BY <3>1, <4>2, Constants
    <3>4. QED BY <3>2, <3>3
  <2>4. ASSUME NEW f \in TableFrames PROVE f \notin pool
    BY <2>1, <2>3, Constants DEF Tables
  <2>5. QED BY <2>2, <2>3, <2>4 DEF TablesApart
<1>2. QED BY <1>1, TablesHold, LayoutStays, PTL

(* Preinit: when paging is turned on, every page of the identity map but   *)
(* the null page is there, the tables among them, and the kernel is where  *)
(* it was linked to, for the kernel only.                                  *)
THEOREM KernelIsReachable == Layout => (Spec => KernelReachable)
<1> DEFINE Ready ==
      /\ Walk(0) = Unmapped
      /\ \A f \in 1..Entries-1 :
           Walk(f) = [frame |-> f, write |-> TRUE, user |-> FALSE]
      /\ TableFrames \subseteq 1..Entries-1
      /\ \A f \in KernelStart..KernelLast-1 : Walk(KernelBase + f).frame = f
      /\ \A v \in VirtualPages : ~Walk(v).user
<1>1. Layout /\ PageInv /\ [Next]_vars => (cr3' # cr3 => Ready)
  <2> SUFFICES ASSUME Layout, PageInv, [Next]_vars, cr3' # cr3 PROVE Ready
    OBVIOUS
  <2>1. MakeActive
    BY DEF Next, vars, MapToItself, MapToHighHalf, MapPage, VmmInit, MapPages, MapUnaligned,
           UnmapPage, GetPhysicalPageFor, OwnerWrites
  <2>2. booted = Entries - 1 /\ ~high /\ cr3 = 0
    BY <2>1 DEF MakeActive
  <2>3. BootMapped(mem) /\ m_dir = HeapStart /\ Tables(mem, HeapNext)
    BY <2>2 DEF PageInv
  <2>4. \A v : Walk(v) = WalkIn(mem, v)
    BY <2>3 DEF Walk, WalkIn
  <2>5. Walk(0) = Unmapped
    BY <2>3, <2>4 DEF BootMapped
  <2>6. \A f \in 1..Entries-1 : Walk(f) = [frame |-> f, write |-> TRUE, user |-> FALSE]
    BY <2>2, <2>3, <2>4 DEF BootMapped
  <2>7. TableFrames \subseteq 1..Entries-1
    <3> SUFFICES ASSUME NEW f \in TableFrames PROVE f \in 1..Entries-1
      OBVIOUS
    <3>1. CASE f = HeapStart
      BY <3>1, Constants DEF Layout
    <3>2. CASE f # HeapStart
      <4>1. PICK i \in 0..Entries-1 : mem[HeapStart][i].present /\ f = mem[HeapStart][i].frame
        BY <2>3, <3>2 DEF TableFrames
      <4>2. QED BY <2>3, <4>1, MadeTable
    <3>3. QED BY <3>1, <3>2
  <2>8. ASSUME NEW f \in KernelStart..KernelLast-1 PROVE Walk(KernelBase + f).frame = f
    <3>1. f \in KernelStart..KernelLast /\ f < booted
      BY <2>2, Constants
    <3>2. WalkIn(mem, KernelBase + f).frame = f
      BY ONLY <2>3, <3>1 DEF BootMapped
    <3>3. QED BY <2>4, <3>2
  <2>9. ASSUME NEW v \in VirtualPages PROVE ~Walk(v).user
    <3>1. ~WalkIn(mem, v).user
      <4>1. PICK j \in 0..Entries-1 : j = v \div Entries
        BY PageIndices
      <4>2. CASE mem[HeapStart][j].present
        <5>1. mem[HeapStart][j].user = FALSE
          BY <2>3, <4>2, MadeTable
        <5>2. QED BY <4>1, <5>1 DEF WalkIn, Unmapped
      <4>3. CASE ~mem[HeapStart][j].present
        BY <4>1, <4>3 DEF WalkIn, Unmapped
      <4>4. QED BY <4>2, <4>3
    <3>2. QED BY <2>4, <3>1
  <2>10. QED BY <2>5, <2>6, <2>7, <2>8, <2>9
<1> HIDE DEF Ready
<1>2. Layout => (Spec => [][cr3' # cr3 => Ready]_vars)
  BY <1>1, TablesHold, LayoutStays, PTL DEF Spec
<1>3. QED BY <1>2 DEF KernelReachable, Ready

(* doMapPage, MapPages and doUnmapPage: what the processor translates      *)
(* changes exactly as asked, and lookups agree with it, whatever the order *)
(* of calls, what fresh frames held and what owners of pages write.        *)
THEOREM PageTablesImplement == Layout => (Spec => ImplementsAddressSpace)
<1>1. Layout /\ Init => AS!Init
  <2> SUFFICES ASSUME Layout, Init PROVE AS!Init
    OBVIOUS
  <2>1. ASSUME NEW v \in VirtualPages PROVE Walk(v) = Unmapped
    <3>1. v \div Entries \in 0..Entries-1 /\ HeapStart \in Frames /\ m_dir = HeapStart
      BY PageIndices, Constants DEF Frames, Layout, Init
    <3>2. ~mem[m_dir][v \div Entries].present
      BY <3>1 DEF Init, Cleared, Zero
    <3>3. QED BY <3>2 DEF Walk
  <2>2. request = [op |-> "none"] /\ answer = "NoError"
    BY DEF Init
  <2>3. QED BY <2>1, <2>2 DEF AS!Init
<1>2. Layout /\ PageInv /\ [Next]_vars => [AS!Serve]_(AS!asVars)
  BY StepKeeps
<1>3. QED BY <1>1, <1>2, TablesHold, LayoutStays, PTL DEF Spec, ImplementsAddressSpace, AS!Spec

=============================================================================
