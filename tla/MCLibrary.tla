----------------------------- MODULE MCLibrary -----------------------------
(***************************************************************************)
(* The kernel's small building blocks, one at a time: subject says which   *)
(* of them this behaviour is about, and the others keep still.             *)
(***************************************************************************)
EXTENDS SlabMarks, Sequences

CONSTANTS Nodes, nullptr

VARIABLES subject,
          m_first, m_last, m_count, top, PrevOf, NextOf, loop,      \* NodeList
          bootHeap, m_totalPages, m_free, m_freePages, held,        \* BootAllocator
          format, args, slen, fp, sbuf, s, conv, pc,                \* Printf
          call                                                      \* Library

Lists == INSTANCE NodeList

-----------------------------------------------------------------------------
Mapping(start, length) == [Start |-> start, Length |-> length]

(* None, so that the basic memory size counts; one with the kernel in it;  *)
(* one that is too short and one that is not; one that starts off a page;  *)
(* one that ends where the lower half of the addresses does.               *)
MCMemoryMaps ==
  {<<>>, <<Mapping(32, 250)>>, <<Mapping(160, 32), Mapping(192, 180)>>,
   <<Mapping(0, 64), Mapping(130, 200)>>, <<Mapping(384, 128)>>}

Boot == INSTANCE BootAllocator WITH
  Width <- 12, UintBits <- 9, PageSize <- 32, MemoryMaps <- MCMemoryMaps,
  KernelStart <- 64, KernelEnd <- 120, HighMemory <- 192, g_bootAllocatedPages <- 1,
  MaxRequest <- 3, MaxHeapPages <- 7, m_freeCount <- m_freePages

-----------------------------------------------------------------------------
Conv(text, kind, width, pad, arg) ==
  [text |-> text, kind |-> kind, width |-> width, pad |-> pad, arg |-> <<arg>>]
Plain(text, kind) ==
  [text |-> text, kind |-> kind, width |-> 0, pad |-> " ", arg |-> <<>>]

MCDirectives ==
  {Plain(<<"a">>, "literal"), Plain(<<"%", "%">>, "other"), Plain(<<"%">>, "other"),
   Conv(<<"%", "c">>, "c", 0, " ", <<"b">>),
   Conv(<<"%", "4", "s">>, "s", 4, " ", <<"x", "y">>),
   Conv(<<"%", "s">>, "s", 0, " ", <<"x", "y", "z">>),
   Conv(<<"%", "d">>, "d", 0, " ", -12),
   Conv(<<"%", "5", "d">>, "d", 5, " ", -3),
   Conv(<<"%", "+", "h", "i">>, "other", 0, " ", 7),
   Conv(<<"%", "0", "3", "u">>, "u", 3, "0", 7),
   Conv(<<"%", "l", "l", "x">>, "x", 0, " ", 171),
   Conv(<<"%", "1", "0", "X">>, "X", 10, " ", 171),
   Conv(<<"%", "l", "l", "X">>, "X", 0, " ", 700),
   Conv(<<"%", "x">>, "x", 0, " ", 700),
   Conv(<<"%", "o">>, "o", 0, " ", 9),
   Conv(<<"%", "j", "p">>, "other", 0, " ", 300),
   Conv(<<"%", "p">>, "p", 0, " ", 300)}

Format == INSTANCE Printf WITH
  Directives <- MCDirectives, MaxDirectives <- 2, Sizes <- {1, 2, 3, 4, 5, 12, 24},
  Room <- 50, IntSpan <- 1024, LongSpan <- 1048576

-----------------------------------------------------------------------------
(* Arguments of calls.                                                     *)
Strings(S, n) == UNION {[1..k -> S] : k \in 0..n}

SearchCalls ==
  {[kind |-> "search", mem |-> [a \in 2..9 |-> IF a \in 3..8 THEN m[a] ELSE 0],
    ptr |-> p, value |-> 1, sz |-> n] :
   m \in [3..8 -> 0..2], p \in {3, 4}, n \in {4, 5}}

MemoryCalls ==
  {[kind |-> "memory", mem |-> m, dst |-> d, src |-> f, sz |-> n] :
   m \in [0..4 -> 0..1], d \in 0..2, f \in 0..2, n \in 0..3}

StringCalls ==
  {[kind |-> "string", mem |-> m, dst |-> 0, src |-> 4, dsz |-> d, ssz |-> n] :
   m \in {f \in [0..7 -> 0..2] : \A a \in {2, 3, 6, 7} : f[a] # 2}, d \in 1..3, n \in 0..3}

ViewCalls ==
  {[kind |-> "view", v |-> v, w |-> w, pos |-> n] :
   v \in Strings({1, 2}, 3), w \in Strings({1, 2}, 2), n \in 0..3}

NumberCalls ==
  {[kind |-> "number", value |-> v, radix |-> r, width |-> n] :
   v \in {0, 9, 10, 15, 16, 99, 171, 255}, r \in {10, 16}, n \in {0, 4}}

LineCalls == {[kind |-> "line", line |-> l] : l \in Strings({"a", " ", "\t"}, 5)}

WordCalls == {[kind |-> "word", v |-> v, e |-> e] : v \in 0..255, e \in {0, 1, 2, 3}}

AlignCalls == {[kind |-> "align", v |-> v, sz |-> n] : v \in 0..255, n \in {8, 32}}

PointerCalls == {[kind |-> "pointer", addr |-> a, order |-> o] :
                 a \in {0, 31, 32, 100, 224}, o \in 0..15}

FlagCalls == {[kind |-> "flags", v |-> v, w |-> w] :
              v \in 0..255, w \in {0, 1, 6, 90, 128, 255}}

MemoryRanges == {r \in [Base : {0, 1, 3, 4, 5, 8, 250, 255}, Length : {0, 1, 2, 4, 5, 6}] :
                 r.Base + r.Length <= 256}

RangeCalls == {[kind |-> "range", r |-> r, s |-> t] : r \in MemoryRanges, t \in MemoryRanges}

BitmapCalls == {[kind |-> "bitmap", items |-> m, index |-> i] :
                m \in [0..1 -> SUBSET (0..(CellBits - 1))], i \in {-1, 0, 2, 3, 4, 7, 8}}

SizeCalls == {[kind |-> "size", sz |-> n] :
              n \in {1, 2} \cup UNION {{16 * k, 16 * k + 1} : k \in 1..16}
                    \cup UNION {{128 * k, 128 * k + 1} : k \in 2..15} \cup {2020}}

RealMemoryCalls ==
  {[kind |-> "realmem", marks |-> m, addr |-> a, length |-> n] :
   m \in SUBSET (1..3), a \in {0, 32, 64, 128}, n \in {1, 32, 33, 64, 200}}

(* A root at 1, tables at 2 and 3 and perhaps a large page in the root.    *)
Entry(addr) == [present |-> TRUE, large |-> FALSE, addr |-> addr, flags |-> {}]
None == [present |-> FALSE, large |-> FALSE, addr |-> 0, flags |-> {}]

MCTables ==
  {[t \in 1..3 |->
      [i \in 0..2 |->
         CASE t = 1 /\ i = 0 -> Entry(2)
           [] t = 1 /\ i = 1 -> second
           [] t = 1 /\ i = 2 -> [Entry(8) EXCEPT !.large = large, !.present = large,
                                                 !.addr = IF large THEN 8 ELSE 0]
           [] OTHER -> IF <<t, i>> \in pages THEN Entry(10 * t + i) ELSE None]] :
   pages \in SUBSET ({2, 3} \X (0..2)), second \in {Entry(3), None}, large \in BOOLEAN}

TableCalls ==
  {[kind |-> "tables", mem |-> m, root |-> 1, paddr |-> 5, vaddr |-> v,
    flags |-> {"Write", "Kernel"}] : m \in MCTables, v \in {-1, 1, 2, 4}}

(* What a loader may know: a command line of seven characters or of six,   *)
(* the sizes, records more than the table holds, and a frame buffer.  Each *)
(* of them or not, in two orders and with another tag in front or not.     *)
Record(start, length, available) ==
  [range |-> Mapping(start, length), available |-> available]

LoaderRecords ==
  {<<Record(0, 9, TRUE), Record(9, 1, FALSE), Record(16, 4, TRUE)>>,
   <<Record(8, 2, FALSE), Record(16, 4, TRUE), Record(2, 2, TRUE), Record(30, 2, TRUE)>>}

CommandLines == {<<"r", "o", " ", "q", "=", "1", "2">>, <<"r", "o", " ", "q", "=", "1">>}

LoaderCalls ==
  LET other == [type |-> "OTHER", size |-> 13]
      tags(flags, line, records) ==
        SelectSeq(<<[type |-> "BOOT_CMD", size |-> 9 + Len(line), text |-> Append(line, "0")],
                    [type |-> "FRAMEBUFFER", size |-> 38, buffer |-> "screen"],
                    [type |-> "BASIC_MEMINFO", size |-> 16, mem_lower |-> 640,
                     mem_upper |-> 7000],
                    [type |-> "MEMORY_MAP", size |-> 16 + 24 * Len(records),
                     records |-> records]>>,
                  LAMBDA t : CASE t.type = "BOOT_CMD" -> "CMDLINE" \in flags
                               [] t.type = "FRAMEBUFFER" -> "VBE" \in flags
                               [] t.type = "BASIC_MEMINFO" -> "MEM" \in flags
                               [] OTHER -> "MMAP" \in flags)
      multi(flags, line, records) ==
        [flags |-> flags, cmdline |-> line, mem_lower |-> 640, mem_upper |-> 7000,
         records |-> records] IN
  {[kind |-> "loader", multi |-> multi(flags, line, records), at |-> 16,
    tags |-> LET known == tags(flags, line, records)
                 turned == IF turn THEN [i \in DOMAIN known |-> known[Len(known) + 1 - i]]
                           ELSE known
             IN IF front THEN <<other>> \o turned ELSE turned] :
   flags \in SUBSET {"CMDLINE", "MEM", "MMAP", "VBE"}, line \in CommandLines,
   records \in LoaderRecords, turn \in BOOLEAN, front \in BOOLEAN}

MCCalls == SearchCalls \cup MemoryCalls \cup StringCalls \cup ViewCalls \cup NumberCalls
             \cup LineCalls \cup WordCalls \cup AlignCalls \cup PointerCalls \cup SizeCalls
             \cup RealMemoryCalls \cup TableCalls \cup LoaderCalls
             \cup FlagCalls \cup RangeCalls \cup BitmapCalls

Functions == INSTANCE Library WITH
  Base <- 4, WordSpan <- 256, ARGS_SZ <- 2, Width <- 8, UintBits <- 6, PageSize <- 32, PAGE <- 4096,
  HEADER <- 56, LOWER_1MB_PAGES <- 5, EntryCount <- 3, MaxLevels <- 2,
  SignPages <- 16, CanonicalPages <- 32, MaxMemoryEntries <- 2, MaxCommandLine <- 8,
  Calls <- MCCalls

-----------------------------------------------------------------------------
InitLibrary ==
  /\ subject \in {"marks", "list", "boot", "format", "functions"}
  /\ Init /\ Lists!Init /\ Boot!Init /\ Format!Init /\ Functions!Init
  /\ subject # "boot" => bootHeap.MemoryMap = <<>>
  /\ subject # "format" => format = <<>> /\ slen = 1

marksVars == <<m_items, m_freeCount, list, used>>
listVars == <<m_first, m_last, m_count, top, PrevOf, NextOf, loop>>
bootVars == <<bootHeap, m_totalPages, m_free, m_freePages, held>>
formatVars == <<format, args, slen, fp, sbuf, s, conv, pc>>

NextLibrary ==
  /\ UNCHANGED subject
  /\ \/ /\ subject = "marks" /\ Next
        /\ UNCHANGED <<listVars, bootVars, formatVars, call>>
     \/ /\ subject = "list" /\ Lists!Next
        /\ UNCHANGED <<marksVars, bootVars, formatVars, call>>
     \/ /\ subject = "boot" /\ Boot!Next
        /\ UNCHANGED <<marksVars, listVars, formatVars, call>>
     \/ /\ subject = "format" /\ Format!Next
        /\ UNCHANGED <<marksVars, listVars, bootVars, call>>
     \/ /\ subject = "functions" /\ Functions!Next
        /\ UNCHANGED <<marksVars, listVars, bootVars, formatVars>>

SpecLibrary ==
  InitLibrary /\ [][NextLibrary]_<<subject, marksVars, listVars, bootVars, formatVars, call>>

-----------------------------------------------------------------------------
(* NodeList (list.h, stack.h): linking and unlinking nodes at the ends or  *)
(* in the middle, and clearing, keep the list a sequence without doubles   *)
(* and the stack a pile.                                                   *)
ImplementsDeque == Lists!ImplementsDeque

(* NodeList: a loop over a list (list.h) visits every node that was in the *)
(* list when it began, though the node it is at may be taken out.          *)
LoopSeesAll == Lists!LoopSeesAll

(* BootAllocator (boot_allocator.cpp): a boot page has one owner at a time *)
(* and lies in memory, whatever was taken, given back and rounded.         *)
EveryPageOnce == Boot!EveryPageOnce

(* Printf (vsnprintf.c): whatever the format and the size, the text stays  *)
(* in its buffer, ends with a terminator and is what C would print.        *)
FormatsAsC == Format!FormatsAsC

(* Library: functions on text and memory (string.h, string_view,           *)
(* parse.cpp, debug.cpp) answer what their names promise and write only    *)
(* where they were told to; functions on words, sizes, marks and tables    *)
(* (bit.h, align.h, pageptr.h, hash.h, realmem.cpp and x86_64's            *)
(* page_table.cpp) are their mathematical definitions, wrapped where a     *)
(* word is.                                                                *)
FunctionsAgree == Functions!FunctionsAgree

(* Library (mb1.cpp, mb2.cpp): a loader of either kind that knows the same *)
(* tells the kernel the same.                                              *)
LoadersAgree == Functions!LoadersAgree

(* What the modules mark as not kept.                                      *)
NeverPastMapping == Boot!NeverPastMapping
UnsignedAsC == Format!UnsignedAsC
CutCopyEnds == Functions!CutCopyEnds
StrncmpOrders == Functions!StrncmpOrders
MsbIsABit == Functions!MsbIsABit
=============================================================================
