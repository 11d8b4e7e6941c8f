----------------------------- MODULE Multiboot -----------------------------
(***************************************************************************)
(* How the kernel reads what the boot loader left in memory for it: a      *)
(* structure with flags (Multiboot, mb1.cpp) or a list of tags with sizes  *)
(* (Multiboot 2, mb2.cpp).  Both fill in boot::ArgumentData over the       *)
(* guesses of InitBootInfo (preinit.cpp).                                  *)
(*                                                                         *)
(* The list of tags is [at, tags, total_size]: the address of the          *)
(* structure and the tags by their addresses.  A tag has a type, a size    *)
(* and what its type calls for; the bytes of a text have addresses too.    *)
(***************************************************************************)
EXTENDS Integers, Sequences, SequencesExt

CONSTANTS MaxMemoryEntries, MaxCommandLine

InfoHeader == 8   \* sizeof(mb2_info)
TagHeader == 8    \* sizeof(mb2_tag)

Mapping(start, length) == [Start |-> start, Length |-> length]

(* InitBootInfo.  The sizes are kilobytes, the lengths bytes. *)
Guesses ==
  [CommandLine |-> <<>>, LowMemorySizeKByte |-> 1024, HighMemorySizeKByte |-> 3072,
   MemoryMap |-> <<Mapping(0, 1024), Mapping(1024, 3072)>>, FrameBuffer |-> "none"]

FirstOf(s, n) == SubSeq(s, 1, IF n < Len(s) THEN n ELSE Len(s))

(* Fault variant of Available: the type of a record is not looked at. *)
AvailableOrNot(records) ==
  FirstOf([i \in DOMAIN records |-> records[i].range], MaxMemoryEntries)

(* Both loops over the records: those that are available, while there is   *)
(* room in the table.                                                      *)
Available(records) ==
  LET usable == SelectSeq(records, LAMBDA r : r.available)
  IN FirstOf([i \in DOMAIN usable |-> usable[i].range], MaxMemoryEntries)

-----------------------------------------------------------------------------
(* Multiboot.  A frame buffer is not read.                                 *)

(* strncpy: a text that fills the array leaves no terminator in it. *)
ParseCommandLine1(data, multi) ==
  IF "CMDLINE" \in multi.flags
  THEN [data EXCEPT !.CommandLine = FirstOf(multi.cmdline, MaxCommandLine)]
  ELSE data

ParseBasicMemoryInfo1(data, multi) ==
  IF "MEM" \in multi.flags
  THEN [data EXCEPT !.LowMemorySizeKByte = multi.mem_lower,
                    !.HighMemorySizeKByte = multi.mem_upper]
  ELSE data

ParseMemoryMap1(data, multi) ==
  IF "MMAP" \in multi.flags
  THEN [data EXCEPT !.MemoryMap = Available(multi.records)]
  ELSE data

ReadInfo1(data, multi) ==
  ParseMemoryMap1(ParseBasicMemoryInfo1(ParseCommandLine1(data, multi), multi), multi)

-----------------------------------------------------------------------------
(* Multiboot 2.                                                            *)

(* AlignCeiling of align.h.  Its mask has 32 bits, which a loader's tags,   *)
(* below 4 GB, do not notice.                                              *)
AlignCeiling8(a) == ((a + 7) \div 8) * 8

(* What is at an address; where no tag starts, it is taken for the end. *)
TagAt(info, ptr) ==
  IF ptr \in DOMAIN info.tags THEN info.tags[ptr] ELSE [type |-> "END", size |-> TagHeader]

(* The character at an address; that of other data is unknown. *)
CharAt(info, a) ==
  LET holders == {p \in DOMAIN info.tags :
                    /\ info.tags[p].type = "BOOT_CMD"
                    /\ a - p - TagHeader \in 0..(Len(info.tags[p].text) - 1)} IN
  IF holders = {} THEN "?"
  ELSE LET p == CHOOSE p \in holders : TRUE
       IN info.tags[p].text[a - p - TagHeader + 1]

(* The text is looked for as far from the tag as it is long (GetStr), and  *)
(* its last byte is left for the terminator.                               *)
ParseCommandLine2(data, info, ptr) ==
  LET size == TagAt(info, ptr).size - TagHeader
      sz == IF size < MaxCommandLine THEN size ELSE MaxCommandLine IN
  IF sz = 0 THEN data
  ELSE [data EXCEPT !.CommandLine = [i \in 1..(sz - 1) |-> CharAt(info, ptr + size + i - 1)]]

ParseTag(data, info, ptr) ==
  LET tag == TagAt(info, ptr) IN
  CASE tag.type = "BOOT_CMD" -> ParseCommandLine2(data, info, ptr)
    [] tag.type = "FRAMEBUFFER" -> [data EXCEPT !.FrameBuffer = tag.buffer]
    [] tag.type = "BASIC_MEMINFO" ->
         [data EXCEPT !.LowMemorySizeKByte = tag.mem_lower,
                      !.HighMemorySizeKByte = tag.mem_upper]
    [] tag.type = "MEMORY_MAP" -> [data EXCEPT !.MemoryMap = Available(tag.records)]
    [] OTHER -> data

(* Fault variant of TagPlaces: tags are taken to follow one another. *)
TagPlacesPacked(info) ==
  LET from[sz \in Nat, ptr \in Nat] ==
        IF sz >= info.total_size \/ TagAt(info, ptr).type = "END" THEN <<>>
        ELSE <<ptr>> \o from[sz + TagAt(info, ptr).size, ptr + TagAt(info, ptr).size]
  IN from[InfoHeader, info.at + InfoHeader]

(* The loop of ReadInfo: the tags start at multiples of eight. *)
TagPlaces(info) ==
  LET from[sz \in Nat, ptr \in Nat] ==
        LET p2 == AlignCeiling8(ptr)
            size == TagAt(info, p2).size IN
        IF sz >= info.total_size \/ TagAt(info, p2).type = "END" THEN <<>>
        ELSE <<p2>> \o from[sz + (p2 - ptr) + size, p2 + size]
  IN from[InfoHeader, info.at + InfoHeader]

ReadInfo2(data, info) ==
  FoldLeft(LAMBDA d, ptr : ParseTag(d, info, ptr), data, TagPlaces(info))
=============================================================================
