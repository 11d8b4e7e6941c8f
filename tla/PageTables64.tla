---------------------------- MODULE PageTables64 ----------------------------
(***************************************************************************)
(* The page tables of x86_64 (arch/x86_64/src/page_table.cpp).  Mapping    *)
(* works inside the tables that start.S left and the dump is written;      *)
(* AllocatePage answers zero, and unmapping and lookup say that they       *)
(* failed.  The tables are in memory: mem[t][i] is entry i of the table at *)
(* t, and addresses are counted in pages.                                  *)
(***************************************************************************)
EXTENDS Integers, Sequences, SequencesExt

CONSTANTS EntryCount,          \* 512
          MaxLevels,           \* 4
          SignPages,           \* 0x0000'8000'0000'000 in pages: 2^31
          CanonicalPages       \* 2^47 bytes in pages: 2^35

NotPresent == [present |-> FALSE, large |-> FALSE, addr |-> 0, flags |-> {}]

(* A write or execute mapping is writable; what is not the kernel's is the *)
(* user's.                                                                 *)
MapToEntryFlags(flags) ==
  (IF flags \cap {"Write", "Execute"} # {} THEN {"Writable"} ELSE {})
    \cup (IF "Kernel" \in flags THEN {} ELSE {"User"})

EntryPages(depth) == EntryCount ^ depth
Index(vaddr, depth) == (vaddr \div EntryPages(depth)) % EntryCount

(* The last table on the way down from the root, or 0 where AllocatePage   *)
(* would have to make one: the assertion panics.  A large page is taken    *)
(* for a table; callers map no page inside one.                            *)
LastTable(mem, root, vaddr) ==
  LET at[depth \in 0..(MaxLevels - 1)] ==
        IF depth = MaxLevels - 1 THEN root
        ELSE IF at[depth + 1] = 0 THEN 0
        ELSE mem[at[depth + 1]][Index(vaddr, depth + 1)].addr
  IN at[0]

(* MapSinglePage, where it does not panic.                                 *)
doMapPage(mem, root, paddr, vaddr, flags) ==
  [mem EXCEPT ![LastTable(mem, root, vaddr)][Index(vaddr, 0)] =
     [present |-> TRUE, large |-> FALSE, addr |-> paddr, flags |-> MapToEntryFlags(flags)]]

doUnmapPage(mem) == [error |-> "Unknown", mem |-> mem]
doGetPhysicalPageFor(vaddr) == 0

(* The order in which VisitLevel comes to entries that are absent or       *)
(* pages, with the pages each stands for.                                  *)
Visited(mem, root) ==
  LET below[depth \in 0..(MaxLevels - 1)] ==
        [t \in DOMAIN mem |->
           FlattenSeq([j \in 1..EntryCount |->
             LET entry == mem[t][j - 1] IN
             IF entry.present /\ depth > 0 /\ ~entry.large
             THEN below[depth - 1][entry.addr]
             ELSE <<[present |-> entry.present, size |-> EntryPages(depth)]>>])]
  IN below[MaxLevels - 1][root]

(* The address shown: the bit that is looked at is bit 43, not 47.         *)
Shown(offset) == IF (offset \div SignPages) % 2 = 1
                 THEN (offset % CanonicalPages) - CanonicalPages ELSE offset

(* doDump and PrintState: the spans that are told.                         *)
doDump(mem, root) ==
  LET start == [offset |-> 0, inSpan |-> FALSE, span |-> [start |-> 0, size |-> 0], told |-> <<>>]
      PrintState(state) == IF state.inSpan THEN Append(state.told, state.span) ELSE state.told
      visit(state, item) ==
        LET next == [state EXCEPT !.offset = @ + item.size] IN
        IF ~item.present THEN [next EXCEPT !.inSpan = FALSE, !.told = PrintState(state)]
        ELSE IF state.inSpan THEN [next EXCEPT !.span.size = @ + item.size]
        ELSE [next EXCEPT !.inSpan = TRUE,
                          !.span = [start |-> Shown(state.offset), size |-> item.size]]
  IN PrintState(FoldLeft(visit, start, Visited(mem, root)))
=============================================================================
