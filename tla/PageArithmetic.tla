--------------------------- MODULE PageArithmetic ---------------------------
(***************************************************************************)
(* Sums on the bytes of a page: the size classes of the kernel heap        *)
(* (kalloc/hash.h), which divide a slab's page, and the pages of real-mode *)
(* memory that are in use (arch/i386/src/realmem.cpp).                     *)
(***************************************************************************)
EXTENDS Integers

CONSTANTS PAGE,          \* cpu::PageSize: 4096
          HEADER,        \* sizeof(SmallSlab): 48 on i386, 56 on x86_64
          PageSize,      \* cpu::PageSize, for the first megabyte
          LOWER_1MB_PAGES \* 256

-----------------------------------------------------------------------------
(* SmallItemHash: the bucket for items of a size.  Up to 256 bytes the     *)
(* sizes go by sixteens, above that by 128, and the last is what half of a *)
(* slab's page has room for.                                               *)

MAX_PAGE_SPACE == PAGE - HEADER
MAX_ITEM_SIZE == MAX_PAGE_SPACE \div 2

HashSizeSmall(sz) == (sz + 15) \div 16 - 1
HashSizeMed(sz) == (sz + 127) \div 128 - 3
IndexSizeSmall(index) == (index + 1) * 16
IndexSizeMed(index) ==
  LET size == (index + 3) * 128
  IN IF MAX_ITEM_SIZE < size THEN MAX_ITEM_SIZE ELSE size

IndexFromSize(sz) == IF sz <= 256 THEN HashSizeSmall(sz) ELSE HashSizeMed(sz) + 16
ItemSizeFromIndex(bucket) ==
  IF bucket < 16 THEN IndexSizeSmall(bucket) ELSE IndexSizeMed(bucket - 16)
ItemCountFromIndex(bucket) == MAX_PAGE_SPACE \div ItemSizeFromIndex(bucket)
MAX_BUCKET_INDEX == IndexFromSize(MAX_ITEM_SIZE)

-----------------------------------------------------------------------------
(* The bitmap s_realMemMap.  Each function is given marks, the set of page *)
(* numbers whose bits are set.                                             *)

LOWER_1MB == LOWER_1MB_PAGES * PageSize

(* Fault variant of ReserveRealMemory: a part of a page is not counted. *)
ReserveRealMemoryWholePages(marks, addr, length) ==
  LET within == IF addr + length >= LOWER_1MB THEN LOWER_1MB - addr ELSE length
      first == addr \div PageSize
  IN IF addr >= LOWER_1MB THEN marks
     ELSE marks \cup (first..(first + within \div PageSize - 1))

(* The pages are counted as if addr were on a page boundary.               *)
ReserveRealMemory(marks, addr, length) ==
  LET within == IF addr + length >= LOWER_1MB THEN LOWER_1MB - addr ELSE length
      first == addr \div PageSize
      count == (within + PageSize - 1) \div PageSize
  IN IF addr >= LOWER_1MB THEN marks ELSE marks \cup (first..(first + count - 1))

(* The search starts behind page zero, and the map answers false for what  *)
(* is behind its end.  The page is not marked.                             *)
AllocRealMemory(marks) ==
  LET clear == (1..LOWER_1MB_PAGES) \ marks
      index == CHOOSE i \in clear : \A j \in clear : i <= j
  IN IF index >= LOWER_1MB_PAGES THEN 0 ELSE index * PageSize

ReleaseRealMemory(marks, addr) ==
  IF addr = 0 THEN marks ELSE marks \ {addr \div PageSize}
=============================================================================
