----------------------------- MODULE SlabMarks -----------------------------
(***************************************************************************)
(* One slab of the small-item heap and its Bitmap<256> of marks            *)
(* (utils/bitmap.h, kalloc/small_slab.h, small_bucket.cpp), at the level   *)
(* of machine words: the marks are an array of cells of CellBits bits, and *)
(* GetBit makes the mask of a bit by shifting an int of IntBits bits.      *)
(* Kalloc keeps the marks of a slab as a set of items; this module is why  *)
(* it may, where it may.                                                   *)
(***************************************************************************)
EXTENDS Bitmap

CONSTANT m_itemsPerSlab

(* As Bitmap<256> is used: whole cells, and room for every item.           *)
ASSUME SlabAssumption == BITS % CellBits = 0 /\ m_itemsPerSlab \in 2..BITS

VARIABLES m_items,       \* m_items[c]: the bits that are set in cell c
          m_freeCount,
          list,          \* the list of the bucket the slab is in
          used           \* the indices that callers hold

vars == <<m_items, m_freeCount, list, used>>

-----------------------------------------------------------------------------
(* The slab in its bucket.                                                 *)

(* AllocatePageObj makes the slab; Allocate sets it up and puts it to use. *)
Init == /\ m_items = ClearItems
        /\ m_freeCount = m_itemsPerSlab
        /\ list = "partial"
        /\ used = {}

(* Fault variant of Allocate: an empty slab is used as Reset left it. *)
AllocateWithoutSetup ==
  LET idx == FirstClear(m_items) IN
  /\ list # "full"
  /\ m_items' = SetBit(m_items, idx)
  /\ m_freeCount' = m_freeCount - 1
  /\ list' = IF m_freeCount = 1 THEN "full" ELSE "partial"
  /\ used' = used \cup {idx}

(* GetAvailableSlab sets an empty slab up again before Allocate uses it. *)
Allocate ==
  LET idx == FirstClear(m_items)
      free == (IF list = "empty" THEN m_itemsPerSlab ELSE m_freeCount) - 1 IN
  /\ list # "full"
  /\ m_items' = SetBit(m_items, idx)
  /\ m_freeCount' = free
  /\ list' = IF free = 0 THEN "full" ELSE "partial"
  /\ used' = used \cup {idx}

(* GetPointerIndex refuses an index outside the slab; one that is not      *)
(* marked is ignored.                                                      *)
Return(idx) ==
  LET last == m_freeCount = m_itemsPerSlab - 1 IN
  /\ idx \in used
  /\ used' = used \ {idx}
  /\ IF idx \in 0..(m_itemsPerSlab - 1) /\ TestBit(m_items, idx)
     THEN /\ m_items' = ClearBit(m_items, idx)
          /\ m_freeCount' = IF last THEN 0 ELSE m_freeCount + 1
          /\ list' = IF last THEN "empty" ELSE "partial"
     ELSE UNCHANGED <<m_items, m_freeCount, list>>

Next == Allocate \/ \E idx \in used : Return(idx)

Spec == Init /\ [][Next]_vars

-----------------------------------------------------------------------------
(* Properties.                                                             *)

TypeOK == /\ m_items \in [Cells -> SUBSET (0..(CellBits - 1))]
          /\ m_freeCount \in 0..m_itemsPerSlab
          /\ list \in {"partial", "full", "empty"}
          /\ used \subseteq 0..(BITS - 1) \cup {npos}

(* Allocate hands out an index that is inside the slab (small_bucket.cpp:  *)
(* an index that is npos or not below m_itemsPerSlab "Shouldn't happen").  *)
IndexInSlab == used \subseteq 0..(m_itemsPerSlab - 1)

Marked == {i \in 0..(BITS - 1) : i % CellBits \in m_items[i \div CellBits]}

(* The bitmap marks exactly the items that callers hold, so that the next  *)
(* item is one nobody has, and inside the slab; the count and the list     *)
(* agree with them.                                                        *)
MarksExact ==
  /\ IndexInSlab
  /\ Marked = used
  /\ m_freeCount = IF list = "empty" THEN 0 ELSE m_itemsPerSlab - Cardinality(used)
  /\ list = "full" <=> used # {} /\ m_freeCount = 0
  /\ list = "empty" => used = {}
=============================================================================
