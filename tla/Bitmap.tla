------------------------------- MODULE Bitmap -------------------------------
(***************************************************************************)
(* Bitmap<BITS> (utils/bitmap.h): an array of cells of CellBits bits, each *)
(* here the set of its bits that are set.  A bitmap of whole cells, one of *)
(* a single cell and one smaller than a cell are tested by a BitBlockTest  *)
(* of their own.                                                           *)
(***************************************************************************)
EXTENDS Integers, FiniteSets

CONSTANTS CellBits,      \* bits of BitmapTraits::CellType: 32 on i386, 64 on x86_64
          IntBits,       \* bits of int: 32 on both
          BITS

ASSUME BitmapAssumption ==
  CellBits \in Nat \ {0} /\ IntBits \in Nat \ {0} /\ BITS \in Nat \ {0}

ExtraBitCount == BITS % CellBits
MinCellCount == BITS \div CellBits
ArraySize == MinCellCount + (IF ExtraBitCount # 0 THEN 1 ELSE 0)

Cells == 0..(ArraySize - 1)
npos == -1                               \* (size_t)-1, above every index

ClearItems == [c \in Cells |-> {}]

-----------------------------------------------------------------------------
(* One bit.                                                                *)

(* Fault variant of GetBit: every cell has the mask of the first one. *)
GetBitUnmasked(index) == {index} \cap (0..(CellBits - 1))

(* The bits of 1 << (index & (CellBits - 1)): the processor shifts by the  *)
(* count modulo the width of an int, and an int with its top bit set is    *)
(* sign-extended when it is converted to a wider cell.                     *)
GetBit(index) ==
  LET shift == (index % CellBits) % IntBits
  IN IF shift = IntBits - 1 THEN shift..(CellBits - 1) ELSE {shift}

Operated(items, index, cell) ==
  IF index \in 0..(BITS - 1) THEN [items EXCEPT ![index \div CellBits] = cell] ELSE items

SetBit(items, index) ==
  Operated(items, index, items[index \div CellBits] \cup GetBit(index))
ClearBit(items, index) ==
  Operated(items, index, items[index \div CellBits] \ GetBit(index))
FlipBit(items, index) ==
  LET old == items[index \div CellBits]
  IN Operated(items, index, (old \ GetBit(index)) \cup (GetBit(index) \ old))

TestBit(items, index) ==
  index \in 0..(BITS - 1) /\ items[index \div CellBits] \cap GetBit(index) # {}

-----------------------------------------------------------------------------
(* All of them.                                                            *)
WholeCells == 0..(MinCellCount - 1)
CellRange == 0..(CellBits - 1)
Unset(items) == [c \in Cells |-> CellRange \ items[c]]

(* One-based, and zero for a cell without bits (math/bit.h).               *)
lsb_index(bits) == IF bits = {} THEN 0
                   ELSE 1 + CHOOSE i \in bits : \A j \in bits : i <= j

(* The mask of the bits in use in a last cell, and the bits of their       *)
(* number, which the tests of a bitmap with such a cell use in its place.  *)
ExtraBitMask == 0..(ExtraBitCount - 1)
ExtraCountMask == {i \in CellRange : (ExtraBitCount \div 2 ^ i) % 2 = 1}

AllClear(items) ==
  IF BITS <= CellBits THEN items[0] = {}
  ELSE /\ \A c \in WholeCells : items[c] = {}
       /\ ArraySize # MinCellCount => items[MinCellCount] \cap ExtraCountMask = {}

(* The single cell is compared with UINT32_MAX.                            *)
AllSet(items) ==
  IF BITS = CellBits THEN items[0] = 0..(IntBits - 1)
  ELSE IF BITS < CellBits THEN ExtraBitMask \subseteq items[0]
  ELSE /\ \A c \in WholeCells : items[c] = CellRange
       /\ ArraySize # MinCellCount => ExtraCountMask \subseteq items[MinCellCount]

FirstOfMany(items) ==
  LET c == CHOOSE c \in WholeCells : /\ items[c] # {}
                                     /\ \A d \in 0..(c - 1) : items[d] = {}
      pos == lsb_index(items[MinCellCount]) IN
  IF \E d \in WholeCells : items[d] # {} THEN c * CellBits + (lsb_index(items[c]) - 1)
  ELSE IF ArraySize # MinCellCount /\ pos <= ExtraBitCount
  THEN MinCellCount * CellBits + (pos - 1)
  ELSE npos

FirstOfCell(items) == lsb_index(items[0]) - 1

FirstOfShort(items) ==
  LET pos == lsb_index(items[0]) IN IF pos < BITS THEN pos - 1 ELSE npos

FirstIn(items) == IF BITS = CellBits THEN FirstOfCell(items)
                  ELSE IF BITS < CellBits THEN FirstOfShort(items) ELSE FirstOfMany(items)

FirstSet(items) == FirstIn(items)
FirstClear(items) == FirstIn(Unset(items))
=============================================================================
