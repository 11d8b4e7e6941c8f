-------------------------- MODULE SlabMarksProofs ---------------------------
(***************************************************************************)
(* The marks of a slab are exact, for every size of cell, bitmap and slab: *)
(* where the mask GetBit makes is as wide as a cell (i386), the bitmap     *)
(* marks exactly the items that callers hold.                              *)
(***************************************************************************)
EXTENDS SlabMarks, FiniteSetTheorems, WellFoundedInduction, TLAPS

-----------------------------------------------------------------------------
(* Numbers.                                                                *)

(* A set of natural numbers that is not empty has a least one. *)
LEMMA LeastNatural ==
  ASSUME NEW T \in SUBSET Nat, T # {}
  PROVE  \E x \in T : \A y \in T : x <= y
<1>1. PICK x \in T : \A y \in T : ~(<<y, x>> \in OpToRel(<, Nat))
  BY WFMin, NatLessThanWellFounded
<1>2. \A y \in T : <<y, x>> \in OpToRel(<, Nat) <=> y < x
  BY ZenonT(30) DEF OpToRel
<1>3. \A y \in T : ~(y < x)
  BY ONLY <1>1, <1>2, ZenonT(30)
<1>4. \A y \in T : y \in Nat
  OBVIOUS
<1>5. \A y \in T : x <= y
  BY ONLY <1>3, <1>4, x \in T, SMT
<1> QED BY ONLY <1>5, x \in T

(* Quotient and remainder. *)
LEMMA Division ==
  ASSUME NEW i \in Nat, NEW c \in Nat \ {0}
  PROVE  /\ i \div c \in Nat /\ i % c \in 0..(c - 1)
         /\ i = c * (i \div c) + (i % c)
  BY SMT

(* A number made of a quotient and a remainder has those. *)
LEMMA Recomposed ==
  ASSUME NEW c \in Nat \ {0}, NEW q \in Nat, NEW r \in 0..(c - 1)
  PROVE  ((c * q) + r) \div c = q /\ ((c * q) + r) % c = r
  BY SMT

(* The remainder does not reach the next multiple. *)
LEMMA ProductGrows ==
  ASSUME NEW c \in Nat \ {0}, NEW q \in Nat, NEW n \in Nat, NEW r \in 0..(c - 1)
  PROVE  (c * q) + r < c * n <=> q < n
<1>1. CASE q < n
  <2>1. PICK d \in Nat : n = q + 1 + d
    <3>1. n - q - 1 \in Nat /\ n = q + 1 + (n - q - 1)
      BY <1>1
    <3> QED BY <3>1
  <2>2. c * n = c * q + c + c * d /\ c * d \in Nat
    BY <2>1
  <2> QED BY <1>1, <2>2
<1>2. CASE ~(q < n)
  <2>1. PICK d \in Nat : q = n + d
    <3>1. q - n \in Nat /\ q = n + (q - n)
      BY <1>2
    <3> QED BY <3>1
  <2>2. c * q = c * n + c * d /\ c * d \in Nat
    BY <2>1
  <2> QED BY <1>2, <2>2
<1> QED BY <1>1, <1>2

-----------------------------------------------------------------------------
(* The bits of a bitmap of whole cells.                                    *)

(* A slab's bitmap is a whole number of cells, with room for its items. *)
LEMMA Shape ==
  /\ CellBits \in Nat \ {0} /\ IntBits \in Nat \ {0} /\ BITS \in Nat \ {0}
  /\ MinCellCount \in Nat \ {0} /\ ArraySize = MinCellCount /\ ExtraBitCount = 0
  /\ BITS = CellBits * MinCellCount
  /\ WholeCells = Cells /\ Cells = 0..(MinCellCount - 1)
  /\ m_itemsPerSlab \in 2..BITS
<1>1. /\ CellBits \in Nat \ {0} /\ IntBits \in Nat \ {0} /\ BITS \in Nat \ {0}
      /\ ExtraBitCount = 0 /\ m_itemsPerSlab \in 2..BITS
  BY BitmapAssumption, SlabAssumption DEF ExtraBitCount
<1>2. /\ MinCellCount \in Nat /\ BITS = CellBits * MinCellCount + ExtraBitCount
  BY <1>1, Division DEF MinCellCount, ExtraBitCount
<1>3. BITS = CellBits * MinCellCount /\ MinCellCount # 0
  BY <1>1, <1>2
<1> QED BY <1>1, <1>2, <1>3 DEF ArraySize, WholeCells, Cells

(* Each bit is in a cell. *)
LEMMA PlaceOfBit ==
  ASSUME NEW i \in 0..(BITS - 1)
  PROVE  /\ i \div CellBits \in Cells /\ i % CellBits \in CellRange
         /\ i = CellBits * (i \div CellBits) + (i % CellBits)
<1>. i \in Nat /\ CellBits \in Nat \ {0}
  BY Shape
<1>1. /\ i \div CellBits \in Nat /\ i % CellBits \in 0..(CellBits - 1)
      /\ i = CellBits * (i \div CellBits) + (i % CellBits)
  BY Division
<1>2. i \div CellBits < MinCellCount
  BY <1>1, Shape, ProductGrows
<1> QED BY <1>1, <1>2, Shape DEF CellRange

(* Each place in a cell is a bit's, and only that bit's. *)
LEMMA BitOfPlace ==
  ASSUME NEW c \in Cells, NEW r \in CellRange
  PROVE  /\ (CellBits * c) + r \in 0..(BITS - 1)
         /\ ((CellBits * c) + r) \div CellBits = c
         /\ ((CellBits * c) + r) % CellBits = r
<1>1. c \in Nat /\ c < MinCellCount /\ r \in 0..(CellBits - 1)
  BY Shape DEF CellRange
<1>2. (CellBits * c) + r < BITS
  BY <1>1, Shape, ProductGrows
<1>3. CellBits * c \in Nat
  BY <1>1, Shape
<1> QED BY <1>1, <1>2, <1>3, Shape, Recomposed

(* The mask of a bit is that bit, where an int is as wide as a cell. *)
LEMMA MaskIsBit ==
  ASSUME CellBits <= IntBits, NEW i \in 0..(BITS - 1)
  PROVE  GetBit(i) = {i % CellBits}
<1> DEFINE r == i % CellBits
<1>1. r \in 0..(CellBits - 1) /\ CellBits \in Nat \ {0} /\ IntBits \in Nat \ {0}
  BY PlaceOfBit, Shape DEF CellRange
<1>2. r % IntBits = r
  BY <1>1
<1>3. r = IntBits - 1 => r..(CellBits - 1) = {r}
  BY <1>1
<1> QED BY <1>1, <1>2, <1>3 DEF GetBit

(* Bitmaps, cell by cell. *)
Bits == [Cells -> SUBSET CellRange]

(* The bits that are set, by their index in the bitmap. *)
MarkedIn(items) == {i \in 0..(BITS - 1) : i % CellBits \in items[i \div CellBits]}

(* Bitmap::Set marks one bit and no other. *)
LEMMA SetMarks ==
  ASSUME CellBits <= IntBits, NEW items \in Bits, NEW i \in 0..(BITS - 1)
  PROVE  SetBit(items, i) \in Bits /\ MarkedIn(SetBit(items, i)) = MarkedIn(items) \cup {i}
<1> DEFINE c == i \div CellBits
           r == i % CellBits
<1>1. c \in Cells /\ r \in CellRange /\ i = (CellBits * c) + r
  BY PlaceOfBit
<1>2. SetBit(items, i) = [items EXCEPT ![c] = items[c] \cup {r}]
  BY MaskIsBit DEF SetBit, Operated
<1>3. SetBit(items, i) \in Bits
  BY <1>1, <1>2 DEF Bits
<1>4. ASSUME NEW j \in 0..(BITS - 1)
      PROVE  j \in MarkedIn(SetBit(items, i)) <=> j \in MarkedIn(items) \/ j = i
  <2>1. /\ j \div CellBits \in Cells /\ j % CellBits \in CellRange
        /\ j = (CellBits * (j \div CellBits)) + (j % CellBits)
    BY PlaceOfBit
  <2>2. CASE j \div CellBits = c
    <3>1. SetBit(items, i)[j \div CellBits] = items[j \div CellBits] \cup {r}
      BY <1>1, <1>2, <2>2 DEF Bits
    <3>2. j % CellBits = r <=> j = i
      BY <1>1, <2>1, <2>2
    <3> QED BY <3>1, <3>2 DEF MarkedIn
  <2>3. CASE j \div CellBits # c
    <3>1. SetBit(items, i)[j \div CellBits] = items[j \div CellBits] /\ j # i
      BY <1>1, <1>2, <2>1, <2>3 DEF Bits
    <3> QED BY <3>1 DEF MarkedIn
  <2> QED BY <2>2, <2>3
<1>5. MarkedIn(SetBit(items, i)) \subseteq 0..(BITS - 1) /\ MarkedIn(items) \subseteq 0..(BITS - 1)
  BY DEF MarkedIn
<1> QED BY <1>3, <1>4, <1>5

(* Bitmap::Clear takes one mark away and no other. *)
LEMMA ClearMarks ==
  ASSUME CellBits <= IntBits, NEW items \in Bits, NEW i \in 0..(BITS - 1)
  PROVE  ClearBit(items, i) \in Bits /\ MarkedIn(ClearBit(items, i)) = MarkedIn(items) \ {i}
<1> DEFINE c == i \div CellBits
           r == i % CellBits
<1>1. c \in Cells /\ r \in CellRange /\ i = (CellBits * c) + r
  BY PlaceOfBit
<1>2. ClearBit(items, i) = [items EXCEPT ![c] = items[c] \ {r}]
  BY MaskIsBit DEF ClearBit, Operated
<1>3. ClearBit(items, i) \in Bits
  BY <1>1, <1>2 DEF Bits
<1>4. ASSUME NEW j \in 0..(BITS - 1)
      PROVE  j \in MarkedIn(ClearBit(items, i)) <=> j \in MarkedIn(items) /\ j # i
  <2>1. /\ j \div CellBits \in Cells /\ j % CellBits \in CellRange
        /\ j = (CellBits * (j \div CellBits)) + (j % CellBits)
    BY PlaceOfBit
  <2>2. CASE j \div CellBits = c
    <3>1. ClearBit(items, i)[j \div CellBits] = items[j \div CellBits] \ {r}
      BY <1>1, <1>2, <2>2 DEF Bits
    <3>2. j % CellBits = r <=> j = i
      BY <1>1, <2>1, <2>2
    <3> QED BY <3>1, <3>2 DEF MarkedIn
  <2>3. CASE j \div CellBits # c
    <3>1. ClearBit(items, i)[j \div CellBits] = items[j \div CellBits] /\ j # i
      BY <1>1, <1>2, <2>1, <2>3 DEF Bits
    <3> QED BY <3>1 DEF MarkedIn
  <2> QED BY <2>2, <2>3
<1>5. MarkedIn(ClearBit(items, i)) \subseteq 0..(BITS - 1) /\ MarkedIn(items) \subseteq 0..(BITS - 1)
  BY DEF MarkedIn
<1> QED BY <1>3, <1>4, <1>5

(* Bitmap's operator [] tells the bits that are set. *)
LEMMA TestIsMarked ==
  ASSUME CellBits <= IntBits, NEW items, NEW i \in 0..(BITS - 1)
  PROVE  TestBit(items, i) <=> i \in MarkedIn(items)
BY MaskIsBit DEF TestBit, MarkedIn

-----------------------------------------------------------------------------
(* The search for the first clear bit.                                     *)

(* math::lsb_index counts the least bit from one, and answers 0 for none. *)
LEMMA LowestBit ==
  ASSUME NEW bits \in SUBSET CellRange
  PROVE  /\ bits = {} => lsb_index(bits) = 0
         /\ bits # {} => /\ lsb_index(bits) - 1 \in bits
                         /\ \A j \in bits : lsb_index(bits) - 1 <= j
<1>1. bits \in SUBSET Nat
  BY Shape DEF CellRange
<1>2. CASE bits = {}
  BY <1>2 DEF lsb_index
<1>3. CASE bits # {}
  <2>1. \E i \in bits : \A j \in bits : i <= j
    BY <1>1, <1>3, LeastNatural
  <2>2. PICK i \in bits : i = (CHOOSE k \in bits : \A j \in bits : k <= j) /\ \A j \in bits : i <= j
    BY <2>1
  <2>3. lsb_index(bits) = 1 + i
    BY <1>3, <2>2 DEF lsb_index
  <2>4. lsb_index(bits) - 1 = i
    BY <1>1, <2>3
  <2> QED BY <1>3, <2>2, <2>4
<1> QED BY <1>2, <1>3

(* Every item below the one found is in use; where none is found all are.  *)
LEMMA FirstClearIsLeast ==
  ASSUME NEW items \in Bits
  PROVE  \/ FirstClear(items) = npos /\ MarkedIn(items) = 0..(BITS - 1)
         \/ /\ FirstClear(items) \in 0..(BITS - 1) \ MarkedIn(items)
            /\ 0..(FirstClear(items) - 1) \subseteq MarkedIn(items)
<1> DEFINE un == Unset(items)
<1>0. \A c \in Cells : un[c] = CellRange \ items[c] /\ un[c] \in SUBSET CellRange
  BY DEF Unset
<1>1. CASE \A d \in Cells : un[d] = {}
  <2>1. FirstClear(items) = npos
    <3>1. CASE BITS = CellBits
      <4>1. 0 \in Cells
        BY Shape
      <4>2. lsb_index(un[0]) = 0
        BY <1>1, <4>1 DEF lsb_index
      <4> QED BY <3>1, <4>2 DEF FirstClear, FirstIn, FirstOfCell, npos
    <3>2. CASE BITS # CellBits
      <4>1. ~(BITS < CellBits)
        <5>1. CellBits * MinCellCount >= CellBits
          BY Shape, ProductGrows
        <5> QED BY <5>1, Shape
      <4> QED BY <1>1, <3>2, <4>1, Shape DEF FirstClear, FirstIn, FirstOfMany
    <3> QED BY <3>1, <3>2
  <2>2. ASSUME NEW i \in 0..(BITS - 1) PROVE i \in MarkedIn(items)
    BY <1>0, <1>1, PlaceOfBit DEF MarkedIn
  <2> QED BY <2>1, <2>2 DEF MarkedIn
<1>2. CASE \E d \in Cells : un[d] # {}
  <2>1. PICK c \in Cells : un[c] # {} /\ \A d \in 0..(c - 1) : un[d] = {}
    <3> DEFINE T == {d \in Cells : un[d] # {}}
    <3>1. T \in SUBSET Nat /\ T # {}
      BY <1>2, Shape
    <3>2. PICK c \in T : \A d \in T : c <= d
      <4> HIDE DEF T
      <4> QED BY <3>1, LeastNatural
    <3>3. ASSUME NEW d \in 0..(c - 1) PROVE un[d] = {}
      <4>1. d \in Cells /\ ~(c <= d)
        BY <3>1, <3>2, Shape
      <4> QED BY <3>2, <4>1
    <3> QED BY <3>2, <3>3
  <2>2. un[c] \in SUBSET CellRange /\ lsb_index(un[c]) - 1 \in un[c]
        /\ \A j \in un[c] : lsb_index(un[c]) - 1 <= j
    BY <1>0, <2>1, LowestBit
  <2> DEFINE r == lsb_index(un[c]) - 1
  <2>3. FirstClear(items) = (c * CellBits) + r
    <3>1. CASE BITS = CellBits
      <4>1. c = 0
        BY <3>1, Shape
      <4> QED BY <2>2, <3>1, <4>1, Shape DEF FirstClear, FirstIn, FirstOfCell, CellRange
    <3>2. CASE BITS # CellBits
      <4>1. ~(BITS < CellBits)
        <5>1. CellBits * MinCellCount >= CellBits
          BY Shape
        <5> QED BY <5>1, Shape
      <4>2. \A d \in WholeCells : un[d] # {} /\ (\A e \in 0..(d - 1) : un[e] = {}) => d = c
        BY <2>1, Shape
      <4>3. (CHOOSE d \in WholeCells : un[d] # {} /\ \A e \in 0..(d - 1) : un[e] = {}) = c
        BY <2>1, <4>2, Shape
      <4>4. \E d \in WholeCells : un[d] # {}
        BY <2>1, Shape
      <4> QED BY <3>2, <4>1, <4>3, <4>4 DEF FirstClear, FirstIn, FirstOfMany
    <3> QED BY <3>1, <3>2
  <2>4. r \in CellRange /\ r \notin items[c]
    BY <1>0, <2>2
  <2>5. /\ FirstClear(items) \in 0..(BITS - 1)
        /\ FirstClear(items) \div CellBits = c /\ FirstClear(items) % CellBits = r
    <3>1. c * CellBits = CellBits * c
      BY Shape
    <3> HIDE DEF r
    <3> QED BY <2>3, <2>4, <3>1, BitOfPlace
  <2>6. FirstClear(items) \notin MarkedIn(items)
    BY <2>4, <2>5 DEF MarkedIn
  <2>7. ASSUME NEW j \in 0..(FirstClear(items) - 1)
        PROVE  j \in MarkedIn(items)
    <3> DEFINE d == j \div CellBits
    <3>1. j \in 0..(BITS - 1) /\ j < FirstClear(items)
      <4> HIDE DEF d, r
      <4>1. FirstClear(items) \in 0..(BITS - 1) /\ BITS \in Nat
        BY <2>5, Shape
      <4> QED BY <4>1
    <3>2. d \in Cells /\ j % CellBits \in CellRange /\ j = (CellBits * d) + (j % CellBits)
      BY <3>1, PlaceOfBit
    <3>3. FirstClear(items) = (CellBits * c) + r /\ r \in Nat /\ c \in Nat
      BY <2>3, <2>4, Shape DEF CellRange
    <3>4. d < c \/ (d = c /\ j % CellBits < r)
      <4>1. CASE d < c
        BY <4>1
      <4>2. CASE d = c
        BY <3>1, <3>2, <3>3, <4>2, Shape DEF CellRange
      <4>3. CASE c < d
        <5>1. r \in 0..(CellBits - 1) /\ c \in Nat /\ d \in Nat
          BY <2>4, <3>2, <3>3, Shape DEF CellRange
        <5>2. (CellBits * c) + r < CellBits * d
          BY <4>3, <5>1, Shape, ProductGrows
        <5>3. PICK mine, other, rest : mine = (CellBits * c) + r /\ other = CellBits * d
                                       /\ rest = j % CellBits
          OBVIOUS
        <5>4. FirstClear(items) = mine /\ j = other + rest /\ j < FirstClear(items)
          BY <3>1, <3>2, <3>3, <5>3
        <5>5. rest \in Nat
          BY <3>2, <5>3, Shape DEF CellRange
        <5>6. mine < other
          BY <5>2, <5>3
        <5>7. mine \in Nat /\ other \in Nat
          <6>1. CellBits \in Nat
            BY Shape
          <6> HIDE DEF d, r
          <6> QED BY ONLY <5>1, <5>3, <6>1
        <5> QED BY ONLY <5>4, <5>5, <5>6, <5>7
      <4> QED BY <3>2, <3>3, <4>1, <4>2, <4>3, Shape
    <3>5. CASE d < c
      <4>1. un[d] = {}
        <5> HIDE DEF d, un
        <5>1. c \in Nat /\ d \in Nat
          BY <3>2, Shape
        <5> QED BY <2>1, <3>5, <5>1
      <4> QED BY <1>0, <3>1, <3>2, <4>1 DEF MarkedIn
    <3>6. CASE d = c /\ j % CellBits < r
      <4>1. j % CellBits \notin un[c]
        BY <2>2, <3>2, <3>3, <3>6 DEF CellRange
      <4> QED BY <1>0, <3>1, <3>2, <3>6, <4>1 DEF MarkedIn
    <3> QED BY <3>4, <3>5, <3>6
  <2> QED BY <2>5, <2>6, <2>7
<1> QED BY <1>1, <1>2

-----------------------------------------------------------------------------
(* The slab.                                                               *)

(* The inductive invariant: the property, with its types. *)
SlabInv ==
  /\ m_items \in Bits
  /\ IsFiniteSet(used)
  /\ list \in {"partial", "full", "empty"}
  /\ MarksExact

(* The marks of the slab. *)
LEMMA MarkedIsMarkedIn == Marked = MarkedIn(m_items)
  BY DEF Marked, MarkedIn

(* Setup leaves no mark and all items free. *)
LEMMA InitMarks == Init => SlabInv
<1> SUFFICES ASSUME Init PROVE SlabInv
  OBVIOUS
<1>1. m_items \in Bits /\ \A c \in Cells : m_items[c] = {}
  BY DEF Init, ClearItems, Bits
<1>2. MarkedIn(m_items) = {}
  BY <1>1, PlaceOfBit DEF MarkedIn
<1>3. IsFiniteSet(used) /\ Cardinality(used) = 0
  BY FS_EmptySet DEF Init
<1> QED BY <1>1, <1>2, <1>3, MarkedIsMarkedIn, Shape DEF Init, SlabInv, MarksExact, IndexInSlab

(* There is room in a slab that is not full, and the item found is the     *)
(* slab's and nobody's.                                                    *)
LEMMA RoomForItem ==
  ASSUME SlabInv, list # "full"
  PROVE  /\ FirstClear(m_items) \in 0..(m_itemsPerSlab - 1) \ used
         /\ Cardinality(used) \in 0..(m_itemsPerSlab - 1)
         /\ list = "empty" => used = {}
         /\ list # "empty" => m_freeCount = m_itemsPerSlab - Cardinality(used)
<1>1. /\ used \subseteq 0..(m_itemsPerSlab - 1) /\ MarkedIn(m_items) = used /\ IsFiniteSet(used)
      /\ m_freeCount = IF list = "empty" THEN 0 ELSE m_itemsPerSlab - Cardinality(used)
      /\ list = "full" <=> used # {} /\ m_freeCount = 0
      /\ list = "empty" => used = {}
  BY MarkedIsMarkedIn DEF SlabInv, MarksExact, IndexInSlab
<1>2. m_itemsPerSlab \in Nat /\ m_itemsPerSlab > 1 /\ m_itemsPerSlab <= BITS /\ BITS \in Nat
  BY Shape
<1>3. IsFiniteSet(0..(m_itemsPerSlab - 1)) /\ Cardinality(0..(m_itemsPerSlab - 1)) = m_itemsPerSlab
  BY <1>2, FS_Interval
<1>4. Cardinality(used) \in Nat /\ Cardinality(used) <= m_itemsPerSlab
  <2>1. Cardinality(used) \in Nat
    BY ONLY <1>1, FS_CardinalityType
  <2>2. PICK whole : whole = 0..(m_itemsPerSlab - 1)
    OBVIOUS
  <2>3. IsFiniteSet(whole) /\ used \subseteq whole /\ Cardinality(whole) = m_itemsPerSlab
    BY ONLY <1>1, <1>3, <2>2
  <2>4. Cardinality(used) <= Cardinality(whole)
    BY ONLY <2>3, FS_Subset
  <2> QED BY ONLY <2>1, <2>3, <2>4
<1>5. used = {} => Cardinality(used) = 0
  BY FS_EmptySet
<1>6. Cardinality(used) # m_itemsPerSlab
  <2>1. CASE list = "empty"
    BY <1>1, <1>2, <1>5, <2>1
  <2>2. CASE list # "empty"
    BY <1>1, <1>2, <1>4, <1>5, <2>2
  <2> QED BY <2>1, <2>2
<1>7. PICK i \in 0..(m_itemsPerSlab - 1) : i \notin used
  BY <1>1, <1>3, <1>6
<1>8. FirstClear(m_items) # npos \/ MarkedIn(m_items) # 0..(BITS - 1)
  BY <1>1, <1>2, <1>7
<1>9. /\ FirstClear(m_items) \in 0..(BITS - 1) \ used
      /\ 0..(FirstClear(m_items) - 1) \subseteq used
  <2>1. MarkedIn(m_items) # 0..(BITS - 1)
    BY <1>1, <1>2, <1>7
  <2> QED BY <1>1, <2>1, FirstClearIsLeast DEF SlabInv
<1>10. FirstClear(m_items) <= i
  BY <1>2, <1>7, <1>9
<1> QED BY <1>1, <1>2, <1>4, <1>6, <1>7, <1>9, <1>10

(* Allocate keeps the invariant. *)
LEMMA AllocateKeeps ==
  ASSUME CellBits <= IntBits, SlabInv, Allocate
  PROVE  SlabInv'
<1> DEFINE idx == FirstClear(m_items)
           free == (IF list = "empty" THEN m_itemsPerSlab ELSE m_freeCount) - 1
<1>1. /\ list # "full" /\ m_items' = SetBit(m_items, idx) /\ m_freeCount' = free
      /\ list' = IF free = 0 THEN "full" ELSE "partial"
      /\ used' = used \cup {idx}
  BY DEF Allocate
<1>2. /\ idx \in 0..(m_itemsPerSlab - 1) \ used
      /\ Cardinality(used) \in 0..(m_itemsPerSlab - 1)
      /\ list = "empty" => used = {}
      /\ list # "empty" => m_freeCount = m_itemsPerSlab - Cardinality(used)
  BY <1>1, RoomForItem
<1>3. m_itemsPerSlab \in Nat /\ m_itemsPerSlab <= BITS /\ BITS \in Nat
  BY Shape
<1>4. m_items \in Bits /\ IsFiniteSet(used) /\ MarkedIn(m_items) = used
      /\ used \subseteq 0..(m_itemsPerSlab - 1)
  BY MarkedIsMarkedIn DEF SlabInv, MarksExact, IndexInSlab
<1>5. m_items' \in Bits /\ MarkedIn(m_items') = used'
  BY <1>1, <1>2, <1>3, <1>4, SetMarks
<1>6. IsFiniteSet(used') /\ Cardinality(used') = Cardinality(used) + 1
  BY <1>1, <1>2, <1>4, FS_AddElement
<1>7. free = m_itemsPerSlab - Cardinality(used')
  <2>1. CASE list = "empty"
    BY <1>2, <1>3, <1>6, <2>1, FS_EmptySet
  <2>2. CASE list # "empty"
    BY <1>2, <1>3, <1>6, <2>2
  <2> QED BY <2>1, <2>2
<1>8. used' \subseteq 0..(m_itemsPerSlab - 1) /\ used' # {}
  BY <1>1, <1>2, <1>4
<1>9. Marked' = MarkedIn(m_items')
  BY DEF Marked, MarkedIn
<1> QED BY <1>1, <1>5, <1>6, <1>7, <1>8, <1>9 DEF SlabInv, MarksExact, IndexInSlab

(* Return keeps the invariant. *)
LEMMA ReturnKeeps ==
  ASSUME CellBits <= IntBits, SlabInv, NEW idx \in used, Return(idx)
  PROVE  SlabInv'
<1> DEFINE last == m_freeCount = m_itemsPerSlab - 1
<1>1. /\ m_items \in Bits /\ IsFiniteSet(used) /\ MarkedIn(m_items) = used
      /\ used \subseteq 0..(m_itemsPerSlab - 1)
      /\ m_freeCount = m_itemsPerSlab - Cardinality(used)
      /\ list \in {"partial", "full"}
      /\ list = "full" <=> used # {} /\ m_freeCount = 0
  BY MarkedIsMarkedIn DEF SlabInv, MarksExact, IndexInSlab
<1>2. /\ m_itemsPerSlab \in Nat /\ m_itemsPerSlab > 1 /\ m_itemsPerSlab <= BITS /\ BITS \in Nat
  BY Shape
<1>3. idx \in 0..(m_itemsPerSlab - 1) /\ idx \in 0..(BITS - 1) /\ TestBit(m_items, idx)
  BY <1>1, <1>2, TestIsMarked
<1>4. /\ used' = used \ {idx} /\ m_items' = ClearBit(m_items, idx)
      /\ m_freeCount' = IF last THEN 0 ELSE m_freeCount + 1
      /\ list' = IF last THEN "empty" ELSE "partial"
  BY <1>3 DEF Return
<1>5. m_items' \in Bits /\ MarkedIn(m_items') = used'
  BY <1>1, <1>3, <1>4, ClearMarks
<1>6. IsFiniteSet(used') /\ Cardinality(used') = Cardinality(used) - 1
  BY <1>1, <1>4, FS_RemoveElement
<1>7. Cardinality(used) \in Nat /\ Cardinality(used') \in Nat
  BY <1>1, <1>6, FS_CardinalityType
<1>8. last <=> Cardinality(used') = 0
  BY <1>1, <1>2, <1>6, <1>7
<1>9. Cardinality(used') = 0 <=> used' = {}
  BY <1>6, FS_EmptySet
<1>10. used' \subseteq 0..(m_itemsPerSlab - 1)
  BY <1>1, <1>4
<1>11. Marked' = MarkedIn(m_items')
  BY DEF Marked, MarkedIn
<1>12. CASE last
  BY <1>4, <1>5, <1>6, <1>8, <1>9, <1>10, <1>11, <1>12 DEF SlabInv, MarksExact, IndexInSlab
<1>13. CASE ~last
  <2>1. m_freeCount' = m_itemsPerSlab - Cardinality(used') /\ list' = "partial"
    BY <1>1, <1>2, <1>4, <1>6, <1>7, <1>13
  <2>2. m_freeCount' # 0
    <3>1. IsFiniteSet(0..(m_itemsPerSlab - 1)) /\ Cardinality(0..(m_itemsPerSlab - 1)) = m_itemsPerSlab
      BY <1>2, FS_Interval
    <3>2. Cardinality(used) <= m_itemsPerSlab
      BY <1>1, <3>1, FS_Subset
    <3> QED BY <1>2, <1>6, <1>7, <2>1, <3>2
  <2> QED BY <1>5, <1>6, <1>10, <1>11, <2>1, <2>2 DEF SlabInv, MarksExact, IndexInSlab
<1> QED BY <1>12, <1>13

-----------------------------------------------------------------------------
(* The bitmap of a slab marks exactly the items that callers hold, and its *)
(* count and its list agree with them, after any sequence of allocations   *)
(* and releases: the code behaviour Kalloc's sets of marks stand for.  The *)
(* hypothesis is i386's: there a cell is 32 bits wide, and so is an int.   *)
THEOREM MarksAreExact ==
  ASSUME CellBits <= IntBits
  PROVE  Spec => []MarksExact
<1>1. SlabInv /\ [Next]_vars => SlabInv'
  <2> SUFFICES ASSUME SlabInv, [Next]_vars PROVE SlabInv'
    OBVIOUS
  <2>1. CASE Allocate
    BY <2>1, AllocateKeeps
  <2>2. CASE \E idx \in used : Return(idx)
    BY <2>2, ReturnKeeps
  <2>3. CASE UNCHANGED vars
    BY <2>3 DEF vars, SlabInv, MarksExact, IndexInSlab, Marked
  <2> QED BY <2>1, <2>2, <2>3 DEF Next
<1>2. SlabInv => MarksExact
  BY DEF SlabInv
<1> QED BY <1>1, <1>2, InitMarks, PTL DEF Spec
=============================================================================
