------------------------------- MODULE Words -------------------------------
(***************************************************************************)
(* The kernel's arithmetic on machine words: alignment (utils/align.h),    *)
(* bits and powers (math/bit.h, utilities.h), flags (flags.h), tagged      *)
(* page pointers (pageptr.h) and ranges (memory_range.h).  Words are Width  *)
(* bits wide, alignments UintBits.                                         *)
(***************************************************************************)
EXTENDS Integers, Sequences

CONSTANTS Width,         \* bits of size_t and of an address
          UintBits,      \* bits of uint, the type of an alignment: 32
          PageSize       \* cpu::PageSize: at least 32

Word(v) == v % 2 ^ Width
Bit(v, i) == (v \div 2 ^ i) % 2

-----------------------------------------------------------------------------
(* align.h.  The mask ~(SZ - 1) is a uint, made as wide as the address with *)
(* zeros: where an address is wider than a uint (x86_64), its upper bits   *)
(* are cleared too.                                                        *)
AlignFloor(a, SZ) == LET low == a % 2 ^ UintBits IN low - (low % SZ)
AlignCeiling(a, SZ) == AlignFloor(Word(a + SZ - 1), SZ)
AlignNext(a, SZ) == AlignFloor(Word(a + SZ), SZ)
AlignPrev(a, SZ) == AlignFloor(Word(a - SZ), SZ)
IsAligned(a, SZ) == a = AlignFloor(a, SZ)
MinPages(sz) == AlignCeiling(sz, PageSize) \div PageSize

-----------------------------------------------------------------------------
(* bit.h.  An index counts from one, and zero says that no bit is set.     *)

(* __builtin_clz: the zeros above the highest bit.                         *)
LeadingZeros(v) == CHOOSE n \in 0..(Width - 1) :
                     2 ^ (Width - 1 - n) <= v /\ v < 2 ^ (Width - n)

msb_index(v) == IF v = 0 THEN 0 ELSE Width - LeadingZeros(v)

(* The halving that const_msb_index and lsb_index do at compile time.      *)
const_msb_index[v \in Nat] == IF v > 1 THEN const_msb_index[v \div 2] + 1 ELSE v

lsb_index[v \in Nat] == IF v = 0 THEN 0
                        ELSE IF v % 2 = 1 THEN 1 ELSE lsb_index[v \div 2] + 1

(* The shift is by the index that counts from one, so that what is left is  *)
(* the bit above the highest.                                              *)
msb(v) == IF v = 0 THEN 0 ELSE Word(2 ^ msb_index(v))

(* v & -v: the bits of a word that are set in both.                        *)
BitAnd(v, w) ==
  LET sum[i \in 0..Width] == IF i = 0 THEN 0
                             ELSE sum[i - 1] + Bit(v, i - 1) * Bit(w, i - 1) * 2 ^ (i - 1)
  IN sum[Width]

lsb(v) == BitAnd(v, Word(-v))

popcount[v \in Nat] == IF v = 0 THEN 0 ELSE (v % 2) + popcount[v \div 2]

is_pow2(v) == v # 0 /\ BitAnd(v, Word(v - 1)) = 0

next_pow2(v) == IF v = 0 THEN 1 ELSE Word(2 * msb(v))

(* ipow (utilities.h): by squaring, over the bits of the exponent.  The    *)
(* last square is not used.                                                *)
ipow(base, exponent) ==
  LET result[e \in Nat, b \in Nat] ==
        IF e = 0 THEN 1
        ELSE Word((IF e % 2 = 1 THEN b ELSE 1) * result[e \div 2, Word(b * b)])
  IN result[exponent, base]

-----------------------------------------------------------------------------
(* PagePointer.  cpu::PageMask is a size_t: no address bit is lost.        *)
VirtualFlag == 16
OrderSpan == 16                          \* OrderMask + 1

PageFloor(a) == a - (a % PageSize)         \* a & cpu::PageMask

FromPhysical(addr, order) == PageFloor(addr) + (order % OrderSpan)
FromVirtual(addr, order) == FromPhysical(addr, order) + VirtualFlag

Value(ptr) == PageFloor(ptr)
IsNull(ptr) == Value(ptr) = 0
Order(ptr) == ptr % OrderSpan

(* Fault variant of IsVirtual: the whole of the masked area is looked at. *)
IsVirtualAnyBit(ptr) == ptr % PageSize # 0

IsVirtual(ptr) == (ptr % PageSize) \div VirtualFlag % 2 = 1
IsPhysical(ptr) == ~IsVirtual(ptr)
Count(ptr) == IF IsNull(ptr) THEN 0 ELSE 2 ^ Order(ptr)

-----------------------------------------------------------------------------
(* flags.h: an enumeration of bits.                                        *)
BitOr(v, w) == v + w - BitAnd(v, w)
BitNot(v) == Word(-1 - v)

Toggle(v, w) == BitOr(v, w) - BitAnd(v, w)
AddFlags(v, w) == BitOr(v, w)
RemoveFlags(v, w) == BitAnd(v, BitNot(w))
has_any(v, items) == BitAnd(v, items) # 0
has_all(v, items) == BitAnd(v, items) = items

-----------------------------------------------------------------------------
(* MemoryRange: a base and a length, its end the last address in it.       *)
Range(base, length) == [Base |-> base, Length |-> length]

Lesser(a, b) == IF a < b THEN a ELSE b
Greater(a, b) == IF a < b THEN b ELSE a

FromAddresses(start, end) ==
  Range(Lesser(start, end), Word(Greater(start, end) - Lesser(start, end) + 1))

End(r) == Word(r.Base + r.Length - 1)

Overlaps(r, s) == /\ r.Length # 0 /\ s.Length # 0
                  /\ r.Base <= End(s) /\ End(r) >= s.Base

Contiguous(r, s) ==
  /\ r.Length # 0 /\ s.Length # 0
  /\ \/ r = s
     \/ Word(End(r) + 1) >= s.Base /\ End(r) < End(s)
     \/ Word(End(s) + 1) >= r.Base /\ End(s) < End(r)

NotContiguous == Range(0, 0)             \* std::unexpected

Merge(r, s) ==
  IF ~Contiguous(r, s) THEN NotContiguous
  ELSE LET base == Lesser(r.Base, s.Base)
       IN Range(base, Word(Greater(End(r), End(s)) - base + 1))
=============================================================================
