---------------------------- MODULE MCBootMemory ----------------------------
(***************************************************************************)
(* Instances of BootMemory: sixteen pages of two bytes, a kernel that      *)
(* starts at 6 and ends inside a page or at the end of one, and the        *)
(* identity mark at 20.                                                    *)
(***************************************************************************)
EXTENDS BootMemory, TLC

Record(start, length, available) ==
  [Start |-> start, Length |-> length, Available |-> available]

(* Low memory that ends inside a page; the kernel's memory, which ends     *)
(* right after the kernel, below the mark or above it, or starts below the *)
(* kernel; a hole; memory on either side of the mark.                      *)
MCLow == {Record(0, 5, TRUE), Record(0, 4, FALSE)}
MCKernel == {Record(6, 4, TRUE), Record(6, 12, TRUE), Record(6, 15, TRUE), Record(4, 14, TRUE)}
MCHole == {Record(18, 2, FALSE)}
MCHigh == {Record(14, 8, TRUE), Record(24, 3, TRUE), Record(26, 6, TRUE), Record(28, 4, TRUE)}

MCApart(S) == \A r, q \in S : r # q => Bytes(r) \cap Bytes(q) = {}

(* Every order of every list of up to five records that do not overlap and *)
(* of which one holds the kernel.                                          *)
MCFirmwareMaps ==
  UNION {SetToSeqs(S) : S \in {T \in SUBSET (MCLow \cup MCKernel \cup MCHole \cup MCHigh) :
           Cardinality(T) <= 5 /\ MCApart(T) /\ T \cap MCKernel # {}}}

(* Ranges that fill gaps, overlap entries on either side, lie inside one   *)
(* or bridge two.                                                          *)
MCAddedRanges ==
  {Entry(5, 1), Entry(1, 2), Entry(10, 4), Entry(18, 8), Entry(12, 4), Entry(0, 0)}
=============================================================================
