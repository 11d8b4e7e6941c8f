---------------------------- MODULE MCPageTables ----------------------------
(***************************************************************************)
(* Tables of eight words, so sixty-four virtual pages, and masks one bit   *)
(* too wide: directory entries with an even index are safe, as those with  *)
(* an index that is a multiple of 16 are in the code.  The kernel is at    *)
(* entry 6 of 8, as it is at entry 0x300 of 0x400.                         *)
(***************************************************************************)
EXTENDS PageTables

MCFlags == {{"Kernel"}, {"Write", "Kernel"}}
MCJunk == [present |-> TRUE, frame |-> 7, write |-> TRUE, user |-> TRUE]

(* Pages of the identity map and of the kernel's half; the identity pages  *)
(* of the tables themselves are not among them.                            *)
MCPages == {7, 52, 53}
MCIdentity == {2, 7}
MCKernelHalf == {50}
=============================================================================
