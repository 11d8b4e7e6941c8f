---------------------------- MODULE AddressSpace ----------------------------
(***************************************************************************)
(* What a page table promises (include/kernel/vm/page_table.h), whatever   *)
(* the processor's format: an address space gives each virtual page a      *)
(* physical frame with rights, or none; a call changes the pages it names, *)
(* all of them or none, and no other; a lookup answers what was mapped.    *)
(*                                                                         *)
(* request and answer are the interface: the last call and its result.     *)
(***************************************************************************)
EXTENDS Naturals

CONSTANTS VirtualPages,  \* page numbers of virtual addresses
          Unmapped       \* the translation of a page that is not mapped

VARIABLES space,    \* space[v]: the translation of virtual page v
          request,  \* [op, v, p, n, flags]: the last call
          answer    \* what it returned

asVars == <<space, request, answer>>

MayWrite(flags) == flags \cap {"Write", "Execute"} # {}

Translation(p, flags) ==
  [frame |-> p, write |-> MayWrite(flags), user |-> "Kernel" \notin flags]

PagesNamed(r) == r.v .. (r.v + r.n - 1)

(* The space a request leaves behind. *)
After(s, r) ==
  CASE r.op = "map"   -> [v \in VirtualPages |->
                            IF v \in PagesNamed(r)
                            THEN Translation(r.p + (v - r.v), r.flags) ELSE s[v]]
    [] r.op = "unmap" -> [v \in VirtualPages |->
                            IF v \in PagesNamed(r) THEN Unmapped ELSE s[v]]
    [] OTHER          -> s

(* A lookup returns the frame, 0 for a page that is not mapped. *)
Result(s, r) ==
  CASE r.op = "lookup" -> IF s[r.v] = Unmapped THEN 0 ELSE s[r.v].frame
    [] r.op = "refused" -> "NotAligned"
    [] OTHER -> "NoError"

Init == /\ space = [v \in VirtualPages |-> Unmapped]
        /\ request = [op |-> "none"]
        /\ answer = "NoError"

Serve == /\ space' = After(space, request')
         /\ answer' = Result(space, request')

Spec == Init /\ [][Serve]_asVars
=============================================================================
