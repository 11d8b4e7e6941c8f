------------------------------ MODULE MCKalloc ------------------------------
(***************************************************************************)
(* The kernel heap on a few pages for TLC.  Two buckets: the first holds   *)
(* the List objects and the metadata, the second is the one kalloc_small   *)
(* falls back to.  Two items to a slab, so that every allocation and every *)
(* release moves a slab between lists; one page in use at the start and    *)
(* two in the pool, whose metadata, as large blocks, share a bucket.       *)
(***************************************************************************)
EXTENDS Kalloc

CONSTANTS t1, t2, p0, p1, p2

MCThreads == {t1, t2}
MCOneThread == {t1}
MCPages == {p0, p1, p2}
MCTwoPages == {p0, p1}
MCItems == [b \in 0..1 |-> 2]
MCMoreItems == [b \in 0..1 |-> b + 2]
MCHash == [p \in Pages |-> IF p = p0 THEN 1 ELSE 0]
MCSizes == {0, 1, OnePage}
MCAllSizes == MCSizes \cup {ManyPages}
MCTopSizes == MCSizes \cup {MAX_BUCKET_INDEX}  \* the index of MAX_ITEM_SIZE
MCSymmetry == Permutations({t1, t2}) \cup Permutations({p1, p2})
=============================================================================
