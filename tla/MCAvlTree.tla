----------------------------- MODULE MCAvlTree ------------------------------
(***************************************************************************)
(* Workloads for TLC.  The first two insert and remove keys in every order:*)
(* five nodes are enough for every kind of rotation, and four with two     *)
(* data show what is overwritten and what moves.  The others start from    *)
(* the thinnest trees of height 5, built by inserting their keys level by  *)
(* level, and remove keys on the low side: it takes that many nodes for    *)
(* one removal to rotate at two levels.                                    *)
(***************************************************************************)
EXTENDS AvlTree

Shapes == [built |-> <<>>, inserted |-> 1..5, data |-> {21}, removed |-> 1..5]
Contents == [built |-> <<>>, inserted |-> 1..4, data |-> {21, 22}, removed |-> 1..4]
ThinRight == [built |-> <<8, 5, 11, 3, 7, 10, 12, 2, 4, 6, 9, 1>>,
              inserted |-> {}, data |-> {}, removed |-> 7..12]
ThinLeft == [built |-> <<5, 8, 2, 10, 6, 3, 1, 11, 9, 7, 4, 12>>,
             inserted |-> {}, data |-> {}, removed |-> 1..6]

MCWorkloads == {Shapes, Contents, ThinRight, ThinLeft}
=============================================================================
