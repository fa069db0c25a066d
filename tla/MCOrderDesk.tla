------------------------------ MODULE MCOrderDesk ------------------------------
(***************************************************************************)
(* OrderDesk with the turns of two tickets.  The day counts are scaled:    *)
(* they keep the order of the real ones, with days on both sides of each.  *)
(***************************************************************************)
EXTENDS OrderDesk, TLC

Symmetry == Permutations(Turns)
=============================================================================
