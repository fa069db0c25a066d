------------------------------ MODULE MCLiveChat ------------------------------
(***************************************************************************)
(* Two requests of any kind: a message and its repetition, two that pass   *)
(* each other on the way to the lock, an answer like an earlier one.       *)
(***************************************************************************)
EXTENDS LiveChat, TLC

Symmetry == Permutations(Texts)
=============================================================================
