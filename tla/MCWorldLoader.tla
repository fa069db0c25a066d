----------------------------- MODULE MCWorldLoader -----------------------------
(***************************************************************************)
(* The demo profile's labelled orders, with one random order for a random  *)
(* customer, or for one of those who have orders; two scripts and one turn.*)
(* The days in the .cfg are the last of the high-value order's window and  *)
(* of the defective laptop's warranty, each with the day after, and the    *)
(* first after the seeding.                                                *)
(***************************************************************************)
EXTENDS WorldLoader, TLC

MCProfiles == {<<12, 23>>, <<11, 23>>}

Symmetry == Permutations(Loaders)
=============================================================================
