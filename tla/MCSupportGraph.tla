---------------------------- MODULE MCSupportGraph ----------------------------
(***************************************************************************)
(* Three messages of the customer: one to raise a flag or a demand, one    *)
(* that meets it, and one after the reply or the death in between.         *)
(***************************************************************************)
EXTENDS SupportGraph
=============================================================================
