----------------------------- MODULE MCTicketDesk -----------------------------
(***************************************************************************)
(* TicketDesk for TLC: request slots are interchangeable.                  *)
(***************************************************************************)
EXTENDS TicketDesk, TLC

Symmetry == Permutations(Requests)
=============================================================================
