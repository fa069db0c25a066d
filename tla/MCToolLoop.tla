------------------------------ MODULE MCToolLoop ------------------------------
(***************************************************************************)
(* ToolLoop with the source's four rounds and up to two calls in each.      *)
(***************************************************************************)
EXTENDS ToolLoop
=============================================================================
