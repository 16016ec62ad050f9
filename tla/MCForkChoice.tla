--------------------------- MODULE MCForkChoice ---------------------------
(* Instance of ForkChoice for TLC. *)
EXTENDS ForkChoice, MCTree
=============================================================================
