----------------------------- MODULE MCL1Writer -----------------------------
(* Instance of L1Writer for TLC. *)
EXTENDS L1Writer
=============================================================================
