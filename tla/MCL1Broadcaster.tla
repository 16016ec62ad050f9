-------------------------- MODULE MCL1Broadcaster --------------------------
(* Instance of L1Broadcaster for TLC. *)
EXTENDS L1Broadcaster
=============================================================================
