------------------------------ MODULE MCProver ------------------------------
(***************************************************************************)
(* Small instances of Prover: the checkpoint prover proving natively, and   *)
(* the chunk prover of the EE with its receipt store and a remote prover.   *)
(***************************************************************************)
EXTENDS Prover

Native == {[remote |-> FALSE, kept |-> FALSE]}
Chunk == {[remote |-> TRUE, kept |-> TRUE]}
Both == Native \cup Chunk
=============================================================================
