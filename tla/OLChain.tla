------------------------------ MODULE OLChain ------------------------------
(***************************************************************************)
(* What a sequencer node promises about the OL chain, whatever it does     *)
(* inside and however often it crashes: the canonical tip is only ever     *)
(* extended, by one block at a time, and the finalized block moves up the  *)
(* chain of the canonical tip, over terminal blocks.                       *)
(***************************************************************************)
EXTENDS OLBlockTree

VARIABLES tip, fin

Init == tip = Genesis /\ fin = Genesis

ExtendTip == tip' \in {b \in Block : Parent[b] = tip}

FinalizeEpoch == fin' \in {e \in Terminal \cap Ancestors[tip] : Slot[e] > Slot[fin]}

\* A restart may show both at once.
Next == /\ ExtendTip \/ UNCHANGED tip
        /\ FinalizeEpoch \/ UNCHANGED fin

Spec == Init /\ [][Next]_<<tip, fin>>
=============================================================================
