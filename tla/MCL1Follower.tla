---------------------------- MODULE MCL1Follower ----------------------------
(***************************************************************************)
(* Two branches from the root: 2 - 3 - 4 - 5, and 6 beside block 2.  The   *)
(* checkpoint of epoch 1 is mined on both, that of epoch 2 in block 3;     *)
(* both become final on the higher branch.                                 *)
(***************************************************************************)
EXTENDS L1Follower

Branches == (2 :> 1) @@ (3 :> 2) @@ (4 :> 3) @@ (5 :> 4) @@ (6 :> 1)

Epochs == (11 :> 1) @@ (21 :> 2)

MinedLogs ==
    [b \in {Root} \union DOMAIN Branches |->
        CASE b \in {2, 6} -> <<11>>
          [] b = 3 -> <<21>>
          [] OTHER -> <<>>]
=============================================================================
