------------------------------ MODULE MCTree ------------------------------
(***************************************************************************)
(* Small block trees for model checking, written out as literal functions; *)
(* TreeAssumption checks that they are trees.                              *)
(***************************************************************************)
EXTENDS TLC

MCNull == "null"
MCGenesis == "g"

(* Two branches that both end an epoch at slot 2, one of them forking again
   at slot 3 and ending a second epoch at slot 4:
       g -- a -- b* -- c -- d*
       |         `--- z
       `--- x -- y*                                                        *)
ForkParent ==
    "g" :> MCNull @@ "a" :> "g" @@ "x" :> "g" @@ "b" :> "a" @@ "y" :> "x"
    @@ "c" :> "b" @@ "z" :> "b" @@ "d" :> "c"
ForkAncestors ==
    "g" :> {"g"} @@ "a" :> {"g", "a"} @@ "x" :> {"g", "x"}
    @@ "b" :> {"g", "a", "b"} @@ "y" :> {"g", "x", "y"}
    @@ "c" :> {"g", "a", "b", "c"} @@ "z" :> {"g", "a", "b", "z"}
    @@ "d" :> {"g", "a", "b", "c", "d"}
ForkSlot ==
    "g" :> 0 @@ "a" :> 1 @@ "x" :> 1 @@ "b" :> 2 @@ "y" :> 2 @@ "c" :> 3
    @@ "z" :> 3 @@ "d" :> 4
ForkEpoch ==
    "g" :> 0 @@ "a" :> 1 @@ "x" :> 1 @@ "b" :> 1 @@ "y" :> 1 @@ "c" :> 2
    @@ "z" :> 2 @@ "d" :> 2
ForkTerminal == {"g", "b", "y", "d"}
ForkBlock == DOMAIN ForkParent

(* What one sequencer may build, with a second choice at slots 1 and 2 and an
   epoch that ends at slot 2, followed by one of a single block:
       g -- a -- b* -- c*
       |    `--- y*
       `--- x                                                              *)
SeqParent ==
    "g" :> MCNull @@ "a" :> "g" @@ "x" :> "g" @@ "b" :> "a" @@ "y" :> "a" @@ "c" :> "b"
SeqAncestors ==
    "g" :> {"g"} @@ "a" :> {"g", "a"} @@ "x" :> {"g", "x"}
    @@ "b" :> {"g", "a", "b"} @@ "y" :> {"g", "a", "y"} @@ "c" :> {"g", "a", "b", "c"}
SeqSlot == "g" :> 0 @@ "a" :> 1 @@ "x" :> 1 @@ "b" :> 2 @@ "y" :> 2 @@ "c" :> 3
SeqEpoch == "g" :> 0 @@ "a" :> 1 @@ "x" :> 1 @@ "b" :> 1 @@ "y" :> 1 @@ "c" :> 2
SeqTerminal == {"g", "b", "y", "c"}
SeqBlock == DOMAIN SeqParent

(* The same without the second choice at slot 2. *)
MidBlock == {"g", "a", "x", "b", "c"}
MidParent == [b \in MidBlock |-> SeqParent[b]]
MidAncestors == [b \in MidBlock |-> SeqAncestors[b]]
MidSlot == [b \in MidBlock |-> SeqSlot[b]]
MidEpoch == [b \in MidBlock |-> SeqEpoch[b]]
MidTerminal == {"g", "b", "c"}

(* A short one: a choice at slot 1, and an epoch that ends at slot 2.
       g -- a -- b*
       `--- x                                                              *)
ShortParent == "g" :> MCNull @@ "a" :> "g" @@ "x" :> "g" @@ "b" :> "a"
ShortAncestors ==
    "g" :> {"g"} @@ "a" :> {"g", "a"} @@ "x" :> {"g", "x"} @@ "b" :> {"g", "a", "b"}
ShortSlot == "g" :> 0 @@ "a" :> 1 @@ "x" :> 1 @@ "b" :> 2
ShortEpoch == "g" :> 0 @@ "a" :> 1 @@ "x" :> 1 @@ "b" :> 1
ShortTerminal == {"g", "b"}
ShortBlock == DOMAIN ShortParent
=============================================================================
