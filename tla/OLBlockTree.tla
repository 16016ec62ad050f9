---------------------------- MODULE OLBlockTree ----------------------------
(***************************************************************************)
(* The tree of OL blocks.  A block id is the hash of a header, and the     *)
(* header holds the parent id, the slot, the epoch and the terminal flag,  *)
(* so all of these are fixed functions of the block: the tree is a         *)
(* constant and the node only chooses which of its blocks it builds.       *)
(***************************************************************************)
EXTENDS Integers, FiniteSets

CONSTANTS
    Block,      \* every block the sequencer may build, genesis included
    Genesis,    \* the genesis block (slot 0, terminal block of epoch 0)
    Null,       \* the null block id
    Parent,     \* header().parent_blkid()
    Slot,       \* header().slot()
    Epoch,      \* header().epoch()
    Terminal,   \* the blocks whose header().is_terminal() holds
    Ancestors   \* a block with all its ancestors

(* The state transition function accepts a child at exactly the next slot,
   in the parent's epoch or, after a terminal parent, in the next one. *)
ASSUME TreeAssumption ==
    /\ Genesis \in Block
    /\ Null \notin Block
    /\ Terminal \subseteq Block
    /\ Genesis \in Terminal
    /\ Parent \in [Block -> Block \cup {Null}]
    /\ Parent[Genesis] = Null
    /\ Slot \in [Block -> Nat]
    /\ Epoch \in [Block -> Nat]
    /\ Ancestors \in [Block -> SUBSET Block]
    /\ Slot[Genesis] = 0
    /\ Epoch[Genesis] = 0
    /\ Ancestors[Genesis] = {Genesis}
    /\ \A b \in Block \ {Genesis} :
          /\ Parent[b] \in Block
          /\ Slot[b] = Slot[Parent[b]] + 1
          /\ Epoch[b] = IF Parent[b] \in Terminal
                        THEN Epoch[Parent[b]] + 1 ELSE Epoch[Parent[b]]
          /\ Ancestors[b] = {b} \cup Ancestors[Parent[b]]

Slots == {Slot[b] : b \in Block}
Epochs == {Epoch[b] : b \in Block}

\* The ancestor chain of b strictly above block a.
Above(a, b) == {x \in Ancestors[b] : Slot[x] > Slot[a]}

\* epoch_state().cur_epoch() of the state after block b: executing a terminal
\* block advances it past the block's own epoch.
CurEpochAfter(b) == IF b \in Terminal THEN Epoch[b] + 1 ELSE Epoch[b]
=============================================================================
