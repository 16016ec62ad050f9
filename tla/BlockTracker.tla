--------------------------- MODULE BlockTracker ---------------------------
(***************************************************************************)
(* The unfinalized block tracker as a component of its own: blocks are     *)
(* attached in any order that finds their parent, and any traceable        *)
(* terminal block of a later epoch may be finalized.                       *)
(***************************************************************************)
EXTENDS UnfinalizedTracker

VARIABLE tracker

Init == tracker = NewEmpty(Genesis)

Attach(b) ==
    /\ CanAttach(tracker, b)
    /\ tracker' = AttachBlock(tracker, b)

Finalize(e) ==
    /\ Epoch[e] > Epoch[tracker.fin]
    /\ Traceable(tracker, e)
    /\ tracker' = UpdateFinalized(tracker, e)

Next == \/ \E b \in Block : Attach(b)
        \/ \E e \in Terminal : Finalize(e)

Spec == Init /\ [][Next]_tracker

-----------------------------------------------------------------------------
TypeOK == tracker \in Trackers

\* The leaves of a set of blocks.
Leaves(S) == {b \in S : \A c \in S : Parent[c] # b}

(* The tips attach_block and remove maintain step by step are exactly the
   leaves of the live tree (unfinalized_tips: "also includes the finalized
   tip if there's no pending blocks"), whatever was attached and evicted. *)
TipsAreLeaves == tracker.tips \cap Live(tracker) = Leaves(Live(tracker))

(* update_finalized_epoch keeps exactly the blocks above the new finalized
   tip: it evicts every competing branch and no descendant of the tip. *)
FinalizeKeepsDescendants ==
    [][tracker'.fin # tracker.fin =>
          Live(tracker') = {b \in Live(tracker) : tracker'.fin \in Ancestors[b]}]_tracker

(* compute_tip_update returns the path between two live blocks through their
   last common ancestor, whenever it lies within the search limit of both,
   and never a path that is not one. *)
Common(s, d) == Ancestors[s] \cap Ancestors[d]
LastCommon(s, d) == CHOOSE a \in Common(s, d) :
                       \A x \in Common(s, d) : Slot[x] <= Slot[a]
TipUpdateIsPath ==
    \A s, d \in Live(tracker) \ {tracker.fin} :
        LET u == TipUpdate(tracker, s, d)
            a == LastCommon(s, d)
            near == Slot[s] - Slot[a] < ReorgLimit /\ Slot[d] - Slot[a] < ReorgLimit
        IN  IF u = NoUpdate THEN s = d \/ ~near
            ELSE /\ u.pivot = a
                 /\ Range(u.down) = Above(a, s)
                 /\ Range(u.up) = Above(a, d)
                 /\ \A i \in 1..Len(u.down) : Slot[u.down[i]] = Slot[s] - i + 1
                 /\ \A i \in 1..Len(u.up) : Slot[u.up[i]] = Slot[a] + i
=============================================================================
