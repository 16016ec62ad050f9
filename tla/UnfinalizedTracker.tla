------------------------ MODULE UnfinalizedTracker ------------------------
(***************************************************************************)
(* UnfinalizedBlockTracker and compute_tip_update of consensus-logic: the  *)
(* in-memory tree of unfinalized OL blocks, and the path from one of its   *)
(* blocks to another.  A tracker is a record                               *)
(*    fin    the terminal block of finalized_epoch,                        *)
(*    table  the keys of pending_table,                                    *)
(*    tips   unfinalized_tips.                                             *)
(* The slot, the parent and the children of an entry are those of the      *)
(* block tree: attach_block is always called with the block's own header,  *)
(* and remove keeps the children of the parent's entry in step.            *)
(***************************************************************************)
EXTENDS OLBlockTree, Sequences, Functions

CONSTANT ReorgLimit   \* compute_tip_update's limit_depth

ASSUME LimitAssumption == ReorgLimit \in Nat \ {0}

Trackers == [fin : Block, table : SUBSET Block, tips : SUBSET Block]

NewEmpty(fin) == [fin |-> fin, table |-> {fin}, tips |-> {fin}]

\* get_parent.  The entry new_empty makes for the base has the null id for a
\* parent; a walk that runs past a base ends there or one block further down,
\* outside the table in both cases.
GetParent(t, b) ==
    IF b # t.fin /\ b \in t.table THEN Parent[b] ELSE Null

\* sanity_check_parent_seq: b is traceable all the way to the finalized tip.
Traceable(t, b) ==
    /\ t.fin \in Ancestors[b]
    /\ Above(t.fin, b) \subseteq t.table

\* The blocks fork choice can still build on.
Live(t) == {b \in t.table : Traceable(t, b)}

(* attach_block.  CanAttach is its success condition; the slot check of the
   code (ChildBeforeParent) holds by the tree's assumption. *)
CanAttach(t, b) == b \in t.table \/ Parent[b] \in t.table

\* Mutant: the parent stays a tip.
AttachBlockMutant(t, b) ==
    IF b \in t.table THEN t
    ELSE [t EXCEPT !.table = @ \cup {b}, !.tips = @ \cup {b}]

AttachBlock(t, b) ==
    IF b \in t.table THEN t
    ELSE [t EXCEPT !.table = @ \cup {b}, !.tips = (@ \ {Parent[b]}) \cup {b}]

\* get_all_descendants together with the block itself.
Subtree(t, b) ==
    {c \in t.table : b \in Ancestors[c] /\ {b} \cup Above(b, c) \subseteq t.table}

(* update_finalized_epoch for a terminal block e with Traceable(t, e): the
   blocks up to e are finalized, every subtree hanging off that path below e
   is evicted, and both leave the table, except for e.  The entry of the old
   finalized tip is not removed. *)
FinalizedPath(t, e) == Above(t.fin, e)

\* Mutant: the children of the new finalized tip count as competing branches.
EvictedMutant(t, e) ==
    LET path  == FinalizedPath(t, e)
        roots == {c \in t.table \ path : Parent[c] \in {Parent[p] : p \in path} \cup {e}}
    IN  UNION {Subtree(t, c) : c \in roots}

Evicted(t, e) ==
    LET path  == FinalizedPath(t, e)
        roots == {c \in t.table \ path : Parent[c] \in {Parent[p] : p \in path}}
    IN  UNION {Subtree(t, c) : c \in roots}

\* Mutant: the block below the terminal one becomes the finalized tip.
UpdateFinalizedMutant(t, e) ==
    LET gone == Evicted(t, e) \cup (FinalizedPath(t, e) \ {e, Parent[e]})
    IN  IF e = t.fin THEN t
        ELSE [fin |-> Parent[e], table |-> t.table \ gone, tips |-> t.tips \ gone]

\* Mutant: the tracker starts over from the new finalized tip.
UpdateFinalizedMutant3(t, e) == NewEmpty(e)

UpdateFinalized(t, e) ==
    LET gone == Evicted(t, e) \cup (FinalizedPath(t, e) \ {e})
    IN  IF e = t.fin THEN t
        ELSE [fin |-> e, table |-> t.table \ gone, tips |-> t.tips \ gone]

-----------------------------------------------------------------------------
(* compute_tip_update. *)

Last(s) == s[Len(s)]
Reverse(s) == [i \in 1..Len(s) |-> s[(Len(s) - i) + 1]]

\* Mutant: the walk takes one block fewer.
LineageMutant(t, b) ==
    LET walk[i \in 1..ReorgLimit] ==
          IF i = 1 THEN <<b>>
          ELSE LET s == walk[i - 1]
                   p == GetParent(t, Last(s))
               IN  IF p = Null THEN s ELSE Append(s, p)
    IN  walk[ReorgLimit - 1]

\* iter::successors(Some(b), get_parent).take(ReorgLimit)
Lineage(t, b) ==
    LET walk[i \in 1..ReorgLimit] ==
          IF i = 1 THEN <<b>>
          ELSE LET s == walk[i - 1]
                   p == GetParent(t, Last(s))
               IN  IF p = Null THEN s ELSE Append(s, p)
    IN  walk[ReorgLimit]

NoUpdate == [down |-> <<>>, pivot |-> Null, up |-> <<>>]

(* The two lineages are cut so that they end in the same ancestor and the
   last block they share, seen from that ancestor, is the pivot.  An empty
   down is ExtendTip or LongExtend, an empty up is Revert, neither is Reorg.
   No shared ancestor within the limit is None, as is start = dest. *)
TipUpdate(t, start, dest) ==
    LET down0 == Lineage(t, start)
        up0   == Lineage(t, dest)
        cut(s, x) == SubSeq(s, 1, CHOOSE i \in DOMAIN s : s[i] = x)
        down1 == IF Last(down0) \in Range(up0) THEN down0 ELSE cut(down0, Last(up0))
        up1   == IF Last(down0) \in Range(up0) THEN cut(up0, Last(down0)) ELSE up0
        down2 == Reverse(down1)
        up2   == Reverse(up1)
        shared == {i \in DOMAIN down2 \cap DOMAIN up2 :
                      \A j \in 1..i : down2[j] = up2[j]}
        pivot == CHOOSE i \in shared : \A j \in shared : j <= i
    IN  IF start = dest THEN NoUpdate
        ELSE IF GetParent(t, dest) = start
        THEN [down |-> <<>>, pivot |-> start, up |-> <<dest>>]
        ELSE IF Last(down0) \notin Range(up0) /\ Last(up0) \notin Range(down0)
        THEN NoUpdate
        ELSE [down  |-> Reverse(SubSeq(down2, pivot + 1, Len(down2))),
              pivot |-> up2[pivot],
              up    |-> SubSeq(up2, pivot + 1, Len(up2))]
=============================================================================
