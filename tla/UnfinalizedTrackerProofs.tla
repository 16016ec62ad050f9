---------------------- MODULE UnfinalizedTrackerProofs ----------------------

(***************************************************************************)
(* Lemmas about the block tree and about the tracker's operators.  What     *)
(* TreeAssumption says of one block and its parent is carried over to all   *)
(* its ancestors by induction on the slot, written as a minimal             *)
(* counterexample; and compute_tip_update, the walks it takes included,     *)
(* finds the path between two blocks.                                       *)
(***************************************************************************)
EXTENDS UnfinalizedTracker, WellFoundedInduction, TLAPS

\* The back ends a leaf is tried with, in this order.
USE SMT, Z3, ZenonT(60)

\* The least-number principle: a set of slots has a least element.
LEMMA LeastNat ==
    ASSUME NEW T \in SUBSET Nat, T # {}
    PROVE  \E n \in T : \A m \in T : n <= m
<1> DEFINE R == OpToRel(<, Nat)
<1>1. IsWellFoundedOn(R, Nat)
    BY NatLessThanWellFounded, ZenonT(60)
<1>2. \A x, y \in Nat : <<y, x>> \in R <=> y < x
    BY DEF OpToRel
<1> HIDE DEF R
<1>3. PICK x \in T : \A y \in T : ~ (<<y, x>> \in R)
    BY <1>1, WFMin, ZenonT(60)
<1>4. \A y \in T : y \in Nat /\ x \in Nat /\ ~(y < x)
    BY <1>2, <1>3, ZenonT(60)
<1> QED
    BY <1>4

\* Every non-empty set of blocks has one of lowest slot; if it is not genesis
\* its parent is outside the set.
LEMMA LowestBlock ==
    ASSUME NEW S \in SUBSET Block, S # {}
    PROVE  \E b \in S : b # Genesis => Parent[b] \in Block \ S
<1> DEFINE T == {Slot[b] : b \in S}
<1>1. T \in SUBSET Nat /\ T # {}
    BY TreeAssumption
<1> HIDE DEF T
<1>2. PICK n \in T : \A m \in T : n <= m
    BY <1>1, LeastNat
<1> USE DEF T
<1>3. PICK b \in S : Slot[b] = n
    BY <1>2
<1>4. ASSUME b # Genesis PROVE Parent[b] \in Block \ S
  <2>1. Parent[b] \in Block /\ Slot[b] = Slot[Parent[b]] + 1 /\ Slot[Parent[b]] \in Nat
      BY <1>4, TreeAssumption
  <2>2. ASSUME Parent[b] \in S PROVE FALSE
    <3>1. Slot[Parent[b]] \in T
        BY <2>2
    <3> HIDE DEF T
    <3>2. n <= Slot[Parent[b]]
        BY <3>1, <1>2, ZenonT(60)
    <3> QED
        BY <3>2, <2>1, <1>3
  <2> QED
      BY <2>1, <2>2
<1> QED
    BY <1>4

\* A block is its own ancestor, and its ancestors are blocks.
LEMMA AncestorsRefl ==
    \A b \in Block : b \in Ancestors[b] /\ Ancestors[b] \subseteq Block
<1>1. \A b \in Block : Ancestors[b] \subseteq Block
    BY TreeAssumption
<1>2. \A b \in Block : b \in Ancestors[b]
    BY TreeAssumption
<1> QED
    BY <1>1, <1>2

\* An ancestor lies at a lower slot, except for the block itself.
LEMMA AncestorSlot ==
    \A b \in Block : \A x \in Ancestors[b] :
        Slot[x] \in Nat /\ Slot[x] <= Slot[b] /\ (Slot[x] = Slot[b] => x = b)
<1> DEFINE Good(b) == \A x \in Ancestors[b] :
               Slot[x] \in Nat /\ Slot[x] <= Slot[b] /\ (Slot[x] = Slot[b] => x = b)
           S == {b \in Block : ~Good(b)}
<1>1. SUFFICES ASSUME S # {} PROVE FALSE
    OBVIOUS
<1>2. PICK b \in S : b # Genesis => Parent[b] \in Block \ S
    BY <1>1, LowestBlock, ZenonT(60)
<1>3. b # Genesis
    BY TreeAssumption
<1>4. Good(Parent[b])
    BY <1>2, <1>3
<1>5. /\ Ancestors[b] = {b} \cup Ancestors[Parent[b]]
      /\ Slot[b] = Slot[Parent[b]] + 1
      /\ Slot[Parent[b]] \in Nat /\ Slot[b] \in Nat
    BY <1>2, <1>3, TreeAssumption
<1>6. ASSUME NEW x \in Ancestors[b]
      PROVE  Slot[x] \in Nat /\ Slot[x] <= Slot[b] /\ (Slot[x] = Slot[b] => x = b)
    BY <1>4, <1>5
<1> QED
    BY <1>6

\* The ancestors of an ancestor are ancestors.
LEMMA AncestorsTrans ==
    \A b \in Block : \A x \in Ancestors[b] : Ancestors[x] \subseteq Ancestors[b]
<1> DEFINE Good(b) == \A x \in Ancestors[b] : Ancestors[x] \subseteq Ancestors[b]
           S == {b \in Block : ~Good(b)}
<1>1. SUFFICES ASSUME S # {} PROVE FALSE
    OBVIOUS
<1>2. PICK b \in S : b # Genesis => Parent[b] \in Block \ S
    BY <1>1, LowestBlock, ZenonT(60)
<1>3. b # Genesis
    BY TreeAssumption
<1>4. Good(Parent[b])
    BY <1>2, <1>3
<1>5. Ancestors[b] = {b} \cup Ancestors[Parent[b]]
    BY <1>2, <1>3, TreeAssumption
<1> QED
    BY <1>4, <1>5

\* The ancestors of a block form a chain: of two of them the lower one is an
\* ancestor of the other.
LEMMA AncestorsChain ==
    \A b \in Block : \A x, y \in Ancestors[b] : Slot[x] <= Slot[y] => x \in Ancestors[y]
<1> DEFINE Good(b) == \A x, y \in Ancestors[b] : Slot[x] <= Slot[y] => x \in Ancestors[y]
           S == {b \in Block : ~Good(b)}
<1>1. SUFFICES ASSUME S # {} PROVE FALSE
    OBVIOUS
<1>2. PICK b \in S : b # Genesis => Parent[b] \in Block \ S
    BY <1>1, LowestBlock, ZenonT(60)
<1>3. b # Genesis
    BY TreeAssumption
<1>4. Good(Parent[b])
    BY <1>2, <1>3
<1>5. /\ Ancestors[b] = {b} \cup Ancestors[Parent[b]]
      /\ Slot[b] = Slot[Parent[b]] + 1
      /\ Slot[Parent[b]] \in Nat
    BY <1>2, <1>3, TreeAssumption
<1>6. \A x \in Ancestors[Parent[b]] : Slot[x] \in Nat /\ Slot[x] <= Slot[Parent[b]]
    BY <1>2, <1>3, AncestorSlot
<1>7. ASSUME NEW x \in Ancestors[b], NEW y \in Ancestors[b], Slot[x] <= Slot[y]
      PROVE  x \in Ancestors[y]
  <2>1. CASE y = b
      BY <2>1
  <2>2. CASE y # b /\ x = b
      BY <2>2, <1>5, <1>6, <1>7
  <2>3. CASE y # b /\ x # b
      BY <2>3, <1>4, <1>5, <1>7
  <2> QED
      BY <2>1, <2>2, <2>3
<1> QED
    BY <1>7

\* The chain from a block down to one of its ancestors loses one block per
\* step to the parent.
LEMMA AboveParent ==
    ASSUME NEW a \in Block, NEW b \in Block, b # a, a \in Ancestors[b]
    PROVE  /\ Parent[b] \in Block
           /\ a \in Ancestors[Parent[b]]
           /\ Above(a, b) = {b} \cup Above(a, Parent[b])
<1>1. b # Genesis
    BY TreeAssumption
<1>2. Parent[b] \in Block /\ Ancestors[b] = {b} \cup Ancestors[Parent[b]]
    BY <1>1, TreeAssumption
<1>3. Slot[a] < Slot[b]
  <2>1. Slot[a] \in Nat /\ Slot[b] \in Nat
      BY TreeAssumption
  <2> QED
      BY <2>1, AncestorSlot
<1> QED
    BY <1>2, <1>3 DEF Above

\* The ancestors of a block on one slot: there is exactly one.
LEMMA AncestorUnique ==
    ASSUME NEW b \in Block, NEW x \in Ancestors[b], NEW y \in Ancestors[b], Slot[x] = Slot[y]
    PROVE  x = y
<1>1. x \in Block /\ y \in Block /\ Slot[x] \in Nat
    BY AncestorsRefl, TreeAssumption
<1>2. x \in Ancestors[y]
    BY <1>1, AncestorsChain
<1> QED
    BY <1>1, <1>2, AncestorSlot

LEMMA AncestorAt ==
    ASSUME NEW b \in Block, NEW n \in 0..Slot[b]
    PROVE  \E x \in Ancestors[b] : Slot[x] = n
<1> DEFINE S == {c \in Block : n <= Slot[c] /\ ~ \E x \in Ancestors[c] : Slot[x] = n}
<1>1. Slot[b] \in Nat /\ n \in Nat
    BY TreeAssumption
<1>2. SUFFICES ASSUME S # {} PROVE FALSE
    BY <1>1
<1>3. PICK c \in S : c # Genesis => Parent[c] \in Block \ S
    BY <1>2, LowestBlock, ZenonT(60)
<1>4. Slot[c] # n /\ Slot[c] \in Nat
    BY <1>3, AncestorsRefl, TreeAssumption
<1>5. c # Genesis
    BY <1>1, <1>3, <1>4, TreeAssumption
<1>6. Parent[c] \in Block /\ Slot[c] = Slot[Parent[c]] + 1 /\ Slot[Parent[c]] \in Nat
      /\ Ancestors[c] = {c} \cup Ancestors[Parent[c]]
    BY <1>5, TreeAssumption
<1>7. n <= Slot[Parent[c]]
    BY <1>1, <1>3, <1>4, <1>6
<1> QED
    BY <1>3, <1>5, <1>6, <1>7

\* Epochs grow along a chain, and a terminal block ends its own.
LEMMA AncestorEpoch ==
    \A b \in Block : \A x \in Ancestors[b] :
        Epoch[x] \in Nat /\ Epoch[x] <= Epoch[b] /\ (x \in Terminal /\ x # b => Epoch[x] < Epoch[b])
<1> DEFINE Good(b) == \A x \in Ancestors[b] :
        Epoch[x] \in Nat /\ Epoch[x] <= Epoch[b] /\ (x \in Terminal /\ x # b => Epoch[x] < Epoch[b])
           S == {b \in Block : ~Good(b)}
<1>1. SUFFICES ASSUME S # {} PROVE FALSE
    OBVIOUS
<1>2. PICK b \in S : b # Genesis => Parent[b] \in Block \ S
    BY <1>1, LowestBlock, ZenonT(60)
<1>3. b # Genesis
    BY TreeAssumption
<1>4. Good(Parent[b])
    BY <1>2, <1>3
<1>5. /\ Ancestors[b] = {b} \cup Ancestors[Parent[b]] /\ Epoch[b] \in Nat
      /\ Parent[b] \in Block /\ Epoch[Parent[b]] \in Nat
      /\ Epoch[b] = IF Parent[b] \in Terminal THEN Epoch[Parent[b]] + 1 ELSE Epoch[Parent[b]]
    BY <1>2, <1>3, TreeAssumption
<1>6. ASSUME NEW x \in Ancestors[b]
      PROVE  Epoch[x] \in Nat /\ Epoch[x] <= Epoch[b] /\ (x \in Terminal /\ x # b => Epoch[x] < Epoch[b])
  <2>1. CASE x = b
      BY <2>1, <1>5
  <2>2. CASE x = Parent[b]
      BY <2>2, <1>5
  <2>3. CASE x # b /\ x # Parent[b]
      BY <2>3, <1>4, <1>5
  <2> QED
      BY <2>1, <2>2, <2>3
<1> QED
    BY <1>6

\* Below every block but genesis there is the terminal block of the epoch before.
LEMMA EpochBefore ==
    \A b \in Block \ {Genesis} :
        \E x \in Terminal \cap Ancestors[Parent[b]] : Epoch[x] = Epoch[b] - 1
<1> DEFINE Good(b) == \E x \in Terminal \cap Ancestors[Parent[b]] : Epoch[x] = Epoch[b] - 1
           S == {b \in Block \ {Genesis} : ~Good(b)}
<1>1. SUFFICES ASSUME S # {} PROVE FALSE
    OBVIOUS
<1>2. PICK b \in S : b # Genesis => Parent[b] \in Block \ S
    BY <1>1, LowestBlock, ZenonT(60)
<1> DEFINE p == Parent[b]
<1>3. /\ p \in Block /\ Epoch[p] \in Nat /\ p \in Ancestors[p]
      /\ Epoch[b] = IF p \in Terminal THEN Epoch[p] + 1 ELSE Epoch[p]
    BY <1>2, TreeAssumption, AncestorsRefl
<1>4. CASE p \in Terminal
    BY <1>2, <1>3, <1>4
<1>5. CASE p \notin Terminal
  <2>1. p # Genesis
      BY <1>5, TreeAssumption
  <2>2. PICK x \in Terminal \cap Ancestors[Parent[p]] : Epoch[x] = Epoch[p] - 1
      BY <2>1, <1>2, <1>3
  <2>3. x \in Ancestors[p]
      BY <2>1, <2>2, <1>3, TreeAssumption
  <2> QED
      BY <2>2, <2>3, <1>2, <1>3, <1>5
<1> QED
    BY <1>4, <1>5

-----------------------------------------------------------------------------

(* The tracker. *)

(* What attach_block and update_finalized_epoch preserve: the finalized tip
   has an entry, and every entry above it is connected to it.  An entry that
   is not above the finalized tip (the old tip's entry, and what is attached
   to it later) is not constrained. *)
Connected(t) ==
    /\ t \in Trackers
    /\ t.fin \in t.table
    /\ \A c \in t.table : t.fin \in Ancestors[c] => Above(t.fin, c) \subseteq t.table

\* update_finalized_epoch removes no descendant of the new finalized tip: a
\* removed block is on the path below it, or on a branch off that path.
LEMMA FinalizeGone ==
    ASSUME NEW t, Connected(t), NEW e \in Block, Traceable(t, e),
           NEW c \in Block, e \in Ancestors[c]
    PROVE  c \notin Evicted(t, e) \cup (FinalizedPath(t, e) \ {e})
<1>1. t.fin \in Block /\ t.fin \in Ancestors[e]
    BY DEF Connected, Trackers, Traceable
<1>2. ASSUME c \in FinalizedPath(t, e), c # e PROVE FALSE
  <2>1. c \in Ancestors[e] /\ Slot[c] <= Slot[e] /\ Slot[e] <= Slot[c]
      BY <1>2, AncestorSlot DEF FinalizedPath, Above
  <2>2. Slot[c] \in Nat /\ Slot[e] \in Nat
      BY TreeAssumption
  <2> QED
      BY <2>1, <2>2, <1>2, AncestorSlot
<1>3. ASSUME c \in Evicted(t, e) PROVE FALSE
  <2>1. PICK r \in t.table \ FinalizedPath(t, e) :
            /\ Parent[r] \in {Parent[p] : p \in FinalizedPath(t, e)}
            /\ c \in Subtree(t, r)
      BY <1>3 DEF Evicted
  <2>2. PICK p \in FinalizedPath(t, e) : Parent[r] = Parent[p]
      BY <2>1
  <2>3. p \in Ancestors[e] /\ Slot[p] > Slot[t.fin] /\ p \in Block /\ r \in Block
      BY <2>1, <2>2, AncestorsRefl DEF FinalizedPath, Above, Connected, Trackers
  <2>4. p # Genesis
      BY <2>3, <1>1, TreeAssumption
  <2>5. r # Genesis
      BY <2>2, <2>3, <2>4, TreeAssumption
  <2>6. Slot[r] = Slot[p] /\ Slot[r] \in Nat /\ Slot[e] \in Nat /\ Slot[p] <= Slot[e]
      BY <2>2, <2>3, <2>4, <2>5, AncestorSlot, TreeAssumption
  <2>7. r \in Ancestors[c]
      BY <2>1 DEF Subtree
  <2>8. r \in Ancestors[e]
      BY <2>6, <2>7, AncestorsChain
  <2>9. r \in FinalizedPath(t, e)
      BY <2>3, <2>6, <2>8 DEF FinalizedPath, Above
  <2> QED
      BY <2>1, <2>9
<1> QED
    BY <1>2, <1>3

-----------------------------------------------------------------------------

(* compute_tip_update. *)

\* One step of the walk towards the finalized tip.
WalkStep(t, s) ==
    LET p == GetParent(t, Last(s)) IN IF p = Null THEN s ELSE Append(s, p)

\* What n steps of the walk from b have collected: a run of ancestors, which
\* ends early only where get_parent finds nothing.
Walked(t, b, n, s) ==
    /\ s \in Seq(Block)
    /\ Len(s) \in 1..n
    /\ s[1] = b
    /\ \A j \in 1..Len(s) : s[j] \in Ancestors[b] /\ Slot[s[j]] = Slot[b] - j + 1
    /\ \A j \in 1..Len(s) - 1 : GetParent(t, s[j]) = s[j + 1]
    /\ Len(s) < n => GetParent(t, s[Len(s)]) = Null

LEMMA WalkStarts ==
    ASSUME NEW t, NEW b \in Block
    PROVE  Walked(t, b, 1, <<b>>)
<1>1. Slot[b] \in Nat /\ b \in Ancestors[b]
    BY TreeAssumption, AncestorsRefl
<1> QED
    BY <1>1 DEF Walked

LEMMA WalkGoesOn ==
    ASSUME NEW t \in Trackers, NEW b \in Block, NEW n \in Nat, n >= 1, NEW s, Walked(t, b, n, s)
    PROVE  Walked(t, b, n + 1, WalkStep(t, s))
<1> DEFINE k == Len(s)
           x == s[k]
           p == GetParent(t, x)
<1>1. /\ s \in Seq(Block) /\ k \in Nat /\ k >= 1 /\ k <= n /\ s # <<>>
      /\ x \in Ancestors[b] /\ x \in Block /\ Slot[x] = Slot[b] - k + 1
    BY DEF Walked
<1>2. WalkStep(t, s) = IF p = Null THEN s ELSE Append(s, p)
    BY <1>1 DEF WalkStep, Last
<1>3. CASE p = Null
    BY <1>1, <1>2, <1>3 DEF Walked
<1>4. CASE p # Null
  <2>1. p = Parent[x] /\ x # Genesis
      BY <1>4, TreeAssumption DEF GetParent
  <2>2. p \in Block /\ Slot[x] = Slot[p] + 1 /\ Slot[p] \in Nat /\ Slot[b] \in Nat
      BY <2>1, <1>1, TreeAssumption
  <2>3. p \in Ancestors[x]
      BY <2>1, <2>2, <1>1, TreeAssumption, AncestorsRefl
  <2>4. p \in Ancestors[b]
      BY <2>3, <1>1, AncestorsTrans
  <2> DEFINE r == Append(s, p)
  <2>5. /\ r \in Seq(Block) /\ Len(r) = k + 1
        /\ \A j \in 1..k : r[j] = s[j]
        /\ r[k + 1] = p
      BY <1>1, <2>2
  <2>6. n + 1 \in Nat /\ Slot[p] = Slot[b] - (k + 1) + 1
      BY <2>2, <1>1
  <2> HIDE DEF r, p
  <2>7. \A j \in 1..Len(r) : r[j] \in Ancestors[b] /\ Slot[r[j]] = Slot[b] - j + 1
      BY <2>4, <2>5, <2>6, <1>1 DEF Walked
  <2>8. \A j \in 1..Len(r) - 1 : GetParent(t, r[j]) = r[j + 1]
    <3>1. SUFFICES ASSUME NEW j \in 1..k PROVE GetParent(t, r[j]) = r[j + 1]
        BY <2>5, <1>1
    <3>2. CASE j = k
        BY <3>2, <2>5, <1>1 DEF p
    <3>3. CASE j # k
      <4>1. j \in 1..k - 1 /\ j + 1 \in 1..k
          BY <3>3, <1>1
      <4> QED
          BY <4>1, <2>5 DEF Walked
    <3> QED
        BY <3>2, <3>3
  <2>9. Walked(t, b, n + 1, r)
    <3>1. /\ Len(r) \in 1..n + 1 /\ r[1] = b
          /\ Len(r) < n + 1 => k < n
        BY <2>5, <2>6, <1>1 DEF Walked
    <3>2. Len(r) < n + 1 => FALSE
        BY <3>1, <1>4, <1>1 DEF Walked, p
    <3> QED
        BY <3>1, <3>2, <2>5, <2>7, <2>8 DEF Walked
  <2> QED
      BY <2>9, <1>2, <1>4 DEF r
<1> QED
    BY <1>3, <1>4

\* The walk is well defined, and take(ReorgLimit) of it is a run of ancestors.
LEMMA LineageIsWalk ==
    ASSUME NEW t \in Trackers, NEW b \in Block
    PROVE  Walked(t, b, ReorgLimit, Lineage(t, b))
<1> DEFINE Eqn(f, n) == f = [i \in 1..n |-> IF i = 1 THEN <<b>> ELSE WalkStep(t, f[i - 1])]
<1>1. ReorgLimit \in Nat /\ ReorgLimit >= 1
    BY LimitAssumption
\* Functions that satisfy the equation exist for every number of steps.
<1>2. \A n \in Nat \ {0} : \E f : Eqn(f, n)
  <2> DEFINE S == {n \in Nat \ {0} : ~ \E f : Eqn(f, n)}
  <2>1. SUFFICES ASSUME S # {} PROVE FALSE
      OBVIOUS
  <2> HIDE DEF Eqn
  <2>2. PICK n \in S : \A m \in S : n <= m
      BY <2>1, LeastNat, ZenonT(60)
  <2>3. CASE n = 1
    <3>1. Eqn([i \in 1..1 |-> <<b>>], 1)
        BY DEF Eqn
    <3> QED
        BY <2>2, <2>3, <3>1
  <2>4. CASE n # 1
    <3>1. n - 1 \in Nat \ {0} /\ n - 1 < n /\ n \in Nat
        BY <2>4
    <3>2. n - 1 \notin S
        BY <3>1, <2>2
    <3>3. PICK f : Eqn(f, n - 1)
        BY <3>1, <3>2
    <3> DEFINE g == [i \in 1..n |-> IF i = n THEN WalkStep(t, f[n - 1]) ELSE f[i]]
    <3>4. Eqn(g, n)
      <4>1. \A i \in 1..n : g[i] = IF i = 1 THEN <<b>> ELSE WalkStep(t, g[i - 1])
        <5>1. SUFFICES ASSUME NEW i \in 1..n
                       PROVE  g[i] = IF i = 1 THEN <<b>> ELSE WalkStep(t, g[i - 1])
            BY Z3, SMT
        <5>2. CASE i = n
            BY <5>2, <3>1, <2>4
        <5>3. CASE i # n
          <6>1. i \in 1..n - 1 /\ (i # 1 => i - 1 \in 1..n - 1 /\ i - 1 # n)
              BY <5>3, <3>1
          <6>2. f[i] = IF i = 1 THEN <<b>> ELSE WalkStep(t, f[i - 1])
              BY <3>3, <6>1 DEF Eqn
          <6> QED
              BY <6>1, <6>2, <5>3
        <5> QED
            BY <5>2, <5>3
      <4> QED
          BY <4>1 DEF Eqn
    <3> QED
        BY <3>4, <2>2
  <2> QED
      BY <2>3, <2>4
<1> DEFINE w == CHOOSE f : Eqn(f, ReorgLimit)
<1>3. Lineage(t, b) = w[ReorgLimit]
    BY DEF Lineage, WalkStep
<1> HIDE DEF Eqn
<1>4. Eqn(w, ReorgLimit)
    BY <1>1, <1>2
<1> HIDE DEF w
<1>5. \A i \in 1..ReorgLimit : w[i] = IF i = 1 THEN <<b>> ELSE WalkStep(t, w[i - 1])
    BY <1>4, ZenonT(60) DEF Eqn
<1>6. \A i \in 1..ReorgLimit : Walked(t, b, i, w[i])
  <2> DEFINE S == {i \in 1..ReorgLimit : ~Walked(t, b, i, w[i])}
  <2>1. SUFFICES ASSUME S # {} PROVE FALSE
      OBVIOUS
  <2>2. PICK n \in S : \A m \in S : n <= m
    <3>1. S \in SUBSET Nat
        BY <1>1
    <3> HIDE DEF S
    <3> QED
        BY <2>1, <3>1, LeastNat
  <2>3. CASE n = 1
      BY <2>2, <2>3, <1>5, WalkStarts
  <2>4. CASE n # 1
    <3>1. n - 1 \in 1..ReorgLimit /\ n - 1 \in Nat /\ n - 1 < n /\ n \in Nat /\ n - 1 >= 1
        BY <2>4, <1>1
    <3>2. Walked(t, b, n - 1, w[n - 1])
        BY <3>1, <2>2
    <3>3. Walked(t, b, n - 1 + 1, WalkStep(t, w[n - 1]))
        BY <3>1, <3>2, WalkGoesOn
    <3> QED
        BY <3>1, <3>3, <2>2, <2>4, <1>5
  <2> QED
      BY <2>3, <2>4
<1> QED
    BY <1>1, <1>3, <1>6

\* A run of ancestors of b, from b down to x.
Run(q, b, x) ==
    /\ q \in Seq(Block)
    /\ Len(q) = Slot[b] - Slot[x] + 1
    /\ \A j \in 1..Len(q) : q[j] \in Ancestors[b] /\ Slot[q[j]] = Slot[b] - j + 1

\* Cutting a walk at one of its blocks leaves a run down to that block.
LEMMA WalkCut ==
    ASSUME NEW t, NEW b \in Block, NEW n \in Nat, NEW q, Walked(t, b, n, q),
           NEW i \in DOMAIN q
    PROVE  /\ Run(SubSeq(q, 1, i), b, q[i])
           /\ q[i] \in Ancestors[b]
<1>0. q \in Seq(Block) /\ Slot[b] \in Nat
    BY TreeAssumption DEF Walked
<1>1. q \in Seq(Block) /\ Len(q) \in Nat /\ i \in 1..Len(q) /\ Slot[b] \in Nat
    BY <1>0
<1>2. \A j \in 1..Len(q) : q[j] \in Ancestors[b] /\ Slot[q[j]] = Slot[b] - j + 1
    BY DEF Walked
<1> DEFINE r == SubSeq(q, 1, i)
<1>3. /\ r \in Seq(Block) /\ Len(r) = i
      /\ \A j \in 1..i : r[j] = q[j]
    BY <1>1
<1>4. Slot[q[i]] = Slot[b] - i + 1
    BY <1>1, <1>2
<1>5. \A j \in 1..i : j \in 1..Len(q)
    BY <1>1
<1> HIDE DEF r
<1>6. Run(r, b, q[i])
  <2>1. Len(r) = Slot[b] - Slot[q[i]] + 1
      BY <1>1, <1>3, <1>4
  <2>2. \A j \in 1..Len(r) : r[j] \in Ancestors[b] /\ Slot[r[j]] = Slot[b] - j + 1
      BY <1>2, <1>3, <1>5
  <2> QED
      BY <2>1, <2>2, <1>3 DEF Run
<1> QED
    BY <1>1, <1>2, <1>6 DEF r

\* a is the last common ancestor of s and d.
Meets(s, d, a) ==
    /\ a \in Ancestors[s] \cap Ancestors[d]
    /\ \A x \in Ancestors[s] \cap Ancestors[d] : Slot[x] <= Slot[a]

\* u leads from s down to a and from there up to d.
Leads(u, s, a, d) ==
    /\ u.pivot = a
    /\ u.down \in Seq(Block) /\ Len(u.down) = Slot[s] - Slot[a]
    /\ \A i \in 1..Len(u.down) : u.down[i] \in Ancestors[s] /\ Slot[u.down[i]] = Slot[s] - i + 1
    /\ u.up \in Seq(Block) /\ Len(u.up) = Slot[d] - Slot[a]
    /\ \A i \in 1..Len(u.up) : u.up[i] \in Ancestors[d] /\ Slot[u.up[i]] = Slot[a] + i

\* The last part of compute_tip_update, on runs that end in the same block.
Joined(down1, up1) ==
    LET down2 == Reverse(down1)
        up2   == Reverse(up1)
        shared == {i \in DOMAIN down2 \cap DOMAIN up2 :
                      \A j \in 1..i : down2[j] = up2[j]}
        pivot == CHOOSE i \in shared : \A j \in shared : j <= i
    IN  [down  |-> Reverse(SubSeq(down2, pivot + 1, Len(down2))),
         pivot |-> up2[pivot],
         up    |-> SubSeq(up2, pivot + 1, Len(up2))]

LEMMA ReverseRun ==
    ASSUME NEW b \in Block, NEW x \in Ancestors[b], NEW q, Run(q, b, x)
    PROVE  /\ Reverse(q) \in Seq(Block) /\ Len(Reverse(q)) = Slot[b] - Slot[x] + 1
           /\ \A j \in 1..(Slot[b] - Slot[x] + 1) :
                 Reverse(q)[j] \in Ancestors[b] /\ Slot[Reverse(q)[j]] = Slot[x] + j - 1
<1>1. Slot[x] \in Nat /\ Slot[b] \in Nat /\ Slot[x] <= Slot[b]
    BY AncestorSlot, TreeAssumption
<1>2. q \in Seq(Block) /\ Len(q) = Slot[b] - Slot[x] + 1 /\ Len(q) \in Nat
    BY <1>1 DEF Run
<1> DEFINE r == Reverse(q)
<1>3. r = [i \in 1..Len(q) |-> q[(Len(q) - i) + 1]]
    BY DEF Reverse
<1>4. \A i \in 1..Len(q) : (Len(q) - i) + 1 \in 1..Len(q)
    BY <1>2
<1> HIDE DEF r
<1>5. r \in [1..Len(q) -> Block] /\ \A i \in 1..Len(q) : r[i] = q[(Len(q) - i) + 1]
    BY <1>2, <1>3, <1>4
<1>6. r \in Seq(Block) /\ Len(r) = Len(q)
    BY <1>2, <1>5
<1>7. ASSUME NEW j \in 1..Len(q)
      PROVE  r[j] \in Ancestors[b] /\ Slot[r[j]] = Slot[x] + j - 1
  <2>1. Slot[b] - ((Len(q) - j) + 1) + 1 = Slot[x] + j - 1
      BY <1>1, <1>2
  <2> QED
      BY <2>1, <1>4, <1>5 DEF Run
<1> QED
    BY <1>2, <1>6, <1>7 DEF r

LEMMA SuffixOfSeq ==
    ASSUME NEW q \in Seq(Block), NEW m \in Nat, m <= Len(q)
    PROVE  /\ SubSeq(q, m + 1, Len(q)) \in Seq(Block)
           /\ Len(SubSeq(q, m + 1, Len(q))) = Len(q) - m
           /\ \A i \in 1..Len(q) - m : SubSeq(q, m + 1, Len(q))[i] = q[m + i]
<1>1. SubSeq(q, m + 1, Len(q)) \in Seq(Block)
    OBVIOUS
<1>2. Len(SubSeq(q, m + 1, Len(q))) = Len(q) - m
    OBVIOUS
<1>3. \A i \in 1..Len(q) - m : SubSeq(q, m + 1, Len(q))[i] = q[m + i]
    OBVIOUS
<1> QED
    BY <1>1, <1>2, <1>3

\* Two runs down to the same block are joined at the last common ancestor.
LEMMA JoinedLeads ==
    ASSUME NEW s \in Block, NEW d \in Block, NEW a, Meets(s, d, a),
           NEW x \in Ancestors[s] \cap Ancestors[d],
           NEW dn, Run(dn, s, x), NEW up, Run(up, d, x)
    PROVE  Leads(Joined(dn, up), s, a, d)
<1> DEFINE down2 == Reverse(dn)
           up2 == Reverse(up)
           ls == Slot[s] - Slot[x] + 1
           ld == Slot[d] - Slot[x] + 1
           m == Slot[a] - Slot[x] + 1
           shared == {i \in DOMAIN down2 \cap DOMAIN up2 : \A j \in 1..i : down2[j] = up2[j]}
           pivot == CHOOSE i \in shared : \A j \in shared : j <= i
           u == Joined(dn, up)
<1>1. /\ Slot[x] \in Nat /\ Slot[s] \in Nat /\ Slot[d] \in Nat /\ Slot[a] \in Nat
      /\ Slot[x] <= Slot[a] /\ Slot[a] <= Slot[s] /\ Slot[a] <= Slot[d]
      /\ a \in Block /\ a \in Ancestors[s] /\ a \in Ancestors[d]
    BY AncestorSlot, AncestorsRefl, TreeAssumption DEF Meets
<1>2. /\ down2 \in Seq(Block) /\ Len(down2) = ls
      /\ \A j \in 1..ls : down2[j] \in Ancestors[s] /\ Slot[down2[j]] = Slot[x] + j - 1
    BY ReverseRun
<1>3. /\ up2 \in Seq(Block) /\ Len(up2) = ld
      /\ \A j \in 1..ld : up2[j] \in Ancestors[d] /\ Slot[up2[j]] = Slot[x] + j - 1
    BY ReverseRun
<1>4. u = [down  |-> Reverse(SubSeq(down2, pivot + 1, Len(down2))),
           pivot |-> up2[pivot],
           up    |-> SubSeq(up2, pivot + 1, Len(up2))]
    BY DEF Joined
<1> HIDE DEF down2, up2, u
<1>5. m \in Nat /\ ls \in Nat /\ ld \in Nat /\ 1 <= m /\ m <= ls /\ m <= ld
    BY <1>1
<1>6. DOMAIN down2 = 1..ls /\ DOMAIN up2 = 1..ld
    BY <1>2, <1>3
<1>7. ASSUME NEW j \in 1..m PROVE down2[j] = up2[j]
  <2>1. j \in 1..ls /\ j \in 1..ld /\ Slot[x] + j - 1 <= Slot[a]
      BY <1>1, <1>5
  <2>2. down2[j] \in Ancestors[a]
    <3>1. down2[j] \in Ancestors[s] /\ Slot[down2[j]] <= Slot[a]
        BY <2>1, <1>2
    <3> QED
        BY <3>1, <1>1, AncestorsChain
  <2>3. down2[j] \in Ancestors[d]
      BY <2>2, <1>1, AncestorsTrans
  <2>4. up2[j] \in Ancestors[d] /\ Slot[up2[j]] = Slot[down2[j]]
      BY <2>1, <1>2, <1>3
  <2> QED
      BY <2>3, <2>4, AncestorUnique
<1>8. ASSUME NEW j \in 1..ls, j \in 1..ld, down2[j] = up2[j] PROVE j <= m
  <2>1. down2[j] \in Ancestors[s] \cap Ancestors[d] /\ Slot[down2[j]] = Slot[x] + j - 1
      BY <1>2, <1>3, <1>8
  <2>2. Slot[x] + j - 1 <= Slot[a]
      BY <2>1 DEF Meets
  <2> QED
      BY <2>2, <1>1
<1>9. m \in shared /\ \A j \in shared : j <= m /\ j \in Nat
  <2> HIDE DEF m, ls, ld
  <2>1. m \in 1..ls /\ m \in 1..ld
      BY <1>5
  <2>2. m \in shared
      BY <2>1, <1>6, <1>7
  <2>3. ASSUME NEW j \in shared PROVE j <= m /\ j \in Nat
    <3>1. j \in 1..ls /\ j \in 1..ld /\ \A k \in 1..j : down2[k] = up2[k]
        BY <2>3, <1>6
    <3>2. j \in 1..j /\ j \in Nat
        BY <3>1, <1>5
    <3> QED
        BY <3>1, <3>2, <1>8
  <2> QED
      BY <2>2, <2>3
<1>10. pivot = m
  <2> HIDE DEF m, shared
  <2>1. pivot \in shared /\ \A j \in shared : j <= pivot
      BY <1>9
  <2> HIDE DEF pivot
  <2>2. pivot <= m /\ m <= pivot /\ pivot \in Nat
      BY <2>1, <1>9
  <2> QED
      BY <2>2, <1>5
<1> HIDE DEF pivot, shared
<1>11. up2[m] = a
  <2>1. m \in 1..ld /\ Slot[x] + m - 1 = Slot[a]
      BY <1>1, <1>5
  <2>2. up2[m] \in Ancestors[d] /\ Slot[up2[m]] = Slot[a]
      BY <2>1, <1>3
  <2> QED
      BY <2>2, <1>1, AncestorUnique
<1> DEFINE v == SubSeq(down2, m + 1, ls)
           w == SubSeq(up2, m + 1, ld)
<1>12. /\ v \in Seq(Block) /\ Len(v) = Slot[s] - Slot[a]
       /\ \A i \in 1..Slot[s] - Slot[a] : v[i] = down2[m + i]
  <2>1. ls - m = Slot[s] - Slot[a]
      BY <1>1
  <2> HIDE DEF ls, m
  <2> QED
      BY <2>1, <1>2, <1>5, SuffixOfSeq
<1>13. /\ w \in Seq(Block) /\ Len(w) = Slot[d] - Slot[a]
       /\ \A i \in 1..Slot[d] - Slot[a] : w[i] = up2[m + i]
  <2>1. ld - m = Slot[d] - Slot[a]
      BY <1>1
  <2> HIDE DEF ld, m
  <2> QED
      BY <2>1, <1>3, <1>5, SuffixOfSeq
<1> HIDE DEF v, w
<1>14. u.pivot = a /\ u.down = Reverse(v) /\ u.up = w
    BY <1>2, <1>3, <1>4, <1>10, <1>11, ZenonT(60) DEF v, w
<1>15. ASSUME NEW i \in 1..Slot[d] - Slot[a]
       PROVE  w[i] \in Ancestors[d] /\ Slot[w[i]] = Slot[a] + i
  <2>1. m + i \in 1..ld /\ Slot[x] + (m + i) - 1 = Slot[a] + i
      BY <1>1
  <2> QED
      BY <2>1, <1>3, <1>13
<1>16. ASSUME NEW i \in 1..Slot[s] - Slot[a]
       PROVE  v[i] \in Ancestors[s] /\ Slot[v[i]] = Slot[a] + i
  <2>1. m + i \in 1..ls /\ Slot[x] + (m + i) - 1 = Slot[a] + i
      BY <1>1
  <2> QED
      BY <2>1, <1>2, <1>12
<1> DEFINE n == Slot[s] - Slot[a]
           r == Reverse(v)
<1>17. n \in Nat /\ \A i \in 1..n : (n - i) + 1 \in 1..n /\ Slot[a] + ((n - i) + 1) = Slot[s] - i + 1
    BY <1>1
<1>18. r = [i \in 1..n |-> v[(n - i) + 1]]
    BY <1>12 DEF Reverse
<1> HIDE DEF n, r
<1>19. r \in [1..n -> Block] /\ \A i \in 1..n : r[i] = v[(n - i) + 1]
  <2>1. v \in Seq(Block) /\ Len(v) = n
      BY <1>12 DEF n
  <2>2. \A i \in 1..n : v[i] \in Block
      BY <2>1, <1>17
  <2> QED
      BY <2>2, <1>17, <1>18
<1>20. r \in Seq(Block) /\ Len(r) = n
    BY <1>17, <1>19
<1>21. ASSUME NEW i \in 1..n
       PROVE  r[i] \in Ancestors[s] /\ Slot[r[i]] = Slot[s] - i + 1
  <2>1. (n - i) + 1 \in 1..n /\ Slot[a] + ((n - i) + 1) = Slot[s] - i + 1
      BY <1>17
  <2>2. v[(n - i) + 1] \in Ancestors[s] /\ Slot[v[(n - i) + 1]] = Slot[a] + ((n - i) + 1)
      BY <2>1, <1>16 DEF n
  <2> QED
      BY <2>1, <2>2, <1>19
<1> QED
    BY <1>13, <1>14, <1>15, <1>20, <1>21 DEF Leads, u, n, r

\* Two blocks have a last common ancestor, and only one.
LEMMA MeetsExists ==
    ASSUME NEW s \in Block, NEW d \in Block
    PROVE  \E a \in Block : Meets(s, d, a)
<1> DEFINE C == Ancestors[s] \cap Ancestors[d]
           T == {Slot[s] - Slot[x] : x \in C}
<1>1. \A b \in Block : Genesis \in Ancestors[b]
  <2>1. ASSUME NEW b \in Block PROVE Genesis \in Ancestors[b]
    <3>1. 0 \in 0..Slot[b] /\ Slot[Genesis] = 0 /\ Genesis \in Block
        BY TreeAssumption
    <3>2. PICK x \in Ancestors[b] : Slot[x] = 0
        BY <3>1, AncestorAt
    <3>3. x \in Block
        BY AncestorsRefl
    <3>4. x = Genesis
      <4>1. ASSUME x # Genesis PROVE Slot[x] = Slot[Parent[x]] + 1 /\ Slot[Parent[x]] \in Nat
          BY <4>1, <3>3, TreeAssumption
      <4> QED
          BY <4>1, <3>2
    <3> QED
        BY <3>4
  <2> QED
      BY <2>1
<1>2. C # {} /\ C \subseteq Block
    BY <1>1, AncestorsRefl
<1>3. \A x \in C : Slot[x] \in Nat /\ Slot[s] \in Nat /\ Slot[x] <= Slot[s]
    BY AncestorSlot, TreeAssumption
<1> HIDE DEF C
<1>4. T \in SUBSET Nat /\ T # {}
    BY <1>2, <1>3
<1>5. PICK n \in T : \A m \in T : n <= m
  <2> HIDE DEF T
  <2> QED
      BY <1>4, LeastNat
<1>6. PICK a \in C : n = Slot[s] - Slot[a]
    BY <1>5
<1>7. \A x \in C : Slot[s] - Slot[a] <= Slot[s] - Slot[x]
    BY <1>5, <1>6
<1>8. \A x \in C : Slot[x] <= Slot[a]
    BY <1>3, <1>7
<1> QED
    BY <1>2, <1>8 DEF Meets, C

LEMMA MeetsUnique ==
    ASSUME NEW s \in Block, NEW d \in Block, NEW a, Meets(s, d, a), NEW b, Meets(s, d, b)
    PROVE  a = b
<1>1. /\ a \in Ancestors[s] /\ b \in Ancestors[s]
      /\ Slot[a] <= Slot[b] /\ Slot[b] <= Slot[a]
      /\ Slot[a] \in Nat /\ Slot[b] \in Nat
    BY AncestorSlot DEF Meets
<1>2. Slot[a] = Slot[b]
    BY <1>1
<1> QED
    BY <1>1, <1>2, AncestorUnique

\* One lineage ends in the other.
Overlap(t, s, d) ==
    \/ Last(Lineage(t, s)) \in Range(Lineage(t, d))
    \/ Last(Lineage(t, d)) \in Range(Lineage(t, s))

LEMMA TipUpdateJoins ==
    ASSUME NEW t \in Trackers, NEW s \in Block, NEW d \in Block, NEW a, Meets(s, d, a),
           s # d, GetParent(t, d) = s \/ Overlap(t, s, d)
    PROVE  Leads(TipUpdate(t, s, d), s, a, d)
<1> DEFINE down0 == Lineage(t, s)
           up0 == Lineage(t, d)
           cut(q, x) == SubSeq(q, 1, CHOOSE i \in DOMAIN q : q[i] = x)
           down1 == IF Last(down0) \in Range(up0) THEN down0 ELSE cut(down0, Last(up0))
           up1   == IF Last(down0) \in Range(up0) THEN cut(up0, Last(down0)) ELSE up0
           u == TipUpdate(t, s, d)
<1>1. /\ s # d
      /\ u = IF GetParent(t, d) = s
             THEN [down |-> <<>>, pivot |-> s, up |-> <<d>>]
             ELSE Joined(down1, up1)
      /\ \/ GetParent(t, d) = s
         \/ Last(down0) \in Range(up0)
         \/ Last(up0) \in Range(down0)
    BY ZenonT(60) DEF TipUpdate, Joined, Overlap
<1>2. Walked(t, s, ReorgLimit, down0) /\ Walked(t, d, ReorgLimit, up0)
    BY LineageIsWalk
<1> HIDE DEF down0, up0, u
<1>3. ReorgLimit \in Nat
    BY LimitAssumption
<1>4. ASSUME NEW b \in Block, NEW q, Walked(t, b, ReorgLimit, q)
      PROVE  /\ Last(q) \in Ancestors[b] /\ Run(q, b, Last(q))
             /\ \A x \in Range(q) : x \in Ancestors[b] /\ Run(cut(q, x), b, x)
  <2>1. q \in Seq(Block) /\ Len(q) \in 1..ReorgLimit
      BY <1>4 DEF Walked
  <2>2. Len(q) \in DOMAIN q /\ SubSeq(q, 1, Len(q)) = q /\ Last(q) = q[Len(q)]
      BY <2>1, <1>3 DEF Last
  <2>3. Last(q) \in Ancestors[b] /\ Run(q, b, Last(q))
      BY <2>2, <1>3, <1>4, WalkCut, ZenonT(60)
  <2>4. ASSUME NEW x \in Range(q) PROVE x \in Ancestors[b] /\ Run(cut(q, x), b, x)
    <3> DEFINE i == CHOOSE i \in DOMAIN q : q[i] = x
    <3>1. i \in DOMAIN q /\ q[i] = x
        BY <2>4 DEF Range
    <3> HIDE DEF i
    <3>2. Run(SubSeq(q, 1, i), b, x) /\ x \in Ancestors[b]
        BY <3>1, <1>3, <1>4, WalkCut, ZenonT(60)
    <3> QED
        BY <3>2 DEF i
  <2> QED
      BY <2>3, <2>4
<1> HIDE DEF cut
<1>5. CASE GetParent(t, d) = s
  <2>1. s = Parent[d] /\ d # Genesis
      BY <1>5, TreeAssumption DEF GetParent
  <2>2. Slot[d] = Slot[s] + 1 /\ Slot[s] \in Nat /\ s \in Ancestors[d] /\ s \in Ancestors[s]
        /\ d \in Ancestors[d]
      BY <2>1, TreeAssumption, AncestorsRefl
  <2>3. a = s
    <3>1. \A x \in Ancestors[s] : Slot[x] <= Slot[s]
        BY AncestorSlot
    <3>2. Meets(s, d, s)
        BY <3>1, <2>2 DEF Meets
    <3> QED
        BY <3>2, MeetsUnique
  <2>4. u.down = <<>> /\ u.pivot = s /\ u.up = <<d>>
      BY <1>1, <1>5
  <2> QED
      BY <2>2, <2>3, <2>4 DEF Leads, u
<1>6. CASE GetParent(t, d) # s /\ Last(down0) \in Range(up0)
  <2>1. u = Joined(down0, cut(up0, Last(down0)))
      BY <1>1, <1>6
  <2>2. Last(down0) \in Ancestors[s] \cap Ancestors[d]
      BY <1>2, <1>4, <1>6
  <2>3. Run(down0, s, Last(down0)) /\ Run(cut(up0, Last(down0)), d, Last(down0))
      BY <1>2, <1>4, <1>6
  <2> QED
      BY <2>1, <2>2, <2>3, JoinedLeads DEF u
<1>7. CASE GetParent(t, d) # s /\ Last(down0) \notin Range(up0)
  <2>1. u = Joined(cut(down0, Last(up0)), up0) /\ Last(up0) \in Range(down0)
      BY <1>1, <1>7
  <2>2. Last(up0) \in Ancestors[s] \cap Ancestors[d]
      BY <1>2, <1>4, <2>1
  <2>3. Run(up0, d, Last(up0)) /\ Run(cut(down0, Last(up0)), s, Last(up0))
      BY <1>2, <1>4, <2>1
  <2> QED
      BY <2>1, <2>2, <2>3, JoinedLeads DEF u
<1> QED
    BY <1>5, <1>6, <1>7

\* Whatever the tracker holds, a tip update leads from the start to the
\* destination through their last common ancestor.
LEMMA TipUpdateLeads ==
    ASSUME NEW t \in Trackers, NEW s \in Block, NEW d \in Block, NEW a, Meets(s, d, a),
           TipUpdate(t, s, d) # NoUpdate
    PROVE  Leads(TipUpdate(t, s, d), s, a, d)
<1>1. s # d /\ (GetParent(t, d) = s \/ Overlap(t, s, d))
    BY ZenonT(60) DEF TipUpdate, Overlap
<1> QED
    BY <1>1, TipUpdateJoins

=============================================================================
