------------------------ MODULE BlockTrackerProofs ------------------------

(***************************************************************************)
(* The tracker's tips are the leaves of its live tree, finalizing an epoch  *)
(* keeps exactly the descendants of its terminal block, and a tip update is *)
(* the path between two live blocks, for every block tree and limit.        *)
(* Attaching and finalizing keep the tracker connected, which the first two *)
(* rest on.                                                                 *)
(***************************************************************************)
EXTENDS BlockTracker, UnfinalizedTrackerProofs

\* In a connected tracker the live blocks are the descendants of the
\* finalized tip that have an entry.
LEMMA LiveOfConnected ==
    ASSUME NEW t, Connected(t)
    PROVE  Live(t) = {c \in t.table : t.fin \in Ancestors[c]}
BY DEF Connected, Live, Traceable

\* attach_block keeps the tracker connected; a block above the finalized tip
\* becomes live, another one changes nothing there.
LEMMA AttachConnected ==
    ASSUME NEW t, Connected(t), NEW b \in Block, b \notin t.table, Parent[b] \in t.table
    PROVE  /\ Connected(AttachBlock(t, b))
           /\ AttachBlock(t, b).fin = t.fin
           /\ Live(AttachBlock(t, b)) =
                 IF t.fin \in Ancestors[b] THEN Live(t) \cup {b} ELSE Live(t)
<1> DEFINE u == AttachBlock(t, b)
<1>1. /\ u.fin = t.fin
      /\ u.table = t.table \cup {b}
      /\ u \in Trackers
    BY ZenonT(60) DEF Connected, Trackers, AttachBlock
<1>2. b # t.fin
    BY DEF Connected
<1> HIDE DEF u
<1>3. ASSUME NEW c \in u.table, t.fin \in Ancestors[c]
      PROVE  Above(t.fin, c) \subseteq u.table
  <2>1. CASE c \in t.table
      BY <2>1, <1>1, <1>3 DEF Connected
  <2>2. CASE c = b
    <3>1. t.fin \in Ancestors[Parent[b]] /\ Above(t.fin, b) = {b} \cup Above(t.fin, Parent[b])
        BY <2>2, <1>2, <1>3, AboveParent DEF Connected, Trackers
    <3> QED
        BY <3>1, <2>2, <1>1 DEF Connected
  <2> QED
      BY <2>1, <2>2, <1>1
<1>4. Connected(u)
    BY <1>1, <1>3 DEF Connected
<1>5. Live(u) = {c \in u.table : t.fin \in Ancestors[c]}
    BY <1>1, <1>4, LiveOfConnected
<1>6. Live(t) = {c \in t.table : t.fin \in Ancestors[c]}
    BY LiveOfConnected
<1>7. Live(u) = IF t.fin \in Ancestors[b] THEN Live(t) \cup {b} ELSE Live(t)
    BY <1>1, <1>5, <1>6
<1> QED
    BY <1>1, <1>4, <1>7 DEF u

\* update_finalized_epoch keeps the tracker connected, and its live blocks are
\* then the old ones above the new finalized tip.
LEMMA FinalizeConnected ==
    ASSUME NEW t, Connected(t), NEW e \in Block, Traceable(t, e), e # t.fin
    PROVE  /\ Connected(UpdateFinalized(t, e))
           /\ UpdateFinalized(t, e).fin = e
           /\ Live(UpdateFinalized(t, e)) = {c \in Live(t) : e \in Ancestors[c]}
           /\ UpdateFinalized(t, e).tips \cap Live(UpdateFinalized(t, e)) =
                 t.tips \cap Live(UpdateFinalized(t, e))
<1> DEFINE u == UpdateFinalized(t, e)
           gone == Evicted(t, e) \cup (FinalizedPath(t, e) \ {e})
<1>1. /\ u.fin = e
      /\ u.table = t.table \ gone
      /\ u.tips = t.tips \ gone
    BY DEF UpdateFinalized
<1>2. u \in Trackers
    BY DEF UpdateFinalized, Connected, Trackers
<1>3. \A c \in Block : e \in Ancestors[c] => c \notin gone
    BY FinalizeGone
<1> HIDE DEF u, gone
<1>4. t.fin \in Block /\ t.table \subseteq Block /\ t.fin \in Ancestors[e]
    BY DEF Connected, Trackers, Traceable
<1>5. Slot[t.fin] <= Slot[e] /\ Slot[t.fin] \in Nat /\ Slot[e] \in Nat /\ Slot[t.fin] # Slot[e]
    BY <1>4, AncestorSlot, TreeAssumption
<1>6. e \in t.table
    BY <1>5, AncestorsRefl DEF Traceable, Above
<1>7. e \in u.table
    BY <1>1, <1>3, <1>6, AncestorsRefl
<1>8. ASSUME NEW c \in t.table, e \in Ancestors[c]
      PROVE  /\ t.fin \in Ancestors[c]
             /\ Above(e, c) \subseteq u.table
  <2>1. t.fin \in Ancestors[c]
      BY <1>4, <1>8, AncestorsTrans
  <2>2. Above(t.fin, c) \subseteq t.table
      BY <2>1 DEF Connected
  <2>3. ASSUME NEW y \in Above(e, c) PROVE y \in u.table
    <3>1. y \in Ancestors[c] /\ Slot[y] > Slot[e] /\ y \in Block /\ c \in Block
        BY <1>4, <1>8, <2>3, AncestorsRefl DEF Above
    <3>2. Slot[y] \in Nat
        BY <3>1, TreeAssumption
    <3>3. y \in t.table
        BY <3>1, <3>2, <2>2, <1>5 DEF Above
    <3>4. e \in Ancestors[y]
        BY <3>1, <3>2, <1>5, <1>8, AncestorsChain
    <3> QED
        BY <3>1, <3>3, <3>4, <1>1, <1>3
  <2> QED
      BY <2>1, <2>3
<1>9. Connected(u)
    BY <1>1, <1>2, <1>7, <1>8 DEF Connected
<1>10. Live(u) = {c \in u.table : e \in Ancestors[c]}
    BY <1>1, <1>9, LiveOfConnected
<1>11. Live(t) = {c \in t.table : t.fin \in Ancestors[c]}
    BY LiveOfConnected
<1>12. Live(u) = {c \in Live(t) : e \in Ancestors[c]}
    BY <1>1, <1>3, <1>4, <1>8, <1>10, <1>11
<1>13. u.tips \cap Live(u) = t.tips \cap Live(u)
    BY <1>1, <1>3, <1>4, <1>10
<1> QED
    BY <1>1, <1>9, <1>12, <1>13 DEF u

\* The walk of a traceable block reaches down to its limit or to the
\* finalized tip, and holds every ancestor above its end.
LEMMA LineageReaches ==
    ASSUME NEW t \in Trackers, NEW b \in Block, Traceable(t, b), NEW a \in Block,
           Slot[t.fin] <= Slot[a], Slot[b] - Slot[a] < ReorgLimit
    PROVE  Slot[Last(Lineage(t, b))] <= Slot[a]
<1> DEFINE q == Lineage(t, b)
           x == q[Len(q)]
<1>1. Walked(t, b, ReorgLimit, q)
    BY LineageIsWalk
<1> HIDE DEF q
<1>2. /\ ReorgLimit \in Nat /\ q \in Seq(Block) /\ Len(q) \in 1..ReorgLimit
      /\ Slot[a] \in Nat /\ Slot[b] \in Nat /\ t.fin \in Block /\ Slot[t.fin] \in Nat
    BY <1>1, LimitAssumption, TreeAssumption DEF Walked, Trackers
<1>3. /\ Last(q) = x /\ x \in Ancestors[b] /\ x \in Block
      /\ Slot[x] = Slot[b] - Len(q) + 1 /\ Slot[x] \in Nat
    BY <1>1, <1>2, AncestorSlot, AncestorsRefl DEF Walked, Last
<1>4. CASE Len(q) = ReorgLimit
    BY <1>2, <1>3, <1>4 DEF q
<1>5. CASE Len(q) < ReorgLimit
  <2>1. GetParent(t, x) = Null
      BY <1>1, <1>5 DEF Walked
  <2>2. ASSUME Slot[x] > Slot[t.fin] PROVE FALSE
    <3>1. x \in t.table /\ x # t.fin
        BY <2>2, <1>2, <1>3 DEF Traceable, Above
    <3>2. x # Genesis
        BY <2>2, <1>2, TreeAssumption
    <3>3. Parent[x] \in Block
        BY <3>2, <1>3, TreeAssumption
    <3> QED
        BY <3>1, <3>3, <2>1, TreeAssumption DEF GetParent
  <2> QED
      BY <2>2, <1>2, <1>3 DEF q
<1> QED
    BY <1>2, <1>4, <1>5

LEMMA LineageHolds ==
    ASSUME NEW t \in Trackers, NEW b \in Block, NEW x \in Ancestors[b],
           Slot[Last(Lineage(t, b))] <= Slot[x]
    PROVE  x \in Range(Lineage(t, b))
<1> DEFINE q == Lineage(t, b)
           j == Slot[b] - Slot[x] + 1
<1>1. Walked(t, b, ReorgLimit, q)
    BY LineageIsWalk
<1>2. Slot[Last(q)] <= Slot[x]
    OBVIOUS
<1> HIDE DEF q
<1>3. ReorgLimit \in Nat /\ q \in Seq(Block) /\ Len(q) \in 1..ReorgLimit
    BY <1>1, LimitAssumption DEF Walked
<1>4. Last(q) = q[Len(q)] /\ Slot[q[Len(q)]] = Slot[b] - Len(q) + 1
    BY <1>1, <1>3 DEF Walked, Last
<1>5. Slot[x] \in Nat /\ Slot[b] \in Nat /\ Slot[x] <= Slot[b]
    BY AncestorSlot, TreeAssumption
<1>6. j \in 1..Len(q)
    BY <1>2, <1>3, <1>4, <1>5
<1>7. q[j] \in Ancestors[b] /\ Slot[q[j]] = Slot[b] - j + 1
    BY <1>1, <1>6 DEF Walked
<1>8. Slot[q[j]] = Slot[x]
    BY <1>5, <1>7
<1>9. q[j] = x
    BY <1>7, <1>8, AncestorUnique
<1>10. j \in DOMAIN q
    BY <1>3, <1>6
<1> QED
    BY <1>9, <1>10 DEF Range, q

\* Between traceable blocks whose last common ancestor is within the limit of
\* both, a tip update is found.
LEMMA TipUpdateFound ==
    ASSUME NEW t \in Trackers, NEW s \in Block, NEW d \in Block, NEW a, Meets(s, d, a),
           Traceable(t, s), Traceable(t, d), s # d,
           Slot[s] - Slot[a] < ReorgLimit, Slot[d] - Slot[a] < ReorgLimit
    PROVE  TipUpdate(t, s, d) # NoUpdate
<1> DEFINE down0 == Lineage(t, s)
           up0 == Lineage(t, d)
           x == Last(down0)
           y == Last(up0)
<1>1. a \in Block /\ a \in Ancestors[s] /\ a \in Ancestors[d] /\ Slot[a] \in Nat
    BY AncestorsRefl, AncestorSlot DEF Meets
<1>2. Slot[t.fin] <= Slot[a]
    BY DEF Meets, Traceable
<1>3. Slot[x] <= Slot[a] /\ Slot[y] <= Slot[a]
    BY <1>1, <1>2, LineageReaches
<1>4. ASSUME NEW b \in Block
      PROVE  Last(Lineage(t, b)) \in Ancestors[b] /\ Slot[Last(Lineage(t, b))] \in Nat
  <2> DEFINE q == Lineage(t, b)
  <2>1. Walked(t, b, ReorgLimit, q)
      BY LineageIsWalk
  <2> HIDE DEF q
  <2>2. q \in Seq(Block) /\ Len(q) \in 1..ReorgLimit /\ ReorgLimit \in Nat
      BY <2>1, LimitAssumption DEF Walked
  <2>3. Last(q) \in Ancestors[b]
      BY <2>1, <2>2 DEF Walked, Last
  <2> QED
      BY <2>3, AncestorSlot DEF q
<1>5. ASSUME Slot[x] >= Slot[y] PROVE Overlap(t, s, d)
  <2>1. x \in Ancestors[a]
      BY <1>1, <1>3, <1>4, AncestorsChain
  <2>2. x \in Ancestors[d]
      BY <2>1, <1>1, AncestorsTrans
  <2>3. x \in Range(up0)
    <3>1. Slot[y] <= Slot[x]
        BY <1>4, <1>5
    <3> QED
        BY <3>1, <2>2, LineageHolds
  <2> QED
      BY <2>3 DEF Overlap
<1>6. ASSUME Slot[y] >= Slot[x] PROVE Overlap(t, s, d)
  <2>1. y \in Ancestors[a]
      BY <1>1, <1>3, <1>4, AncestorsChain
  <2>2. y \in Ancestors[s]
      BY <2>1, <1>1, AncestorsTrans
  <2>3. y \in Range(down0)
    <3>1. Slot[x] <= Slot[y]
        BY <1>4, <1>6
    <3> QED
        BY <3>1, <2>2, LineageHolds
  <2> QED
      BY <2>3 DEF Overlap
<1>7. Overlap(t, s, d)
    BY <1>4, <1>5, <1>6
<1>8. TipUpdate(t, s, d).pivot = a
    BY <1>7, TipUpdateJoins DEF Leads
<1> QED
    BY <1>1, <1>8, TreeAssumption DEF NoUpdate

\* The blocks of a path are those of the branch it follows.
LEMMA LeadsAbove ==
    ASSUME NEW s \in Block, NEW d \in Block, NEW a, Meets(s, d, a), NEW u, Leads(u, s, a, d)
    PROVE  Range(u.down) = Above(a, s) /\ Range(u.up) = Above(a, d)
<1>1. /\ Slot[s] \in Nat /\ Slot[d] \in Nat /\ Slot[a] \in Nat
      /\ Slot[a] <= Slot[s] /\ Slot[a] <= Slot[d]
    BY AncestorSlot, TreeAssumption DEF Meets
<1> DEFINE ns == Slot[s] - Slot[a]
           nd == Slot[d] - Slot[a]
<1>2. /\ ns \in Nat /\ nd \in Nat
      /\ u.down \in Seq(Block) /\ Len(u.down) = ns
      /\ u.up \in Seq(Block) /\ Len(u.up) = nd
    BY <1>1 DEF Leads
<1>3. DOMAIN u.down = 1..ns /\ DOMAIN u.up = 1..nd
    BY <1>2
<1>4. ASSUME NEW i \in 1..ns PROVE u.down[i] \in Above(a, s)
  <2>1. u.down[i] \in Ancestors[s] /\ Slot[u.down[i]] = Slot[s] - i + 1
      BY <1>2 DEF Leads
  <2> QED
      BY <2>1, <1>1 DEF Above
<1>5. ASSUME NEW i \in 1..nd PROVE u.up[i] \in Above(a, d)
  <2>1. u.up[i] \in Ancestors[d] /\ Slot[u.up[i]] = Slot[a] + i
      BY <1>2 DEF Leads
  <2> QED
      BY <2>1, <1>1 DEF Above
<1>6. ASSUME NEW x \in Above(a, s) PROVE \E i \in 1..ns : u.down[i] = x
  <2>1. x \in Ancestors[s] /\ Slot[x] > Slot[a] /\ Slot[x] \in Nat /\ Slot[x] <= Slot[s]
      BY AncestorSlot DEF Above
  <2> DEFINE i == Slot[s] - Slot[x] + 1
  <2>2. i \in 1..ns /\ Slot[s] - i + 1 = Slot[x]
      BY <2>1, <1>1
  <2> HIDE DEF i
  <2>3. u.down[i] \in Ancestors[s] /\ Slot[u.down[i]] = Slot[x]
      BY <2>2, <1>2 DEF Leads
  <2> QED
      BY <2>1, <2>2, <2>3, AncestorUnique
<1>7. ASSUME NEW x \in Above(a, d) PROVE \E i \in 1..nd : u.up[i] = x
  <2>1. x \in Ancestors[d] /\ Slot[x] > Slot[a] /\ Slot[x] \in Nat /\ Slot[x] <= Slot[d]
      BY AncestorSlot DEF Above
  <2> DEFINE i == Slot[x] - Slot[a]
  <2>2. i \in 1..nd /\ Slot[a] + i = Slot[x]
      BY <2>1, <1>1
  <2> HIDE DEF i
  <2>3. u.up[i] \in Ancestors[d] /\ Slot[u.up[i]] = Slot[x]
      BY <2>2, <1>2 DEF Leads
  <2> QED
      BY <2>1, <2>2, <2>3, AncestorUnique
<1> HIDE DEF ns, nd
<1>8. Range(u.down) = Above(a, s)
    BY <1>3, <1>4, <1>6 DEF Range
<1>9. Range(u.up) = Above(a, d)
    BY <1>3, <1>5, <1>7 DEF Range
<1> QED
    BY <1>8, <1>9

-----------------------------------------------------------------------------

\* The back ends a leaf is tried with, in this order.
USE SMT, Z3, ZenonT(60)

\* The tracker is connected and its tips are the leaves.
IInv == Connected(tracker) /\ TipsAreLeaves

-----------------------------------------------------------------------------

\* new_empty makes a connected tracker whose only tip is its base.
LEMMA InitIInv == Init => IInv
<1> SUFFICES ASSUME Init PROVE IInv
    OBVIOUS
<1>1. /\ tracker = [fin |-> Genesis, table |-> {Genesis}, tips |-> {Genesis}]
      /\ Genesis \in Block /\ Ancestors[Genesis] = {Genesis}
    BY TreeAssumption DEF Init, NewEmpty
<1>2. Above(Genesis, Genesis) = {}
    BY <1>1, TreeAssumption DEF Above
<1>3. Connected(tracker)
    BY <1>1, <1>2 DEF Connected, Trackers
<1>4. Live(tracker) = {Genesis}
    BY <1>1, <1>3, LiveOfConnected
<1>5. Parent[Genesis] # Genesis
    BY TreeAssumption
<1> QED
    BY <1>1, <1>3, <1>4, <1>5 DEF IInv, TipsAreLeaves, Leaves

\* attach_block replaces the parent by the new block among the leaves.
LEMMA AttachIInv ==
    ASSUME IInv, NEW b \in Block, Attach(b)
    PROVE  IInv' /\ tracker'.fin = tracker.fin
<1>1. CASE b \in tracker.table
    BY <1>1 DEF Attach, AttachBlock, IInv, TipsAreLeaves
<1>2. CASE b \notin tracker.table
  <2>1. Parent[b] \in tracker.table
      BY <1>2 DEF Attach, CanAttach
  <2>2. /\ Connected(tracker')
        /\ tracker'.fin = tracker.fin
        /\ Live(tracker') = IF tracker.fin \in Ancestors[b]
                            THEN Live(tracker) \cup {b} ELSE Live(tracker)
      BY <1>2, <2>1, AttachConnected DEF Attach, IInv
  <2>3. tracker'.tips = (tracker.tips \ {Parent[b]}) \cup {b}
      BY <1>2 DEF Attach, AttachBlock, IInv, Connected, Trackers
  <2>4. Live(tracker) = {c \in tracker.table : tracker.fin \in Ancestors[c]}
      BY LiveOfConnected DEF IInv
  <2>5. b # tracker.fin /\ tracker.fin \in Block /\ tracker.table \subseteq Block
      BY <1>2 DEF IInv, Connected, Trackers
  <2>6. ASSUME tracker.fin \in Ancestors[b], NEW c \in Live(tracker), Parent[c] = b
        PROVE  FALSE
    <3>1. c \in Block /\ c \in tracker.table /\ tracker.fin \in Ancestors[c]
        BY <2>4, <2>5, <2>6
    <3>2. Slot[tracker.fin] <= Slot[b] /\ Slot[b] \in Nat /\ Slot[tracker.fin] \in Nat
          /\ (Slot[tracker.fin] = Slot[b] => tracker.fin = b)
        BY <2>5, <2>6, AncestorSlot, TreeAssumption
    <3>3. c # Genesis
        BY <2>6, TreeAssumption
    <3>4. Slot[c] = Slot[b] + 1
        BY <3>1, <3>3, <2>6, TreeAssumption
    <3>5. c # tracker.fin
        BY <3>2, <3>4
    <3>6. b \in Above(tracker.fin, c)
      <4>1. Above(tracker.fin, c) = {c} \cup Above(tracker.fin, b)
          BY <3>1, <3>5, <2>5, <2>6, AboveParent
      <4>2. b \in Above(tracker.fin, b)
          BY <3>2, <2>5, AncestorsRefl DEF Above
      <4> QED
          BY <4>1, <4>2
    <3> QED
        BY <3>1, <3>6, <1>2 DEF IInv, Connected
  <2>7. CASE tracker.fin \in Ancestors[b]
    <3>1. Live(tracker') = Live(tracker) \cup {b}
        BY <2>2, <2>7
    <3>2. Parent[b] # b
        BY <1>2, <2>1
    <3>3. Leaves(Live(tracker')) = (Leaves(Live(tracker)) \ {Parent[b]}) \cup {b}
        BY <3>1, <3>2, <2>6, <2>7 DEF Leaves
    <3>4. b \notin Live(tracker)
        BY <1>2, <2>4
    <3>5. TipsAreLeaves'
        BY <3>1, <3>3, <3>4, <2>3 DEF IInv, TipsAreLeaves
    <3> QED
        BY <3>5, <2>2 DEF IInv
  <2>8. CASE tracker.fin \notin Ancestors[b]
    <3>1. b # Genesis /\ Ancestors[b] = {b} \cup Ancestors[Parent[b]]
        BY <2>1, <2>5, TreeAssumption
    <3>2. Parent[b] \notin Live(tracker) /\ b \notin Live(tracker)
        BY <3>1, <2>4, <2>8, <1>2
    <3>3. TipsAreLeaves'
        BY <3>2, <2>2, <2>3, <2>8 DEF IInv, TipsAreLeaves
    <3> QED
        BY <3>3, <2>2 DEF IInv
  <2> QED
      BY <2>7, <2>8
<1> QED
    BY <1>1, <1>2

\* update_finalized_epoch removes whole branches, so a block that stays live is
\* a leaf after it exactly when it was one before.
LEMMA FinalizeIInv ==
    ASSUME IInv, NEW e \in Terminal, Finalize(e)
    PROVE  /\ IInv'
           /\ tracker'.fin = e
           /\ Live(tracker') = {c \in Live(tracker) : e \in Ancestors[c]}
<1>1. e \in Block /\ e # tracker.fin /\ Traceable(tracker, e)
    BY TreeAssumption DEF Finalize, IInv, Connected, Trackers
<1>2. /\ Connected(tracker')
      /\ tracker'.fin = e
      /\ Live(tracker') = {c \in Live(tracker) : e \in Ancestors[c]}
      /\ tracker'.tips \cap Live(tracker') = tracker.tips \cap Live(tracker')
    BY <1>1, FinalizeConnected DEF Finalize, IInv
<1>3. Live(tracker) \subseteq Block
    BY DEF Live, IInv, Connected, Trackers
<1>4. ASSUME NEW b \in Live(tracker'), NEW c \in Live(tracker), Parent[c] = b
      PROVE  c \in Live(tracker')
  <2>1. c \in Block /\ b \in Block /\ e \in Ancestors[b]
      BY <1>2, <1>3
  <2>2. c # Genesis
      BY <2>1, <1>4, TreeAssumption
  <2>3. Ancestors[c] = {c} \cup Ancestors[b]
      BY <2>1, <2>2, <1>4, TreeAssumption
  <2> QED
      BY <2>1, <2>3, <1>2
<1>5. Leaves(Live(tracker')) = Leaves(Live(tracker)) \cap Live(tracker')
    BY <1>2, <1>4 DEF Leaves
<1>6. TipsAreLeaves'
    BY <1>2, <1>5 DEF IInv, TipsAreLeaves
<1> QED
    BY <1>2, <1>6 DEF IInv

\* The inductive invariant: connected, with the leaves for tips.
LEMMA IInvInvariant == Spec => []IInv
<1>1. IInv /\ [Next]_tracker => IInv'
  <2> SUFFICES ASSUME IInv, [Next]_tracker PROVE IInv'
      OBVIOUS
  <2>1. ASSUME NEW b \in Block, Attach(b) PROVE IInv'
      BY <2>1, AttachIInv
  <2>2. ASSUME NEW e \in Terminal, Finalize(e) PROVE IInv'
      BY <2>2, FinalizeIInv
  <2>3. CASE UNCHANGED tracker
      BY <2>3 DEF IInv, TipsAreLeaves
  <2> QED
      BY <2>1, <2>2, <2>3 DEF Next
<1> QED
    BY <1>1, InitIInv, PTL DEF Spec

\* The tracker always has its type.
THEOREM TypeCorrect == Spec => []TypeOK
<1>1. IInv => TypeOK
    BY DEF IInv, Connected, TypeOK
<1> QED
    BY <1>1, IInvInvariant, PTL

\* The tips that attach_block and remove keep up to date one entry at a time
\* are always the leaves of the tree above the finalized tip.
THEOREM TipsCorrect == Spec => []TipsAreLeaves
<1>1. IInv => TipsAreLeaves
    BY DEF IInv
<1> QED
    BY <1>1, IInvInvariant, PTL

\* update_finalized_epoch evicts every block that competes with the finalized
\* chain and keeps every descendant of the new finalized tip.
THEOREM FinalizeCorrect == Spec => FinalizeKeepsDescendants
<1> DEFINE A == tracker'.fin # tracker.fin =>
                  Live(tracker') = {b \in Live(tracker) : tracker'.fin \in Ancestors[b]}
<1>1. IInv /\ [Next]_tracker => [A]_tracker
  <2> SUFFICES ASSUME IInv, Next PROVE A
      OBVIOUS
  <2>1. ASSUME NEW b \in Block, Attach(b) PROVE A
      BY <2>1, AttachIInv
  <2>2. ASSUME NEW e \in Terminal, Finalize(e) PROVE A
      BY <2>2, FinalizeIInv
  <2> QED
      BY <2>1, <2>2 DEF Next
<1> QED
    BY <1>1, IInvInvariant, PTL DEF Spec, FinalizeKeepsDescendants

\* compute_tip_update finds the path between any two live blocks that are
\* within its limit, and nothing that is not a path, in every tracker that
\* attaching and finalizing can lead to.
THEOREM TipUpdateCorrect == Spec => []TipUpdateIsPath
<1>1. IInv => TipUpdateIsPath
  <2> SUFFICES ASSUME IInv, NEW s \in Live(tracker) \ {tracker.fin},
                      NEW d \in Live(tracker) \ {tracker.fin}
               PROVE  LET u == TipUpdate(tracker, s, d)
                          a == LastCommon(s, d)
                          near == Slot[s] - Slot[a] < ReorgLimit /\ Slot[d] - Slot[a] < ReorgLimit
                      IN  IF u = NoUpdate THEN s = d \/ ~near
                          ELSE /\ u.pivot = a
                               /\ Range(u.down) = Above(a, s)
                               /\ Range(u.up) = Above(a, d)
                               /\ \A i \in 1..Len(u.down) : Slot[u.down[i]] = Slot[s] - i + 1
                               /\ \A i \in 1..Len(u.up) : Slot[u.up[i]] = Slot[a] + i
      BY DEF TipUpdateIsPath
  <2> DEFINE u == TipUpdate(tracker, s, d)
             a == LastCommon(s, d)
             near == Slot[s] - Slot[a] < ReorgLimit /\ Slot[d] - Slot[a] < ReorgLimit
  <2>1. /\ tracker \in Trackers /\ s \in Block /\ d \in Block
        /\ Traceable(tracker, s) /\ Traceable(tracker, d)
      BY DEF IInv, Connected, Trackers, Live
  <2>2. Meets(s, d, a)
      BY <2>1, MeetsExists, ZenonT(60) DEF Meets, LastCommon, Common
  <2> HIDE DEF a, u
  <2>3. ASSUME s # d, near PROVE u # NoUpdate
      BY <2>1, <2>2, <2>3, TipUpdateFound DEF u
  <2>4. ASSUME u # NoUpdate PROVE Leads(u, s, a, d)
      BY <2>1, <2>2, <2>4, TipUpdateLeads DEF u
  <2>5. ASSUME u # NoUpdate
        PROVE  Range(u.down) = Above(a, s) /\ Range(u.up) = Above(a, d)
      BY <2>1, <2>2, <2>4, <2>5, LeadsAbove
  <2> QED
      BY <2>3, <2>4, <2>5 DEF Leads, a, u
<1> QED
    BY <1>1, IInvInvariant, PTL

=============================================================================
