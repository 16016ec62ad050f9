------------------------- MODULE ForkChoiceProofs -------------------------

(***************************************************************************)
(* What holds of the fork choice whatever crashes or fails, slow calls and *)
(* local faults included, for every block tree: a block is marked Valid    *)
(* only after its post-state has been written, the store and everything    *)
(* the node keeps in memory stay well formed, and no stored block is       *)
(* forgotten.                                                              *)
(***************************************************************************)
EXTENDS ForkChoice, UnfinalizedTrackerProofs

\* The back ends a leaf is tried with, in this order.
USE SMT, Z3, ZenonT(60)

(* The status is written twice, after execution and at the end of
   process_fc_message; the FCM holds a block there only once the chain worker
   has stored its state, and no step removes a state. *)
PastExecution == {"summary", "valid", "apply", "post"}

StateInv ==
    /\ status \in [Block -> Statuses]
    /\ ValidHasState
    /\ job = [pc |-> job.pc, blk |-> job.blk, pass |-> job.pass]
    /\ job.pc \in PastExecution => job.blk \in olStates

\* Genesis is the only block with a status, and its state is stored.
LEMMA InitStateInv == Init => StateInv
BY DEF Init, StateInv, ValidHasState, Statuses, PastExecution, Idle

\* Every step preserves it.
LEMMA NextStateInv == StateInv /\ [Next]_vars => StateInv'
<1> SUFFICES ASSUME StateInv, [Next]_vars PROVE StateInv'
    OBVIOUS
<1> USE DEF StateInv, ValidHasState, PastExecution
<1>1. ASSUME UNCHANGED <<status, olStates, job>> PROVE StateInv'
    BY <1>1
<1>2. CASE ResolveTip \/ GenerateTemplate \/ SignBlock \/ StartupDecide \/ StartupResubmit
           \/ StartupRoll \/ StartupDrop \/ StartupClear
    BY <1>1, <1>2 DEF ResolveTip, GenerateTemplate, SignBlock, StartupDecide,
        StartupResubmit, StartupRoll, StartupDrop, StartupClear, disk
<1>3. ASSUME NEW b \in Block, ExpireTemplate(b) \/ SubmitBlock(b) \/ PostCheckpoint(b)
      PROVE  StateInv'
    BY <1>1, <1>3 DEF ExpireTemplate, SubmitBlock, PostCheckpoint, disk
<1>4. ASSUME NEW b \in Block, StoreBlock(b) PROVE StateInv'
    BY <1>4 DEF StoreBlock, Statuses
<1>5. CASE CsmPublish \/ CsmMonitor
    BY <1>1, <1>5 DEF CsmPublish, CsmMonitor, disk
<1>6. CASE TakeReplay \/ TakeBlock
    BY <1>6 DEF TakeReplay, TakeBlock, disk
<1>7. CASE ExecIndex
    BY <1>7 DEF ExecIndex, Goto
<1>8. CASE ExecStore
    BY <1>8 DEF ExecStore, Goto
<1>9. CASE ExecSummary
    BY <1>9 DEF ExecSummary, Goto, At
<1>10. CASE ExecFail
    BY <1>10, ZenonT(60) DEF ExecFail, Goto, disk
<1>21. CASE AttachFail \/ ApplyFail \/ LocalFail
  <2>1. UNCHANGED <<status, olStates>> /\ Reject
      BY <1>21 DEF AttachFail, ApplyFail, LocalFail, disk
  <2>2. job' = [pc |-> "mark", blk |-> job.blk, pass |-> 2]
      BY <2>1, ZenonT(60) DEF Reject
  <2> QED
      BY <2>1, <2>2
<1>11. CASE SetValid
    BY <1>11, ZenonT(60) DEF SetValid, Goto, At, Statuses
<1>12. CASE ApplyBlock
    BY <1>12 DEF ApplyBlock, Goto, At
<1>13. CASE PostBlock
    BY <1>13 DEF PostBlock, Goto, At, Statuses, Idle
<1>14. CASE StateUpdate
    BY <1>14 DEF StateUpdate, Goto, disk
<1>15. CASE MarkInvalid
    BY <1>15, ZenonT(60) DEF MarkInvalid, Goto, Statuses
<1>16. CASE DropSummary \/ RollIndex \/ ClearHighWatermark
  <2>1. UNCHANGED <<status, olStates>>
      BY <1>16 DEF DropSummary, RollIndex, ClearHighWatermark
  <2>2. PassDone \/ Goto("roll") \/ Goto("clear")
      BY <1>16 DEF DropSummary, RollIndex, ClearHighWatermark
  <2>3. /\ job' = [pc |-> job'.pc, blk |-> job'.blk, pass |-> job'.pass]
        /\ job'.pc \in {"mark", "idle", "roll", "clear"}
    <3>1. CASE Goto("roll") \/ Goto("clear")
        BY <3>1 DEF Goto
    <3>2. CASE PassDone /\ job.pass = 1
        BY <3>2, ZenonT(60) DEF PassDone
    <3>3. CASE PassDone /\ job.pass # 1
        BY <3>3 DEF PassDone, Idle
    <3> QED
        BY <2>2, <3>1, <3>2, <3>3
  <2> QED
      BY <2>1, <2>3
<1>17. CASE Crash
    BY <1>17 DEF Crash, Idle, disk
<1>18. CASE Restart
    BY <1>18 DEF Restart, Goto
<1>19. CASE ReconcileIndex
    BY <1>19 DEF ReconcileIndex, Idle
<1>20. CASE UNCHANGED vars
    BY <1>1, <1>20 DEF vars, disk
<1> QED
    BY ZenonT(60), <1>2, <1>3, <1>4, <1>5, <1>6, <1>7, <1>8, <1>9, <1>10, <1>11, <1>12, <1>13,
       <1>14, <1>15, <1>16, <1>17, <1>18, <1>19, <1>20, <1>21, TreeAssumption
    DEF Next, FcmStep, ProducerStep, CsmStep

\* Whatever crashes or fails, a Valid block has its post-state on disk, which
\* is what a restart and a reorg read.
THEOREM ValidStateStored == Spec => []ValidHasState
<1>1. StateInv => ValidHasState
    BY DEF StateInv
<1> QED
    BY <1>1, InitStateInv, NextStateInv, PTL DEF Spec

-----------------------------------------------------------------------------

(* Facts about the data the FCM works on. *)

\* A bounded set of numbers has a greatest element.
LEMMA GreatestNat ==
    ASSUME NEW T \in SUBSET Nat, T # {}, NEW m \in Nat, \A i \in T : i <= m
    PROVE  \E i \in T : \A j \in T : j <= i
<1> DEFINE R == {m - i : i \in T}
<1>1. R \in SUBSET Nat /\ R # {}
  <2>1. \A i \in T : m - i \in Nat
      OBVIOUS
  <2> QED
      BY <2>1, ZenonT(60)
<1>2. PICK n \in R : \A r \in R : n <= r
  <2> HIDE DEF R
  <2> QED
      BY <1>1, LeastNat
<1>3. PICK i \in T : n = m - i
    BY <1>2
<1>4. \A j \in T : m - i <= m - j
    BY <1>2, <1>3, ZenonT(60)
<1> QED
    BY <1>4

\* What Append and Tail do to the elements of a queue of blocks.
LEMMA QueueAppend ==
    ASSUME NEW q \in Seq(Block), NEW b \in Block
    PROVE  /\ Append(q, b) \in Seq(Block)
           /\ \A i \in DOMAIN q : i \in DOMAIN Append(q, b) /\ Append(q, b)[i] = q[i]
           /\ \E i \in DOMAIN Append(q, b) : Append(q, b)[i] = b
           /\ \A i \in DOMAIN Append(q, b) : Append(q, b)[i] = b \/ (i \in DOMAIN q /\ Append(q, b)[i] = q[i])
<1>1. Append(q, b) \in Seq(Block) /\ Len(Append(q, b)) = Len(q) + 1 /\ Len(q) \in Nat
    OBVIOUS
<1>2. \A i \in 1..Len(q) : Append(q, b)[i] = q[i]
    OBVIOUS
<1>3. Append(q, b)[Len(q) + 1] = b
    OBVIOUS
<1>4. DOMAIN q = 1..Len(q) /\ DOMAIN Append(q, b) = 1..(Len(q) + 1)
    BY <1>1
<1> QED
    BY <1>1, <1>2, <1>3, <1>4

LEMMA QueueTail ==
    ASSUME NEW q \in Seq(Block), q # <<>>
    PROVE  /\ Head(q) \in Block /\ Tail(q) \in Seq(Block)
           /\ 1 \in DOMAIN q /\ Head(q) = q[1]
           /\ \A i \in DOMAIN Tail(q) : i + 1 \in DOMAIN q /\ Tail(q)[i] = q[i + 1]
           /\ \A i \in DOMAIN q : i = 1 \/ (i - 1 \in DOMAIN Tail(q) /\ Tail(q)[i - 1] = q[i])
<1> /\ Len(q) \in Nat /\ Len(q) >= 1 /\ Head(q) \in Block /\ Head(q) = q[1]
    /\ Tail(q) \in Seq(Block) /\ Len(Tail(q)) = Len(q) - 1
    /\ \A i \in 1..(Len(q) - 1) : Tail(q)[i] = q[i + 1]
    OBVIOUS
<1>2. DOMAIN q = 1..Len(q) /\ DOMAIN Tail(q) = 1..(Len(q) - 1)
    OBVIOUS
<1>3. ASSUME NEW i \in 1..(Len(q) - 1) PROVE i + 1 \in 1..Len(q)
    OBVIOUS
<1>4. ASSUME NEW i \in 1..Len(q), i # 1 PROVE i - 1 \in 1..(Len(q) - 1) /\ (i - 1) + 1 = i
    BY <1>4
<1> QED
    BY <1>2, <1>3, <1>4

\* find_latest_pending_finalizable_epoch returns an entry of the queue, and
\* clear_pending_epochs keeps a part of it.
LEMMA FinalizableIsPending ==
    ASSUME NEW pend \in Seq(Terminal), Finalizable(pend) # Null
    PROVE  \E i \in DOMAIN pend : Finalizable(pend) = pend[i]
<1> DEFINE prev == CurEpochAfter(curBest) - 1
           ok == {i \in DOMAIN pend : Epoch[pend[i]] <= prev}
<1>1. ok # {} /\ Finalizable(pend) = pend[CHOOSE i \in ok : \A j \in ok : j <= i]
    BY DEF Finalizable
<1>2. ok \in SUBSET Nat /\ Len(pend) \in Nat /\ \A i \in ok : i <= Len(pend)
    OBVIOUS
<1>3. ok \subseteq DOMAIN pend
    OBVIOUS
<1> HIDE DEF ok
<1>4. \E i \in ok : \A j \in ok : j <= i
    BY <1>1, <1>2, GreatestNat, ZenonT(60)
<1> QED
    BY <1>1, <1>3, <1>4

LEMMA LaterIsPending ==
    ASSUME NEW pend \in Seq(Terminal), NEW e
    PROVE  /\ LaterPending(pend, e) \in Seq(Terminal)
           /\ \A i \in DOMAIN LaterPending(pend, e) :
                 \E j \in DOMAIN pend : LaterPending(pend, e)[i] = pend[j]
<1> DEFINE later == {i \in DOMAIN pend : Epoch[pend[i]] > Epoch[e]}
           S == later \cup {Len(pend) + 1}
           first == CHOOSE i \in S : \A j \in later : i <= j
           q == SubSeq(pend, first, Len(pend))
<1> Len(pend) \in Nat /\ DOMAIN pend = 1..Len(pend)
    OBVIOUS
<1>2. LaterPending(pend, e) = q
    BY DEF LaterPending
<1>3. S \in SUBSET Nat /\ S # {} /\ S \subseteq 1..Len(pend) + 1
    OBVIOUS
<1>4. later \subseteq S
    OBVIOUS
<1> HIDE DEF S, later
<1>5. PICK i \in S : \A j \in S : i <= j
    BY <1>3, LeastNat
<1>6. first \in S
    BY <1>4, <1>5
<1> HIDE DEF first
<1> first \in Nat /\ 1 <= first /\ first <= Len(pend) + 1
    BY <1>3, <1>6
<1> q \in Seq(Terminal) /\ Len(q) = Len(pend) + 1 - first
    OBVIOUS
<1>9. \A j \in 1..Len(q) : q[j] = pend[first + j - 1]
    OBVIOUS
<1>10. ASSUME NEW j \in DOMAIN q PROVE \E n \in DOMAIN pend : q[j] = pend[n]
  <2>1. j \in 1..Len(q)
      OBVIOUS
  <2>2. first + j - 1 \in 1..Len(pend)
      BY <2>1
  <2> QED
      BY <2>1, <2>2, <1>9, ZenonT(60)
<1> HIDE DEF q
<1> QED
    BY <1>2, <1>10

\* A set of blocks closed under Parent holds the ancestors of its blocks.
LEMMA ClosedSet ==
    ASSUME NEW K \in SUBSET Block, \A b \in K \ {Genesis} : Parent[b] \in K
    PROVE  \A b \in K : Ancestors[b] \subseteq K
<1> DEFINE S == {b \in K : ~(Ancestors[b] \subseteq K)}
<1> SUFFICES ASSUME S # {} PROVE FALSE
    OBVIOUS
<1>1. S \in SUBSET Block
    OBVIOUS
<1>2. PICK b \in S : b # Genesis => Parent[b] \in Block \ S
  <2> HIDE DEF S
  <2> QED
      BY <1>1, LowestBlock
<1> b \in K /\ b \in Block /\ ~(Ancestors[b] \subseteq K)
    BY <1>2
<1>4. b # Genesis
    BY TreeAssumption
<1>5. Parent[b] \in K /\ Ancestors[Parent[b]] \subseteq K
    BY <1>2, <1>4
<1>6. Ancestors[b] = {b} \cup Ancestors[Parent[b]]
    BY <1>4, TreeAssumption
<1> QED
    BY <1>5, <1>6

\* Slots are numbers, and every block has one.
LEMMA SlotsAreNat == Slots \subseteq Nat /\ 0 \in Slots /\ \A b \in Block : Slot[b] \in Slots
BY TreeAssumption DEF Slots

\* The highest canonical block is well defined.
LEMMA CanonTipIsTop ==
    ASSUME NEW K, Null \notin K, canon \in [Slots -> K \cup {Null}], canon[0] # Null,
           NEW m \in Nat, \A s \in Slots : canon[s] # Null => s <= m
    PROVE  \E s \in Slots : /\ CanonTip = canon[s] /\ canon[s] \in K
                            /\ \A r \in Slots : canon[r] # Null => r <= s
<1> DEFINE T == {s \in Slots : canon[s] # Null}
           top == CHOOSE s \in Slots : /\ canon[s] # Null
                                       /\ \A r \in Slots : canon[r] # Null => r <= s
<1>1. T \in SUBSET Nat /\ T # {} /\ \A s \in T : s <= m
    BY SlotsAreNat, ZenonT(60)
<1>2. PICK s \in T : \A r \in T : r <= s
  <2> HIDE DEF T
  <2> QED
      BY <1>1, GreatestNat, ZenonT(60)
<1>3. s \in Slots /\ canon[s] # Null /\ \A r \in Slots : canon[r] # Null => r <= s
    BY <1>2
<1>4. top \in Slots /\ canon[top] # Null /\ \A r \in Slots : canon[r] # Null => r <= top
    BY <1>3
<1>5. CanonTip = canon[top]
    BY DEF CanonTip
<1> HIDE DEF top
<1> QED
    BY <1>4, <1>5

\* Replacing a suffix above slot 0 leaves a bounded index.
LEMMA SuffixCanon ==
    ASSUME NEW K, Null \notin K, NEW cn \in [Slots -> K \cup {Null}], cn[0] # Null,
           \E m \in Nat : \A s \in Slots : cn[s] # Null => s <= m,
           NEW a \in Nat, NEW ids \in Seq(K)
    PROVE  /\ ReplaceSuffix(cn, a + 1, ids) \in [Slots -> K \cup {Null}]
           /\ ReplaceSuffix(cn, a + 1, ids)[0] # Null
           /\ \E m \in Nat : \A s \in Slots : ReplaceSuffix(cn, a + 1, ids)[s] # Null => s <= m
<1> DEFINE r == ReplaceSuffix(cn, a + 1, ids)
<1> /\ r = [s \in Slots |-> IF s < a + 1 THEN cn[s]
                            ELSE IF s - (a + 1) + 1 \in DOMAIN ids
                                 THEN ids[s - (a + 1) + 1] ELSE Null]
    /\ Len(ids) \in Nat /\ DOMAIN ids = 1..Len(ids) /\ \A i \in DOMAIN ids : ids[i] \in K
    BY DEF ReplaceSuffix
<1> HIDE DEF r
<1>2. r \in [Slots -> K \cup {Null}]
    OBVIOUS
<1>3. r[0] = cn[0]
    BY SlotsAreNat
<1>4. PICK m \in Nat : \A s \in Slots : cn[s] # Null => s <= m
    OBVIOUS
<1>5. ASSUME NEW s \in Slots, r[s] # Null PROVE s <= m + a + Len(ids)
  <2> s \in Nat
      BY SlotsAreNat
  <2>2. CASE s < a + 1
      BY <2>2
  <2>3. CASE ~(s < a + 1)
    <3>1. s - (a + 1) + 1 \in 1..Len(ids)
        BY <2>3, <1>5
    <3> QED
        BY <3>1
  <2> QED
      BY <2>2, <2>3
<1>6. m + a + Len(ids) \in Nat
    OBVIOUS
<1>7. \E n \in Nat : \A s \in Slots : r[s] # Null => s <= n
    BY <1>5, <1>6
<1> QED
    BY <1>2, <1>3, <1>7 DEF r

\* ChainFrom lists the chain from a block up to the tip, slot by slot.
LEMMA ChainFromSeq ==
    ASSUME NEW tip \in Block, NEW a \in Ancestors[tip]
    PROVE  /\ ChainFrom(a, tip) \in Seq(Ancestors[tip])
           /\ Len(ChainFrom(a, tip)) = Slot[tip] - Slot[a]
           /\ Slot[tip] - Slot[a] \in Nat
           /\ \A i \in 1..(Slot[tip] - Slot[a]) : Slot[ChainFrom(a, tip)[i]] = Slot[a] + i
<1> DEFINE n == Slot[tip] - Slot[a]
           c(i) == CHOOSE x \in Ancestors[tip] : Slot[x] = Slot[a] + i
<1>1. n \in Nat /\ Slot[a] \in Nat /\ Slot[tip] \in Nat
    BY AncestorSlot, TreeAssumption
<1>2. ASSUME NEW i \in 1..n PROVE c(i) \in Ancestors[tip] /\ Slot[c(i)] = Slot[a] + i
  <2>1. Slot[a] + i \in 0..Slot[tip]
      BY <1>1
  <2>2. \E x \in Ancestors[tip] : Slot[x] = Slot[a] + i
      BY <2>1, AncestorAt
  <2> QED
      BY <2>2
<1>3. ChainFrom(a, tip) = [i \in 1..n |-> c(i)]
    BY DEF ChainFrom
<1> HIDE DEF c, n
<1> QED
    BY <1>1, <1>2, <1>3 DEF n

\* The pivot of a restart is the highest canonical block of the tip's chain.
LEMMA PivotIsTop ==
    ASSUME NEW tip \in Block, csmState \in Ancestors[tip], Pivots(tip) # {}
    PROVE  /\ Pivot(tip) \in Pivots(tip) /\ Pivots(tip) \subseteq Ancestors[tip]
           /\ \A x \in Pivots(tip) : Slot[x] <= Slot[Pivot(tip)]
<1> DEFINE T == {Slot[x] : x \in Pivots(tip)}
<1>1. Pivots(tip) \subseteq Ancestors[tip]
    BY DEF Pivots, Above
<1>2. Slot[tip] \in Nat /\ \A x \in Pivots(tip) : Slot[x] \in Nat /\ Slot[x] <= Slot[tip]
    BY <1>1, AncestorSlot, TreeAssumption
<1>3. T \in SUBSET Nat /\ T # {} /\ \A i \in T : i <= Slot[tip]
    BY <1>2
<1>4. PICK i \in T : \A j \in T : j <= i
  <2> HIDE DEF T
  <2> QED
      BY <1>2, <1>3, GreatestNat, ZenonT(60)
<1>5. \E a \in Pivots(tip) : \A x \in Pivots(tip) : Slot[x] <= Slot[a]
    BY <1>4
<1> QED
    BY <1>1, <1>5 DEF Pivot

\* What the tip can move to, and the canonical suffix of that.
LEMMA NewTipIn ==
    ASSUME NEW K \in SUBSET Block, \A b \in K \ {Genesis} : Parent[b] \in K,
           tracker \in Trackers, tracker.tips \subseteq K, curBest \in K, job.blk \in K,
           NEW u \in TipUpdates
    PROVE  /\ NewTip(u) \in K
           /\ TipsOnTheWay(u) \subseteq K
           /\ u # NoUpdate => u.pivot \in Block /\ NewSuffix(u) \in Seq(K)
<1> DEFINE t == AttachBlock(tracker, job.blk)
<1>1. t \in Trackers /\ t.tips \subseteq K
    BY ZenonT(60) DEF Trackers, AttachBlock
<1>2. PICK best \in BestBlocks(curBest, t.tips) : u = TipUpdate(t, curBest, best)
    BY DEF TipUpdates
<1> HIDE DEF t
<1> best \in K /\ best \in Block
    BY <1>1 DEF BestBlocks
<1>4. PICK a \in Block : Meets(curBest, best, a)
    BY MeetsExists
<1>5. CASE u = NoUpdate
    BY <1>5 DEF NewTip, TipsOnTheWay
<1>6. CASE u # NoUpdate
  <2>1. Leads(u, curBest, a, best)
      BY <1>1, <1>2, <1>4, <1>6, TipUpdateLeads
  <2>2. \A b \in K : Ancestors[b] \subseteq K
      BY ClosedSet
  <2>3. u.pivot = a /\ a \in K
      BY <2>1, <2>2, <1>4 DEF Leads, Meets
  <2>4. u.up \in Seq(Block) /\ \A i \in 1..Len(u.up) : u.up[i] \in K
      BY <2>1, <2>2 DEF Leads
  <2>5. u.up \in Seq(K)
      BY <2>4
  <2>6. <<job.blk>> \in Seq(K)
      OBVIOUS
  <2>7. u.up # <<>> => Last(u.up) \in K
      BY <2>5 DEF Last
  <2>8. NewTip(u) \in K
      BY <2>3, <2>7, <1>6 DEF NewTip
  <2>9. Range(u.up) \subseteq K
      BY <2>5 DEF Range
  <2>10. TipsOnTheWay(u) \subseteq K
      BY <2>3, <2>8, <2>9 DEF TipsOnTheWay
  <2> QED
      BY <2>3, <2>5, <2>6, <2>8, <2>10 DEF NewSuffix
<1> QED
    BY <1>5, <1>6

-----------------------------------------------------------------------------

(* The store holds a block only with its ancestors, and every block the node
   works with is in the store. *)

\* The blocks of the store.
Known == {b \in Block : status[b] # "none"}

DiskInv ==
    /\ DiskType
    /\ Genesis \in Known
    /\ \A b \in Known \ {Genesis} : Parent[b] \in Known
    /\ hwm \in Known \cup {Null}
    /\ canon \in [Slots -> Known \cup {Null}]
    /\ canon[0] # Null
    /\ \E m \in Nat : \A s \in Slots : canon[s] # Null => s <= m

CsmInv == CsmType /\ posted \subseteq Known /\ csmState \in Known

ChoiceInv ==
    /\ ChoiceType
    /\ curBest \in Known
    /\ tracker.tips \subseteq Known
    /\ published \in Known \cup {Null}

QueuesInv == QueuesType /\ replay \subseteq Known /\ inbox \in Seq(Known)

ProducerInv ==
    /\ ProducerType
    /\ tick \in Known \cup {Null}
    /\ startup.blk \in Known \cup {Null}
    /\ startup.pc \notin {"check", "done"} => startup.blk # Null
    /\ \A p \in Block : tmpl[p].kind = "Pending" => p \in Known /\ Parent[tmpl[p].blk] = p
    /\ \A b \in Block : rpc[b] # "none" => Parent[b] \in Known
    /\ \A b \in Block : rpc[b] = "stored" => b \in Known

JobInv ==
    /\ JobType
    /\ job.blk \in Known \cup {Null}
    /\ At("idle") => job.blk = Null
    /\ job.pc \notin {"idle", "index", "down", "failed"} => job.blk # Null
    /\ At("summary") => job.blk \in Terminal
    /\ job.pc \in {"drop", "roll", "clear"} => status[job.blk] = "Invalid"

KnownInv == DiskInv /\ CsmInv /\ ChoiceInv /\ QueuesInv /\ ProducerInv /\ JobInv

\* The invariant contains the type invariant.
LEMMA KnownTypes == KnownInv => TypeOK
BY DEF KnownInv, TypeOK, DiskInv, CsmInv, ChoiceInv, QueuesInv, ProducerInv, JobInv

-----------------------------------------------------------------------------

(* Frames: a group of variables that a step leaves alone. *)
LEMMA DiskFrame ==
    ASSUME DiskInv, UNCHANGED <<status, hwm, canon>>, rows' \subseteq Block,
           lastApplied' \in [Epochs -> Block \cup {Null}], olStates' \subseteq Block,
           summaries' \subseteq Terminal
    PROVE  DiskInv' /\ Known' = Known
<1>1. Known' = Known
    BY DEF Known
<1> QED
    BY <1>1 DEF DiskInv, DiskType

LEMMA CsmFrame ==
    ASSUME CsmInv, UNCHANGED <<posted, csmState>>, csmFin' \in Terminal, csmEvent' \in BOOLEAN,
           Known \subseteq Known'
    PROVE  CsmInv'
BY DEF CsmInv, CsmType

LEMMA ChoiceFrame ==
    ASSUME ChoiceInv, UNCHANGED choice, Known \subseteq Known' PROVE ChoiceInv'
BY DEF ChoiceInv, ChoiceType, choice

LEMMA QueuesFrame ==
    ASSUME QueuesInv, UNCHANGED queues, Known \subseteq Known' PROVE QueuesInv'
<1>1. inbox \in Seq(Known')
  <2>1. inbox \in Seq(Known) /\ Known \subseteq Known'
      BY DEF QueuesInv
  <2> QED
      BY <2>1
<1> QED
    BY <1>1 DEF QueuesInv, QueuesType, queues

LEMMA ProducerFrame ==
    ASSUME ProducerInv, UNCHANGED producer, Known \subseteq Known' PROVE ProducerInv'
BY DEF ProducerInv, ProducerType, producer

LEMMA JobFrame ==
    ASSUME JobInv, UNCHANGED <<job, crashes>>, Known \subseteq Known',
           job.pc \in {"drop", "roll", "clear"} => status'[job.blk] = "Invalid"
    PROVE  JobInv'
BY DEF JobInv, JobType, At

\* Where the FCM stands while it works on a block.
Steps == {"exec", "store", "summary", "valid", "apply", "post", "mark", "drop", "roll", "clear"}

\* The passes over a block are numbered 1 and 2.
LEMMA PassNumbers == 1 \in 1..2 /\ 2 \in 1..2
OBVIOUS

\* A job of the FCM, with what is asked of its program counter.
LEMMA JobSet ==
    ASSUME JobInv, crashes' = crashes, NEW p \in Steps, NEW b \in Block, NEW n \in 1..2,
           job' = [pc |-> p, blk |-> b, pass |-> n], b \in Known',
           p = "summary" => b \in Terminal,
           p \in {"drop", "roll", "clear"} => status'[b] = "Invalid"
    PROVE  JobInv'
<1>1. job' \in [pc : {"down", "failed", "index", "idle", "exec", "store", "summary",
                      "valid", "apply", "post", "mark", "drop", "roll", "clear"},
                blk : Block \cup {Null}, pass : 1..2]
    BY DEF Steps
<1>2. job'.pc = p /\ job'.blk = b
    OBVIOUS
<1>3. b # Null
    BY TreeAssumption
<1> QED
    BY <1>1, <1>2, <1>3 DEF JobInv, JobType, At, Steps

\* A step of a job within one block.
LEMMA JobGoto ==
    ASSUME JobInv, crashes' = crashes, NEW p \in Steps, Goto(p), Known' = Known,
           job.pc \notin {"idle", "index", "down", "failed"},
           p = "summary" => job.blk \in Terminal,
           p \in {"drop", "roll", "clear"} => status'[job.blk] = "Invalid"
    PROVE  JobInv'
<1>1. job.blk \in Known /\ job.blk \in Block /\ job.pass \in 1..2
    BY DEF JobInv, JobType, Known
<1>2. job' = [pc |-> p, blk |-> job.blk, pass |-> job.pass]
    BY DEF Goto, JobInv, JobType
<1> QED
    BY <1>1, <1>2, JobSet, ZenonT(60)

\* The end of a pass of the rejection.
LEMMA JobDone ==
    ASSUME JobInv, UNCHANGED <<status, crashes>>, job.pc \notin {"idle", "index", "down", "failed"}, PassDone
    PROVE  JobInv'
<1>1. job.blk \in Known /\ job.blk \in Block /\ Known' = Known
    BY DEF JobInv, JobType, Known
<1>2. CASE job.pass = 1
  <2>1. job' = [pc |-> "mark", blk |-> job.blk, pass |-> 2]
      BY <1>2, ZenonT(60) DEF PassDone, JobInv, JobType
  <2> QED
      BY <2>1, <1>1, 2 \in 1..2, "mark" \in Steps, JobSet, ZenonT(60) DEF Steps
<1>3. CASE job.pass # 1
    BY <1>3 DEF PassDone, Idle, JobInv, JobType, At
<1> QED
    BY <1>2, <1>3

-----------------------------------------------------------------------------

(* The steps of the FCM that leave the tip alone. *)

\* The groups of variables that a step leaves alone.
LEMMA KnownFrame ==
    ASSUME KnownInv, Known' = Known
    PROVE  /\ UNCHANGED disk => DiskInv'
           /\ UNCHANGED csm => CsmInv'
           /\ UNCHANGED choice => ChoiceInv'
           /\ UNCHANGED queues => QueuesInv'
           /\ UNCHANGED producer => ProducerInv'
           /\ UNCHANGED <<status, job, crashes>> => JobInv'
<1>1. UNCHANGED disk => DiskInv'
    BY DiskFrame DEF KnownInv, DiskInv, DiskType, disk
<1>2. UNCHANGED csm => CsmInv'
    BY CsmFrame DEF KnownInv, CsmInv, CsmType, csm
<1>3. UNCHANGED <<status, job, crashes>> => JobInv'
    BY JobFrame DEF KnownInv, JobInv
<1> QED
    BY <1>1, <1>2, <1>3, ChoiceFrame, QueuesFrame, ProducerFrame DEF KnownInv

\* A rollback of the state indexing.
LEMMA RollbackType ==
    ASSUME DiskType, NEW b \in Block, RollbackRejected(b)
    PROVE  rows' \subseteq Block /\ lastApplied' \in [Epochs -> Block \cup {Null}]
<1>1. Epoch[b] \in Epochs
    BY TreeAssumption DEF Epochs
<1> QED
    BY <1>1 DEF DiskType, RollbackRejected, RollbackRows, RollbackLast

\* A status written for a block of the store.
LEMMA StatusKnown ==
    ASSUME DiskInv, NEW b \in Known, NEW s \in Statuses \ {"none"},
           status' = [status EXCEPT ![b] = s],
           UNCHANGED <<hwm, rows, lastApplied, olStates, summaries, canon>>
    PROVE  DiskInv' /\ Known' = Known /\ status'[b] = s
<1>1. status \in [Block -> Statuses] /\ b \in Block
    BY DEF DiskInv, DiskType, Known
<1>2. status' \in [Block -> Statuses] /\ status'[b] = s
    BY <1>1
<1>3. Known' = Known
    BY <1>1 DEF Known
<1> QED
    BY <1>2, <1>3 DEF DiskInv, DiskType

\* The calls to the chain worker, and the repair of the state index at start.
LEMMA ExecutionKnown ==
    KnownInv /\ (\/ ExecIndex \/ ExecStore \/ ExecSummary \/ ExecFail \/ RollIndex
                 \/ AttachFail \/ LocalFail \/ DropSummary \/ ClearHighWatermark \/ ReconcileIndex) => KnownInv'
\* A step within one block that writes state, index rows or a summary.
<1>ExecKnown. ASSUME KnownInv, UNCHANGED <<status, hwm, canon, csm, choice, queues, producer, crashes>>,
             rows' \subseteq Block, lastApplied' \in [Epochs -> Block \cup {Null}],
             olStates' \subseteq Block, summaries' \subseteq Terminal,
             Known' = Known => JobInv'
      PROVE  KnownInv'
  <2> USE <1>ExecKnown
  <2>1. DiskInv' /\ Known' = Known
      BY DiskFrame DEF KnownInv
  <2> QED
      BY <2>1, KnownFrame DEF KnownInv
<1>ExecIndexKnown. ASSUME KnownInv, ExecIndex PROVE KnownInv'
  <2> USE <1>ExecIndexKnown
  <2>1. job.blk \in Block /\ Epoch[job.blk] \in Epochs
      BY TreeAssumption DEF ExecIndex, At, KnownInv, JobInv, Known, Epochs
  <2>2. rows' \subseteq Block /\ lastApplied' \in [Epochs -> Block \cup {Null}]
      BY <2>1 DEF ExecIndex, KnownInv, DiskInv, DiskType
  <2>3. Known' = Known => JobInv'
      BY "store" \in Steps, JobGoto DEF Steps, ExecIndex, At, KnownInv
  <2> QED
      BY <2>2, <2>3, <1>ExecKnown, ZenonT(60) DEF ExecIndex, KnownInv, DiskInv, DiskType
<1>ExecStoreKnown. ASSUME KnownInv, ExecStore PROVE KnownInv'
  <2> USE <1>ExecStoreKnown
  <2>1. job.blk \in Block
      BY DEF ExecStore, At, KnownInv, JobInv, Known
  <2>2. olStates' \subseteq Block
      BY <2>1 DEF ExecStore, KnownInv, DiskInv, DiskType
  <2>3. ASSUME Known' = Known PROVE JobInv'
    <3>1. CASE job.blk \in Terminal
        BY <2>3, <3>1, "summary" \in Steps, JobGoto DEF Steps, ExecStore, At, KnownInv
    <3>2. CASE job.blk \notin Terminal
        BY <2>3, <3>2, "valid" \in Steps, JobGoto DEF Steps, ExecStore, At, KnownInv
    <3> QED
        BY <3>1, <3>2
  <2> QED
      BY <2>2, <2>3, <1>ExecKnown, ZenonT(60) DEF ExecStore, KnownInv, DiskInv, DiskType
<1>ExecSummaryKnown. ASSUME KnownInv, ExecSummary PROVE KnownInv'
  <2> USE <1>ExecSummaryKnown
  <2>1. summaries' \subseteq Terminal
      BY DEF ExecSummary, At, KnownInv, JobInv, DiskInv, DiskType
  <2>2. Known' = Known => JobInv'
      BY "valid" \in Steps, JobGoto, ZenonT(60) DEF Steps, ExecSummary, At, KnownInv
  <2> QED
      BY <2>1, <2>2, <1>ExecKnown, ZenonT(60) DEF ExecSummary, KnownInv, DiskInv, DiskType
<1>ExecFailKnown. ASSUME KnownInv, ExecFail PROVE KnownInv'
  <2> USE <1>ExecFailKnown
  <2>1. Known' = Known
      BY ZenonT(60) DEF ExecFail, disk, Known
  <2>2. JobInv'
      BY <2>1, "mark" \in Steps, JobGoto, ZenonT(60) DEF Steps, ExecFail, KnownInv
  <2> QED
      BY <2>1, <2>2, KnownFrame, ZenonT(60) DEF ExecFail, KnownInv
<1>FailKnown. ASSUME KnownInv, AttachFail \/ LocalFail PROVE KnownInv'
  <2>1. UNCHANGED <<disk, csm, choice, queues, producer, crashes>> /\ Reject
        /\ job.pc \in {"valid", "apply", "mark", "drop", "roll", "clear"}
      BY <1>FailKnown, ZenonT(60) DEF AttachFail, LocalFail, At
  <2>2. Known' = Known
      BY <2>1 DEF disk, Known
  <2>3. job' = [pc |-> "mark", blk |-> job.blk, pass |-> 2]
      BY <1>FailKnown, <2>1, ZenonT(60) DEF Reject, KnownInv, JobInv, JobType
  <2>4. job.blk \in Known /\ job.blk \in Block
      BY <1>FailKnown, <2>1 DEF KnownInv, JobInv, JobType, Known
  <2>5. JobInv'
      BY <1>FailKnown, <2>1, <2>2, <2>3, <2>4, "mark" \in Steps, PassNumbers, JobSet, ZenonT(60)
      DEF KnownInv, Steps
  <2> QED
      BY <1>FailKnown, <2>1, <2>2, <2>5, KnownFrame DEF KnownInv
<1>RollIndexKnown. ASSUME KnownInv, RollIndex PROVE KnownInv'
  <2> USE <1>RollIndexKnown
  <2>1. job.blk \in Block /\ DiskType /\ RollbackRejected(job.blk)
      BY DEF RollIndex, At, KnownInv, JobInv, DiskInv, Known
  <2>2. rows' \subseteq Block /\ lastApplied' \in [Epochs -> Block \cup {Null}]
      BY <2>1, RollbackType
  <2>3. Known' = Known => JobInv'
      BY "clear" \in Steps, JobGoto DEF Steps, RollIndex, At, KnownInv, JobInv
  <2> QED
      BY <2>1, <2>2, <2>3, <1>ExecKnown DEF RollIndex, DiskType
<1>DropSummaryKnown. ASSUME KnownInv, DropSummary PROVE KnownInv'
  <2> USE <1>DropSummaryKnown
  <2> DiskType /\ summaries' \subseteq Terminal /\ UNCHANGED <<status, crashes>>
      BY DEF DropSummary, KnownInv, DiskInv, DiskType
  <2>2. ASSUME Known' = Known PROVE JobInv'
    <3>1. CASE Goto("roll")
        BY <2>2, <3>1, "roll" \in Steps, JobGoto DEF Steps, DropSummary, At, KnownInv, JobInv
    <3>2. CASE PassDone
        BY <3>2, JobDone DEF DropSummary, At, KnownInv
    <3> QED
        BY <3>1, <3>2 DEF DropSummary
  <2> QED
      BY <2>2, <1>ExecKnown DEF DropSummary, DiskType
<1>ClearHighWatermarkKnown. ASSUME KnownInv, ClearHighWatermark PROVE KnownInv'
  <2> USE <1>ClearHighWatermarkKnown
  <2>1. Known' = Known
      BY DEF ClearHighWatermark, Known
  <2>2. JobInv'
      BY JobDone DEF ClearHighWatermark, At, KnownInv
  <2>3. DiskInv'
      BY <2>1 DEF ClearHighWatermark, KnownInv, DiskInv, DiskType
  <2> QED
      BY <2>1, <2>2, <2>3, KnownFrame DEF ClearHighWatermark, KnownInv
<1>ReconcileIndexKnown. ASSUME KnownInv, ReconcileIndex PROVE KnownInv'
  <2> USE <1>ReconcileIndexKnown
  <2>1. rows' \subseteq Block /\ lastApplied' \in [Epochs -> Block \cup {Null}]
      BY DEF ReconcileIndex, ReconcileRows, ReconcileLast, RollbackRows, KnownInv, DiskInv, DiskType
  <2>2. JobInv'
      BY DEF ReconcileIndex, Idle, At, KnownInv, JobInv, JobType
  <2> QED
      BY <2>1, <2>2, <1>ExecKnown, ZenonT(60) DEF ReconcileIndex, KnownInv, DiskInv, DiskType
<1> QED
    BY <1>ExecIndexKnown, <1>ExecStoreKnown, <1>ExecSummaryKnown, <1>ExecFailKnown, <1>FailKnown, <1>RollIndexKnown,
       <1>DropSummaryKnown, <1>ClearHighWatermarkKnown, <1>ReconcileIndexKnown

-----------------------------------------------------------------------------

\* The FCM takes a block and records its status.
LEMMA MessageKnown ==
    KnownInv /\ (SetValid \/ MarkInvalid \/ TakeReplay \/ TakeBlock) => KnownInv'
<1>SetValidKnown. ASSUME KnownInv, SetValid PROVE KnownInv'
  <2> USE <1>SetValidKnown
  <2>1. job.blk \in Known /\ "Valid" \in Statuses \ {"none"} /\ "apply" \in Steps
      BY DEF SetValid, At, KnownInv, JobInv, Statuses, Steps
  <2>2. DiskInv' /\ Known' = Known
      BY <2>1, StatusKnown, ZenonT(60) DEF SetValid, KnownInv
  <2>3. JobInv'
      BY <2>1, <2>2, JobGoto DEF SetValid, At, KnownInv
  <2> QED
      BY <2>2, <2>3, KnownFrame DEF SetValid, KnownInv
<1>MarkInvalidKnown. ASSUME KnownInv, MarkInvalid PROVE KnownInv'
  <2> USE <1>MarkInvalidKnown
  <2>1. job.blk \in Known /\ "Invalid" \in Statuses \ {"none"} /\ "drop" \in Steps
      BY DEF MarkInvalid, At, KnownInv, JobInv, Statuses, Steps
  <2>2. DiskInv' /\ Known' = Known /\ status'[job.blk] = "Invalid"
      BY <2>1, StatusKnown, ZenonT(60) DEF MarkInvalid, KnownInv
  <2>3. JobInv'
      BY <2>1, <2>2, JobGoto DEF MarkInvalid, At, KnownInv
  <2> QED
      BY <2>2, <2>3, KnownFrame DEF MarkInvalid, KnownInv
<1>TakeReplayKnown. ASSUME KnownInv, TakeReplay PROVE KnownInv'
  <2> USE <1>TakeReplayKnown
  <2> Known' = Known
      BY DEF TakeReplay, disk, Known
  <2>2. PICK b \in replay : job' = [pc |-> "exec", blk |-> b, pass |-> 1] /\ replay' = replay \ {b}
      BY DEF TakeReplay
  <2>3. b \in Known /\ b \in Block
      BY DEF KnownInv, QueuesInv, QueuesType
  <2>4. JobInv'
      BY <2>2, <2>3, "exec" \in Steps, PassNumbers, JobSet, ZenonT(60) DEF TakeReplay, KnownInv, Steps
  <2>5. QueuesInv'
      BY <2>2 DEF TakeReplay, KnownInv, QueuesInv, QueuesType
  <2> QED
      BY <2>4, <2>5, KnownFrame DEF TakeReplay, KnownInv
<1>TakeBlockKnown. ASSUME KnownInv, TakeBlock PROVE KnownInv'
  <2> USE <1>TakeBlockKnown
  <2> Known' = Known
      BY DEF TakeBlock, disk, Known
  <2>2. inbox \in Seq(Known) /\ inbox \in Seq(Block) /\ inbox # <<>>
      BY DEF TakeBlock, KnownInv, QueuesInv, QueuesType
  <2>3. Head(inbox) \in Known /\ Head(inbox) \in Block /\ Tail(inbox) \in Seq(Known) /\ Tail(inbox) \in Seq(Block)
      BY <2>2
  <2>4. JobInv'
      BY <2>3, "exec" \in Steps, PassNumbers, JobSet, ZenonT(60) DEF TakeBlock, KnownInv, Steps
  <2>5. QueuesInv'
      BY <2>3 DEF TakeBlock, KnownInv, QueuesInv, QueuesType
  <2> QED
      BY <2>4, <2>5, KnownFrame DEF TakeBlock, KnownInv
<1> QED
    BY <1>SetValidKnown, <1>MarkInvalidKnown, <1>TakeReplayKnown, <1>TakeBlockKnown

-----------------------------------------------------------------------------

(* The initial state and the steps of the producer. *)

\* Genesis is in the store, and nothing else is known.
LEMMA InitKnown == Init => KnownInv
<1> SUFFICES ASSUME Init PROVE KnownInv
    OBVIOUS
<1> Known = {Genesis}
    BY TreeAssumption DEF Init, Known
<1>2. status \in [Block -> Statuses]
    BY DEF Init, Statuses
<1>3. canon \in [Slots -> Known \cup {Null}] /\ canon[0] # Null /\ \A s \in Slots : canon[s] # Null => s <= 0
    BY SlotsAreNat, TreeAssumption DEF Init
<1>4. DiskInv
    BY <1>2, <1>3, TreeAssumption DEF Init, DiskInv, DiskType
<1>5. CsmInv
    BY TreeAssumption, ZenonT(60) DEF Init, CsmInv, CsmType
<1>6. ChoiceInv
    BY TreeAssumption DEF Init, ChoiceInv, ChoiceType, NewEmpty, Trackers
<1>7. QueuesInv
    BY DEF Init, QueuesInv, QueuesType
<1>8. ProducerInv
    BY TreeAssumption DEF Init, ProducerInv, ProducerType, Templates, NoTemplate, Unstarted
<1>9. JobInv
    BY ForkChoiceAssumption DEF Init, JobInv, JobType, Idle, At
<1> QED
    BY <1>4, <1>5, <1>6, <1>7, <1>8, <1>9 DEF KnownInv

-----------------------------------------------------------------------------

\* The steps of the block producer and of its recovery at start.
LEMMA ProducerStepKnown ==
    KnownInv /\ ProducerStep => KnownInv'
\* The tip that production builds on is in the store.
<1>ProposalTipKnown. ASSUME KnownInv PROVE ProposalTip \in Known /\ ProposalTip \in Block
  <2> USE <1>ProposalTipKnown
  <2>1. /\ canon \in [Slots -> Known \cup {Null}] /\ canon[0] # Null /\ Null \notin Known
        /\ \E m \in Nat : \A s \in Slots : canon[s] # Null => s <= m
      BY TreeAssumption DEF KnownInv, DiskInv, Known
  <2>2. CanonTip \in Known
      BY <2>1, CanonTipIsTop
  <2> QED
      BY <2>2 DEF ProposalTip, KnownInv, ChoiceInv, Known
\* A step of the producer that writes nothing to disk.
<1>ProducerKnown. ASSUME KnownInv, UNCHANGED <<disk, csm, choice, job, crashes>>,
             Known' = Known => ProducerInv' /\ QueuesInv'
      PROVE  KnownInv'
  <2> USE <1>ProducerKnown
  <2>1. Known' = Known
      BY DEF disk, Known
  <2> QED
      BY <2>1, KnownFrame DEF KnownInv, disk
<1>ResolveTipKnown. ASSUME KnownInv, ResolveTip PROVE KnownInv'
  <2> USE <1>ResolveTipKnown
  <2>1. ASSUME Known' = Known PROVE ProducerInv'
      BY <2>1, <1>ProposalTipKnown DEF ResolveTip, KnownInv, ProducerInv, ProducerType
  <2> QED
      BY <2>1, <1>ProducerKnown, KnownFrame DEF ResolveTip
<1>GenerateTemplateKnown. ASSUME KnownInv, GenerateTemplate PROVE KnownInv'
  <2> USE <1>GenerateTemplateKnown
  <2> /\ tick \in Known /\ tick \in Block /\ Pruned(tick) \in [Block -> Templates]
      /\ \A q \in Block : Pruned(tick)[q].kind = "Pending" => Pruned(tick)[q] = tmpl[q]
      BY DEF GenerateTemplate, KnownInv, ProducerInv, ProducerType, Known, Pruned, Templates, NoTemplate
  <2> /\ tick' = Null /\ UNCHANGED <<startup, rpc>>
      /\ \/ tmpl' = Pruned(tick) /\ built' = built
         \/ \E b \in Block : /\ Parent[b] = tick /\ built' = built \cup {b}
                             /\ tmpl' = [Pruned(tick) EXCEPT ![tick] = [kind |-> "Pending", blk |-> b]]
      BY DEF GenerateTemplate
  <2>3. built' \subseteq Block /\ tmpl' \in [Block -> Templates]
      BY DEF KnownInv, ProducerInv, ProducerType, Templates
  <2>4. \A p \in Block : tmpl'[p].kind = "Pending" => p \in Known /\ Parent[tmpl'[p].blk] = p
    <3>1. CASE tmpl' = Pruned(tick)
        BY <3>1 DEF KnownInv, ProducerInv
    <3>2. ASSUME NEW b \in Block, Parent[b] = tick,
                 tmpl' = [Pruned(tick) EXCEPT ![tick] = [kind |-> "Pending", blk |-> b]]
          PROVE  \A p \in Block : tmpl'[p].kind = "Pending" => p \in Known /\ Parent[tmpl'[p].blk] = p
      <4>1. \A p \in Block : tmpl'[p] = IF p = tick THEN [kind |-> "Pending", blk |-> b] ELSE Pruned(tick)[p]
          BY <3>2
      <4> QED
          BY <3>2, <4>1 DEF KnownInv, ProducerInv
    <3> QED
        BY <3>1, <3>2, ZenonT(60)
  <2>5. ASSUME Known' = Known PROVE ProducerInv'
      BY <2>3, <2>4, <2>5, ZenonT(60) DEF KnownInv, ProducerInv, ProducerType
  <2> QED
      BY <2>5, <1>ProducerKnown, KnownFrame, ZenonT(60) DEF GenerateTemplate
<1>ExpireTemplateKnown. ASSUME KnownInv, NEW p \in Block, ExpireTemplate(p) PROVE KnownInv'
  <2> USE <1>ExpireTemplateKnown
  <2>1. tmpl' \in [Block -> Templates] /\ \A q \in Block : tmpl'[q].kind = "Pending" => tmpl'[q] = tmpl[q]
      BY DEF ExpireTemplate, KnownInv, ProducerInv, ProducerType, Templates, NoTemplate
  <2>2. ASSUME Known' = Known PROVE ProducerInv'
      BY <2>1, <2>2 DEF ExpireTemplate, KnownInv, ProducerInv, ProducerType
  <2> QED
      BY <2>2, <1>ProducerKnown, KnownFrame DEF ExpireTemplate
<1>SignBlockKnown. ASSUME KnownInv, SignBlock PROVE KnownInv'
  <2> USE <1>SignBlockKnown
  <2> DEFINE b == tmpl[ProposalTip].blk
  <2>1. ProposalTip \in Known /\ ProposalTip \in Block
      BY <1>ProposalTipKnown
  <2>2. tmpl[ProposalTip] \in Templates /\ tmpl[ProposalTip].kind = "Pending"
      BY <2>1, ZenonT(60) DEF SignBlock, KnownInv, ProducerInv, ProducerType
  <2>3. b \in Block /\ Parent[b] \in Known
    <3>1. b \in Block
        BY <2>2 DEF Templates, NoTemplate
    <3>2. Parent[b] \in Known
        BY <2>1, <2>2, ZenonT(60) DEF KnownInv, ProducerInv
    <3> QED
        BY <3>1, <3>2, ZenonT(60)
  <2>4. rpc' = [rpc EXCEPT ![b] = "signed"]
      BY ZenonT(60) DEF SignBlock
  <2> HIDE DEF b
  <2> /\ rpc' \in [Block -> {"none", "signed", "stored"}]
      /\ \A c \in Block : rpc'[c] = IF c = b THEN "signed" ELSE rpc[c]
      BY <2>3, <2>4 DEF KnownInv, ProducerInv, ProducerType
  <2>6. ASSUME Known' = Known PROVE ProducerInv'
    <3> USE <2>6
    <3>1. UNCHANGED <<tick, tmpl, startup, built>>
        BY DEF SignBlock
    <3>2. \A c \in Block : rpc'[c] # "none" => Parent[c] \in Known'
        BY <2>3, ZenonT(60) DEF KnownInv, ProducerInv
    <3>3. \A c \in Block : rpc'[c] = "stored" => c \in Known'
        BY DEF KnownInv, ProducerInv
    <3> QED
        BY <3>1, <3>2, <3>3, ZenonT(60) DEF KnownInv, ProducerInv, ProducerType
  <2> QED
      BY <2>6, <1>ProducerKnown, KnownFrame DEF SignBlock
<1>StoreBlockKnown. ASSUME KnownInv, NEW b \in Block, StoreBlock(b) PROVE KnownInv'
  <2> USE <1>StoreBlockKnown
  <2> Parent[b] \in Known /\ status \in [Block -> Statuses] /\ rpc \in [Block -> {"none", "signed", "stored"}]
      BY ZenonT(60) DEF StoreBlock, KnownInv, ProducerInv, ProducerType, DiskInv, DiskType
  <2>2. CASE UNCHANGED <<status, hwm>> /\ rpc' = [rpc EXCEPT ![b] = "none"]
    <3> USE <2>2
    <3>1. Known' = Known
        BY DEF Known
    <3>2. ProducerInv'
        BY <3>1, ZenonT(60) DEF StoreBlock, KnownInv, ProducerInv, ProducerType
    <3> QED
        BY <3>1, <3>2, KnownFrame DEF StoreBlock, KnownInv, disk
  <2>3. CASE /\ status' = [status EXCEPT ![b] = IF @ = "none" THEN "Unchecked" ELSE @]
             /\ hwm' = b /\ rpc' = [rpc EXCEPT ![b] = "stored"]
    <3> USE <2>3
    <3> Known' = Known \cup {b} /\ status' \in [Block -> Statuses]
        BY DEF Known, Statuses
    <3>2. DiskInv'
        BY DEF StoreBlock, KnownInv, DiskInv, DiskType
    <3>3. ProducerInv'
        BY ZenonT(60) DEF StoreBlock, KnownInv, ProducerInv, ProducerType
    <3>4. job.pc \in {"drop", "roll", "clear"} => status'[job.blk] = "Invalid"
        BY ZenonT(60) DEF KnownInv, JobInv, JobType, Known
    <3> QED
        BY <3>2, <3>3, <3>4, CsmFrame, ChoiceFrame, QueuesFrame, JobFrame, ZenonT(60) DEF StoreBlock, KnownInv, csm, CsmInv, CsmType
  <2> QED
      BY <2>2, <2>3 DEF StoreBlock
<1>SubmitBlockKnown. ASSUME KnownInv, NEW b \in Block, SubmitBlock(b) PROVE KnownInv'
  <2> USE <1>SubmitBlockKnown
  <2>1. b \in Known /\ rpc \in [Block -> {"none", "signed", "stored"}]
      BY DEF SubmitBlock, KnownInv, ProducerInv, ProducerType
  <2>2. tmpl' \in [Block -> Templates] /\ \A q \in Block : tmpl'[q].kind = "Pending" => tmpl'[q] = tmpl[q]
      BY ZenonT(60) DEF SubmitBlock, KnownInv, ProducerInv, ProducerType, Templates, NoTemplate
  <2>3. ASSUME Known' = Known PROVE ProducerInv'
    <3>1. rpc' \in [Block -> {"none", "signed", "stored"}] /\ \A c \in Block : rpc'[c] # "none" => rpc'[c] = rpc[c]
        BY <2>1 DEF SubmitBlock
    <3> QED
        BY <2>2, <2>3, <3>1, ZenonT(60) DEF SubmitBlock, KnownInv, ProducerInv, ProducerType
  <2>4. inbox' \in Seq(Known) /\ inbox' \in Seq(Block)
      BY <2>1 DEF SubmitBlock, KnownInv, QueuesInv, QueuesType
  <2>5. ASSUME Known' = Known PROVE QueuesInv'
      BY <2>4, <2>5, ZenonT(60) DEF SubmitBlock, KnownInv, QueuesInv, QueuesType
  <2> QED
      BY <2>3, <2>5, <1>ProducerKnown, ZenonT(60) DEF SubmitBlock
<1>StartupDecideKnown. ASSUME KnownInv, StartupDecide PROVE KnownInv'
  <2> USE <1>StartupDecideKnown
  <2>1. /\ startup' \in [pc : {"check", "roll", "drop", "clear", "resubmit", "done"}, blk : Block \cup {Null}]
        /\ startup'.blk = hwm /\ (startup'.pc \notin {"check", "done"} => hwm # Null)
      BY DEF StartupDecide, KnownInv, DiskInv, DiskType
  <2>2. ASSUME Known' = Known PROVE ProducerInv'
      BY <2>1, <2>2 DEF StartupDecide, KnownInv, DiskInv, ProducerInv, ProducerType
  <2> QED
      BY <2>2, <1>ProducerKnown, KnownFrame DEF StartupDecide
\* The steps of the startup treatment that follow.
<1>StartupNext. ASSUME ProducerInv, Known' = Known, NEW p \in {"drop", "clear", "done"},
             startup' = [startup EXCEPT !.pc = p], startup.blk # Null,
             UNCHANGED <<tick, tmpl, rpc, built>>
      PROVE  ProducerInv'
  <2> USE <1>StartupNext
  <2>1. startup' = [pc |-> p, blk |-> startup.blk]
      BY DEF ProducerInv, ProducerType
  <2> QED
      BY <2>1 DEF ProducerInv, ProducerType
<1>StartupResubmitKnown. ASSUME KnownInv, StartupResubmit PROVE KnownInv'
  <2> USE <1>StartupResubmitKnown
  <2>1. startup.blk \in Known /\ startup.blk \in Block /\ startup.blk # Null
      BY DEF StartupResubmit, KnownInv, ProducerInv, Known
  <2>2. ASSUME Known' = Known PROVE ProducerInv'
      BY <2>1, <2>2, <1>StartupNext DEF StartupResubmit, KnownInv
  <2>3. inbox' \in Seq(Known) /\ inbox' \in Seq(Block)
      BY <2>1 DEF StartupResubmit, KnownInv, QueuesInv, QueuesType
  <2>4. ASSUME Known' = Known PROVE QueuesInv'
      BY <2>3, <2>4 DEF StartupResubmit, KnownInv, QueuesInv, QueuesType
  <2> QED
      BY <2>2, <2>4, <1>ProducerKnown DEF StartupResubmit
<1>StartupRollKnown. ASSUME KnownInv, StartupRoll PROVE KnownInv'
  <2> USE <1>StartupRollKnown
  <2> startup.blk \in Block /\ startup.blk # Null /\ DiskType
      BY DEF StartupRoll, KnownInv, ProducerInv, DiskInv, Known
  <2>2. rows' \subseteq Block /\ lastApplied' \in [Epochs -> Block \cup {Null}]
      BY RollbackType DEF StartupRoll
  <2>3. DiskInv' /\ Known' = Known
      BY <2>2, DiskFrame DEF StartupRoll, KnownInv, DiskType
  <2>4. ProducerInv'
      BY <2>3, <1>StartupNext DEF StartupRoll, KnownInv
  <2> QED
      BY <2>3, <2>4, KnownFrame DEF StartupRoll, KnownInv
<1>StartupDropKnown. ASSUME KnownInv, StartupDrop PROVE KnownInv'
  <2> USE <1>StartupDropKnown
  <2>1. startup.blk # Null /\ DiskType
      BY DEF StartupDrop, KnownInv, ProducerInv, DiskInv
  <2>2. DiskInv' /\ Known' = Known
      BY <2>1, DiskFrame DEF StartupDrop, KnownInv, DiskType
  <2>3. ProducerInv'
      BY <2>1, <2>2, <1>StartupNext DEF StartupDrop, KnownInv
  <2> QED
      BY <2>2, <2>3, KnownFrame DEF StartupDrop, KnownInv
<1>StartupClearKnown. ASSUME KnownInv, StartupClear PROVE KnownInv'
  <2> USE <1>StartupClearKnown
  <2> startup.blk # Null /\ Known' = Known
      BY DEF StartupClear, KnownInv, ProducerInv, Known
  <2>2. DiskInv'
      BY DEF StartupClear, KnownInv, DiskInv, DiskType
  <2>3. ProducerInv'
      BY <1>StartupNext DEF StartupClear, KnownInv
  <2> QED
      BY <2>2, <2>3, KnownFrame DEF StartupClear, KnownInv
<1> QED
    BY <1>ResolveTipKnown, <1>GenerateTemplateKnown, <1>ExpireTemplateKnown, <1>SignBlockKnown,
       <1>StoreBlockKnown, <1>SubmitBlockKnown, <1>StartupDecideKnown, <1>StartupResubmitKnown,
       <1>StartupRollKnown, <1>StartupDropKnown, <1>StartupClearKnown DEF ProducerStep

-----------------------------------------------------------------------------

(* The CSM, crashes, and the steps that move the tip or the finalized block. *)

\* The steps of the CSM, and a crash.
LEMMA CsmStepKnown ==
    KnownInv /\ (CsmStep \/ Crash) => KnownInv'
<1>PostCheckpointKnown. ASSUME KnownInv, NEW t \in Terminal, PostCheckpoint(t) PROVE KnownInv'
  <2> USE <1>PostCheckpointKnown
  <2>1. Known' = Known
      BY DEF PostCheckpoint, disk, Known
  <2>2. t \in Known
      BY TreeAssumption DEF PostCheckpoint, KnownInv, DiskInv, Slots
  <2>3. CsmInv'
      BY <2>1, <2>2 DEF PostCheckpoint, KnownInv, CsmInv, CsmType
  <2> QED
      BY <2>1, <2>3, KnownFrame DEF PostCheckpoint, KnownInv, disk
<1>CsmPublishKnown. ASSUME KnownInv, CsmPublish PROVE KnownInv'
  <2> USE <1>CsmPublishKnown
  <2>1. Known' = Known
      BY DEF CsmPublish, disk, Known
  <2>2. CsmInv'
      BY <2>1 DEF CsmPublish, KnownInv, CsmInv, CsmType
  <2> QED
      BY <2>1, <2>2, KnownFrame DEF CsmPublish, KnownInv, disk
<1>CsmMonitorKnown. ASSUME KnownInv, CsmMonitor PROVE KnownInv'
  <2> USE <1>CsmMonitorKnown
  <2>1. Known' = Known
      BY DEF CsmMonitor, disk, Known
  <2>2. CsmInv'
      BY <2>1 DEF CsmMonitor, KnownInv, CsmInv, CsmType
  <2> QED
      BY <2>1, <2>2, KnownFrame DEF CsmMonitor, KnownInv, disk
<1>CrashKnown. ASSUME KnownInv, Crash PROVE KnownInv'
  <2> USE <1>CrashKnown
  <2>1. Known' = Known
      BY DEF Crash, disk, Known
  <2>2. JobInv'
      BY ForkChoiceAssumption DEF Crash, Idle, At, KnownInv, JobInv, JobType
  <2> QED
      BY <2>1, <2>2, KnownFrame DEF Crash, KnownInv
<1> QED
    BY <1>PostCheckpointKnown, <1>CsmPublishKnown, <1>CsmMonitorKnown, <1>CrashKnown DEF CsmStep

-----------------------------------------------------------------------------

\* Finalization moves the finalized tip up, and only drops blocks.
LEMMA FinalizationMoves ==
    ASSUME tracker \in Trackers, NEW pend \in Seq(Terminal), Finalization(pend)
    PROVE  /\ tracker' \in Trackers /\ tracker'.tips \subseteq tracker.tips
           /\ pending' \in Seq(Terminal)
           /\ Slot[tracker'.fin] >= Slot[tracker.fin]
<1> DEFINE e == Finalizable(pend)
<1> tracker \in Trackers /\ tracker.fin \in Block /\ Slot[tracker.fin] \in Nat
    BY TreeAssumption DEF Trackers
<1>2. CASE CanFinalize(tracker, e)
  <2>1. tracker' = UpdateFinalized(tracker, e) /\ pending' = LaterPending(pend, e)
      BY <1>2 DEF Finalization
  <2>2. e # Null /\ tracker.fin \in Ancestors[e]
      BY <1>2 DEF CanFinalize, Traceable
  <2> e \in Terminal /\ e \in Block
      BY <2>2, FinalizableIsPending, TreeAssumption
  <2> HIDE DEF e
  <2>4. pending' \in Seq(Terminal)
      BY <2>1, LaterIsPending
  <2>5. tracker' \in Trackers /\ tracker'.tips \subseteq tracker.tips /\ tracker'.fin = e
      BY <2>1 DEF UpdateFinalized, Trackers
  <2>6. Slot[tracker.fin] <= Slot[e]
      BY <2>2, AncestorSlot, ZenonT(60)
  <2>7. Slot[e] \in Nat
      BY TreeAssumption
  <2> QED
      BY <2>4, <2>5, <2>6, <2>7
<1>3. CASE ~CanFinalize(tracker, e)
    BY <1>3 DEF Finalization
<1> QED
    BY <1>2, <1>3

\* The FCM stops.
LEMMA JobStops ==
    ASSUME JobInv, Known' = Known, crashes' = crashes, NEW p \in {"down", "failed", "index"}, Goto(p)
    PROVE  JobInv'
<1>1. job' = [pc |-> p, blk |-> job.blk, pass |-> job.pass]
    BY DEF Goto, JobInv, JobType
<1> QED
    BY <1>1 DEF JobInv, JobType, At

\* attach_block keeps the tracker's type.
LEMMA AttachType ==
    ASSUME NEW t \in Trackers, NEW b \in Block
    PROVE  /\ AttachBlock(t, b) \in Trackers /\ AttachBlock(t, b).fin = t.fin
           /\ AttachBlock(t, b).tips \subseteq t.tips \cup {b}
BY ZenonT(60) DEF Trackers, AttachBlock

\* What a state update does to the tracker and the queue of epochs.
LEMMA StateUpdateMoves ==
    ASSUME KnownInv, StateUpdate
    PROVE  /\ tracker' \in Trackers /\ tracker'.tips \subseteq tracker.tips
           /\ pending' \in Seq(Terminal)
           /\ Slot[tracker'.fin] >= Slot[tracker.fin]
<1> tracker \in Trackers /\ pending \in Seq(Terminal) /\ csmFin \in Terminal
    BY DEF KnownInv, ChoiceInv, ChoiceType, CsmInv, CsmType
<1>2. Recorded \in Seq(Terminal)
    BY DEF Recorded
<1>3. Slot[tracker.fin] \in Nat
    BY TreeAssumption DEF Trackers
<1>4. CASE Finalization(Recorded)
    BY <1>2, <1>4, FinalizationMoves
<1>5. CASE UNCHANGED <<tracker, pending>>
    BY <1>3, <1>5
<1> QED
    BY <1>4, <1>5, ZenonT(60) DEF StateUpdate

\* A new canonical suffix above slot a.
LEMMA CanonKnown ==
    ASSUME DiskInv, NEW a \in Nat, NEW ids \in Seq(Known), canon' = ReplaceSuffix(canon, a + 1, ids),
           UNCHANGED <<status, hwm, rows, lastApplied, olStates, summaries>>
    PROVE  DiskInv'
<1>1. /\ canon \in [Slots -> Known \cup {Null}] /\ canon[0] # Null
      /\ \E m \in Nat : \A s \in Slots : canon[s] # Null => s <= m
      /\ Null \notin Known
    BY TreeAssumption DEF DiskInv, Known
<1>2. /\ canon' \in [Slots -> Known \cup {Null}] /\ canon'[0] # Null
      /\ \E m \in Nat : \A s \in Slots : canon'[s] # Null => s <= m
    BY <1>1, SuffixCanon
<1>3. Known' = Known
    BY DEF Known
<1>4. canon' \in [Slots -> Block \cup {Null}]
    BY <1>2 DEF Known
<1> QED
    BY <1>2, <1>3, <1>4, ZenonT(60) DEF DiskInv, DiskType

\* The steps that move the tip or the finalized block.
LEMMA TipStepKnown ==
    KnownInv /\ (PostBlock \/ StateUpdate \/ ApplyFail \/ ApplyBlock) => KnownInv'
<1>PostBlockKnown. ASSUME KnownInv, PostBlock PROVE KnownInv'
  <2> USE <1>PostBlockKnown
  <2>1. job.blk \in Known /\ tracker \in Trackers /\ pending \in Seq(Terminal)
      BY ZenonT(60) DEF PostBlock, At, KnownInv, JobInv, ChoiceInv, ChoiceType
  <2>2. tracker' \in Trackers /\ tracker'.tips \subseteq tracker.tips /\ pending' \in Seq(Terminal)
      BY <2>1, FinalizationMoves DEF PostBlock
  <2>3. DiskInv' /\ Known' = Known /\ JobInv' /\ published' \in {published, curBest}
    <3>1. CASE status' = [status EXCEPT ![job.blk] = "Valid"] /\ job' = Idle /\ published' = curBest
      <4>1. DiskInv' /\ Known' = Known
          BY <2>1, <3>1, "Valid" \in Statuses \ {"none"}, StatusKnown, ZenonT(60) DEF PostBlock, KnownInv, Statuses
      <4> QED
          BY <3>1, <4>1 DEF PostBlock, Idle, At, KnownInv, JobInv, JobType
    <3>2. CASE Goto("down") /\ UNCHANGED <<published, status>>
      <4>1. Known' = Known
          BY <3>2 DEF Known
      <4> QED
          BY <3>2, <4>1, KnownFrame, JobStops DEF PostBlock, KnownInv, disk
    <3> QED
        BY <3>1, <3>2 DEF PostBlock
  <2>4. ChoiceInv'
      BY <2>2, <2>3 DEF PostBlock, KnownInv, ChoiceInv, ChoiceType
  <2> QED
      BY <2>3, <2>4, KnownFrame DEF PostBlock, KnownInv
<1>StateUpdateKnown. ASSUME KnownInv, StateUpdate PROVE KnownInv'
  <2> USE <1>StateUpdateKnown
  <2> Known' = Known /\ UNCHANGED <<disk, posted, csmState, csmFin, curBest, queues, producer, crashes>>
      BY DEF StateUpdate, disk, Known
  <2>2. \/ Goto("down") /\ published' = published
        \/ published' \in {curBest, published} /\ job' = job
      BY DEF StateUpdate
  <2>3. JobInv'
      BY <2>2, KnownFrame, JobStops DEF KnownInv, disk
  <2>4. csmEvent' \in BOOLEAN
      BY ZenonT(60) DEF StateUpdate
  <2>5. CsmInv'
      BY <2>4, CsmFrame DEF KnownInv, CsmInv, CsmType
  <2>6. ChoiceInv'
      BY <2>2, StateUpdateMoves DEF KnownInv, ChoiceInv, ChoiceType
  <2> QED
      BY <2>3, <2>5, <2>6, KnownFrame DEF KnownInv
\* Where the tip may move when a block is applied.
<1>ApplyFacts. ASSUME KnownInv, At("apply")
      PROVE  /\ job.blk \in Known /\ job.blk \in Block /\ Known \in SUBSET Block /\ tracker \in Trackers
             /\ curBest \in Known /\ tracker.tips \subseteq Known
             /\ \A b \in Known \ {Genesis} : Parent[b] \in Known
    BY <1>ApplyFacts, ZenonT(60) DEF At, KnownInv, JobInv, ChoiceInv, ChoiceType, DiskInv, Known
<1>ApplyFailKnown. ASSUME KnownInv, ApplyFail PROVE KnownInv'
  <2> USE <1>ApplyFailKnown
  <2> /\ job.blk \in Known /\ job.blk \in Block /\ Known \in SUBSET Block /\ tracker \in Trackers
      /\ curBest \in Known /\ tracker.tips \subseteq Known
      /\ \A b \in Known \ {Genesis} : Parent[b] \in Known
      BY <1>ApplyFacts DEF ApplyFail
  <2> Known' = Known
      BY DEF ApplyFail, disk, Known
  <2>3. tracker' \in Trackers /\ tracker'.tips \subseteq Known
      BY AttachType DEF ApplyFail
  <2>4. curBest' \in Known
      BY NewTipIn DEF ApplyFail
  <2>5. job' = [pc |-> "mark", blk |-> job.blk, pass |-> 2]
      BY ZenonT(60) DEF ApplyFail, Reject, KnownInv, JobInv, JobType
  <2>6. JobInv'
      BY <2>5, "mark" \in Steps, PassNumbers, JobSet, ZenonT(60) DEF ApplyFail, KnownInv, Steps
  <2>7. ChoiceInv'
      BY <2>3, <2>4 DEF ApplyFail, KnownInv, ChoiceInv, ChoiceType
  <2> QED
      BY <2>6, <2>7, KnownFrame DEF ApplyFail, KnownInv
<1>ApplyBlockKnown. ASSUME KnownInv, ApplyBlock PROVE KnownInv'
  <2> USE <1>ApplyBlockKnown
  <2> /\ job.blk \in Known /\ job.blk \in Block /\ Known \in SUBSET Block /\ tracker \in Trackers
      /\ curBest \in Known /\ tracker.tips \subseteq Known
      /\ \A b \in Known \ {Genesis} : Parent[b] \in Known
      BY <1>ApplyFacts DEF ApplyBlock
  <2> Known' = Known
      BY ZenonT(60) DEF ApplyBlock, Known
  <2>3. tracker' \in Trackers /\ tracker'.tips \subseteq Known
    <3>1. tracker' = AttachBlock(tracker, job.blk)
        BY ZenonT(60) DEF ApplyBlock
    <3>2. /\ AttachBlock(tracker, job.blk) \in Trackers
          /\ AttachBlock(tracker, job.blk).tips \subseteq tracker.tips \cup {job.blk}
        BY AttachType, ZenonT(60)
    <3> QED
        BY <3>1, <3>2, ZenonT(60)
  <2> PICK u \in TipUpdates :
          /\ curBest' = NewTip(u)
          /\ canon' = IF u = NoUpdate THEN canon
                      ELSE ReplaceSuffix(canon, Slot[u.pivot] + 1, NewSuffix(u))
      BY ZenonT(60) DEF ApplyBlock
  <2>5. NewTip(u) \in Known /\ (u # NoUpdate => u.pivot \in Block /\ NewSuffix(u) \in Seq(Known))
      BY NewTipIn
  <2>6. DiskInv'
    <3>1. CASE u = NoUpdate
        BY <3>1, KnownFrame, ZenonT(60) DEF ApplyBlock, disk
    <3>2. CASE u # NoUpdate
      <4>1. Slot[u.pivot] \in Nat /\ NewSuffix(u) \in Seq(Known)
          BY <2>5, <3>2, TreeAssumption
      <4>2. canon' = ReplaceSuffix(canon, Slot[u.pivot] + 1, NewSuffix(u))
          BY <3>2
      <4> QED
          BY <4>1, <4>2, CanonKnown, ZenonT(60) DEF ApplyBlock, KnownInv
    <3> QED
        BY <3>1, <3>2
  <2>7. JobInv'
      BY "post" \in Steps, JobGoto, ZenonT(60) DEF Steps, ApplyBlock, At, KnownInv
  <2>8. ChoiceInv'
      BY <2>3, <2>5, ZenonT(60) DEF ApplyBlock, KnownInv, ChoiceInv, ChoiceType
  <2> QED
      BY <2>6, <2>7, <2>8, KnownFrame, ZenonT(60) DEF ApplyBlock, KnownInv
<1> QED
    BY <1>PostBlockKnown, <1>StateUpdateKnown, <1>ApplyFailKnown, <1>ApplyBlockKnown

-----------------------------------------------------------------------------

\* What a restart loads and repairs concerns blocks of the store.
LEMMA RestartStepKnown ==
    KnownInv /\ Restart => KnownInv'
\* The blocks loaded at a restart are in the store.
<1>LoadedKnown. ASSUME KnownInv PROVE Loaded \subseteq Known
  <2> USE <1>LoadedKnown
  <2> SUFFICES ASSUME NEW b \in Loaded PROVE b \in Known
      OBVIOUS
  <2>1. /\ b \in Block /\ csmState \in Ancestors[b]
        /\ \A a \in Above(csmState, b) : status[a] = "Valid"
      BY DEF Loaded
  <2>2. b = csmState \/ b \in Above(csmState, b)
      BY <2>1, AncestorsRefl, AncestorSlot, TreeAssumption DEF Above
  <2> QED
      BY <2>1, <2>2 DEF Known, KnownInv, CsmInv
<1>RestartKnown. ASSUME KnownInv, Restart PROVE KnownInv'
  <2> USE <1>RestartKnown
  <2> Known' = Known /\ Known \in SUBSET Block /\ csmState \in Known /\ Loaded \subseteq Known
      BY <1>LoadedKnown, ZenonT(60) DEF Restart, Known, KnownInv, CsmInv
  <2> PICK tip \in StartTips :
         /\ curBest' = tip
         /\ IF Pivots(tip) = {}
            THEN Goto("failed") /\ UNCHANGED canon
            ELSE /\ canon' = ReplaceSuffix(canon, Slot[Pivot(tip)] + 1,
                                          ChainFrom(Pivot(tip), tip))
                 /\ Goto(IF tip \in olStates THEN "index" ELSE "failed")
      BY ZenonT(60) DEF Restart
  <2> tip \in Known /\ tip \in Block /\ csmState \in Ancestors[tip]
      BY ZenonT(60) DEF StartTips, Loaded
  <2>4. DiskInv'
    <3>1. CASE Pivots(tip) = {}
        BY <3>1, KnownFrame, ZenonT(60) DEF Restart, disk
    <3>2. CASE Pivots(tip) # {}
      <4> DEFINE a == Pivot(tip)
                 ids == ChainFrom(a, tip)
      <4>1. a \in Ancestors[tip]
          BY <3>2, PivotIsTop
      <4>2. Slot[a] \in Nat
          BY <4>1, TreeAssumption
      <4>3. ids \in Seq(Ancestors[tip]) /\ Ancestors[tip] \subseteq Known
          BY <4>1, ChainFromSeq, ClosedSet DEF KnownInv, DiskInv
      <4>4. canon' = ReplaceSuffix(canon, Slot[a] + 1, ids)
          BY <3>2
      <4> HIDE DEF a, ids
      <4>5. ids \in Seq(Known)
          BY <4>3
      <4> QED
          BY <4>2, <4>4, <4>5, CanonKnown, ZenonT(60) DEF Restart, KnownInv
    <3> QED
        BY <3>1, <3>2
  <2>5. JobInv'
    <3>1. Goto("failed") \/ Goto("index")
        OBVIOUS
    <3> QED
        BY <3>1, JobStops, ZenonT(60) DEF Restart, KnownInv
  <2>6. CsmInv'
      BY CsmFrame, ZenonT(60) DEF Restart, KnownInv, CsmInv, CsmType
  <2>7. ChoiceInv'
    <3>1. tracker' = [fin |-> csmState, table |-> Loaded,
                     tips |-> {b \in Loaded : \A c \in Loaded : Parent[c] # b}]
        BY ZenonT(60) DEF Restart
    <3>2. tracker' \in Trackers /\ tracker'.tips \subseteq Known
        BY <3>1, ZenonT(60) DEF Trackers
    <3>3. pending' \in Seq(Terminal) /\ published' = Null
      <4>1. pending' = <<>> /\ published' = Null
          BY ZenonT(60) DEF Restart
      <4> QED
          BY <4>1
    <3> QED
        BY <3>2, <3>3, ZenonT(60) DEF ChoiceInv, ChoiceType
  <2>8. QueuesInv'
    <3>1. replay' \subseteq Known /\ replay' \subseteq Block
        BY ZenonT(60) DEF Restart, ReplayCandidates, Known
    <3>2. inbox' = <<>>
        BY ZenonT(60) DEF Restart
    <3>3. inbox' \in Seq(Known) /\ inbox' \in Seq(Block)
        BY <3>2
    <3> QED
        BY <3>1, <3>3, ZenonT(60) DEF QueuesInv, QueuesType
  <2>9. ProducerInv'
    <3>1. /\ tmpl' \in [Block -> Templates] /\ rpc' \in [Block -> {"none", "signed", "stored"}]
          /\ \A b \in Block : tmpl'[b].kind # "Pending" /\ rpc'[b] = "none"
        BY ZenonT(60) DEF Restart, Templates, NoTemplate
    <3> QED
        BY <3>1, ZenonT(60) DEF Restart, Unstarted, KnownInv, ProducerInv, ProducerType
  <2> QED
      BY <2>4, <2>5, <2>6, <2>7, <2>8, <2>9 DEF KnownInv
<1> QED
    BY <1>RestartKnown

\* Every step preserves it.
LEMMA NextKnown == KnownInv /\ [Next]_vars => KnownInv'
<1> SUFFICES ASSUME KnownInv, [Next]_vars PROVE KnownInv'
    OBVIOUS
<1>1. CASE FcmStep
    BY <1>1, ExecutionKnown, MessageKnown, TipStepKnown DEF FcmStep
<1>2. CASE ProducerStep
    BY <1>2, ProducerStepKnown
<1>3. CASE CsmStep \/ Crash
    BY <1>3, CsmStepKnown
<1>4. CASE Restart \/ ReconcileIndex
    BY <1>4, RestartStepKnown, ExecutionKnown
<1>5. CASE UNCHANGED vars
  <2>1. Known' = Known
      BY <1>5 DEF vars, disk, Known
  <2> QED
      BY <1>5, <2>1, KnownFrame DEF vars, disk, KnownInv
<1> QED
    BY <1>1, <1>2, <1>3, <1>4, <1>5 DEF Next

-----------------------------------------------------------------------------

(* No stored block is forgotten. *)

(* An undecided block above the finalized tip waits somewhere.  While the
   state indexing is reconciled after a restart it is among the candidates. *)
Waiting(b) ==
    \/ rpc[b] = "stored"
    \/ ~At("index") /\ job.blk = b
    \/ \E i \in DOMAIN inbox : inbox[i] = b
    \/ b \in replay

Pursued ==
    Running => \A b \in Block :
        status[b] = "Unchecked" /\ Slot[b] > Slot[tracker.fin] => Waiting(b)

\* A step that makes no block undecided, moves the finalized tip up if at all,
\* and loses no undecided block.
LEMMA PursuedStep ==
    ASSUME KnownInv, KnownInv', Pursued, Running' => Running,
           Slot[tracker'.fin] >= Slot[tracker.fin],
           \A b \in Block : status'[b] = "Unchecked" => status[b] = "Unchecked",
           \A b \in Block : status'[b] = "Unchecked" /\ Waiting(b) => Waiting(b)'
    PROVE  Pursued'
<1> SUFFICES ASSUME Running', NEW b \in Block, status'[b] = "Unchecked", Slot[b] > Slot[tracker'.fin]
             PROVE  Waiting(b)'
    BY DEF Pursued
<1>1. Slot[b] \in Nat /\ Slot[tracker.fin] \in Nat /\ Slot[tracker'.fin] \in Nat
    BY TreeAssumption, ZenonT(60) DEF KnownInv, ChoiceInv, ChoiceType, Trackers
<1>2. \A x, y, z \in Nat : x > y /\ y >= z => x > z
    OBVIOUS
<1>3. Slot[b] > Slot[tracker.fin]
    BY <1>1, <1>2, ZenonT(60)
<1> QED
    BY <1>3, ZenonT(60) DEF Pursued

\* The finalized block has a slot.
LEMMA FinSlot == KnownInv => Slot[tracker.fin] \in Nat /\ tracker.fin \in Block
BY TreeAssumption DEF KnownInv, ChoiceInv, ChoiceType, Trackers

\* Every step preserves it.
LEMMA NextPursued == KnownInv /\ KnownInv' /\ Pursued /\ [Next]_vars => Pursued'
<1> SUFFICES ASSUME KnownInv, KnownInv', Pursued, [Next]_vars PROVE Pursued'
    OBVIOUS
<1> Slot[tracker.fin] >= Slot[tracker.fin]
    BY FinSlot
<1>1. ASSUME UNCHANGED <<status, tracker, rpc, inbox, replay, job>> PROVE Pursued'
  <2> USE <1>1
  <2>1. \A b \in Block : Waiting(b) => Waiting(b)'
      BY DEF Waiting, At
  <2>2. Running' => Running
      BY DEF Running, At
  <2> QED
      BY <2>1, <2>2, PursuedStep, ZenonT(60)
<1>2. ASSUME UNCHANGED <<status, tracker, rpc, inbox, replay>>, job'.blk = job.blk,
             job.pc \notin {"index", "down", "failed"}, job'.pc # "index"
      PROVE  Pursued'
  <2> USE <1>2
  <2>1. \A b \in Block : Waiting(b) => Waiting(b)'
      BY DEF Waiting, At
  <2>2. Running
      BY DEF Running, At
  <2> QED
      BY <2>1, <2>2, PursuedStep
<1>3. CASE ResolveTip \/ GenerateTemplate \/ StartupDecide \/ StartupRoll \/ StartupDrop \/ StartupClear
    BY <1>1, <1>3 DEF ResolveTip, GenerateTemplate, StartupDecide, StartupRoll, StartupDrop,
       StartupClear, disk, choice, queues
<1>4. ASSUME NEW p \in Block, ExpireTemplate(p) \/ PostCheckpoint(p) PROVE Pursued'
    BY <1>1, <1>4, ZenonT(60) DEF ExpireTemplate, PostCheckpoint, disk, choice, queues, producer
<1>5. CASE CsmPublish \/ CsmMonitor
    BY <1>1, <1>5 DEF CsmPublish, CsmMonitor, disk, choice, queues, producer
<1>6. CASE SignBlock
  <2>1. \A b \in Block : rpc[b] = "stored" => rpc'[b] = "stored"
      BY <1>6, ZenonT(60) DEF SignBlock, KnownInv, ProducerInv, ProducerType
  <2> UNCHANGED <<status, tracker, inbox, replay, job>>
      BY <1>6, ZenonT(60) DEF SignBlock, disk, choice, queues
  <2>3. \A b \in Block : Waiting(b) => Waiting(b)'
      BY <2>1, ZenonT(60) DEF Waiting, At
  <2>4. Running' => Running
      BY DEF Running, At
  <2> QED
      BY <2>3, <2>4, PursuedStep, ZenonT(60)
<1>7. ASSUME NEW c \in Block, StoreBlock(c) PROVE Pursued'
  <2> /\ UNCHANGED <<tracker, inbox, replay, job>> /\ rpc[c] = "signed"
      /\ \A b \in Block : b # c => rpc'[b] = rpc[b] /\ status'[b] = status[b]
      /\ rpc'[c] = "stored" \/ status'[c] = status[c]
    <3>1. /\ UNCHANGED <<tracker, inbox, replay, job>> /\ rpc[c] = "signed"
          /\ \/ rpc' = [rpc EXCEPT ![c] = "stored"] /\ \E x : status' = [status EXCEPT ![c] = x]
             \/ rpc' = [rpc EXCEPT ![c] = "none"] /\ status' = status
        BY <1>7, ZenonT(60) DEF StoreBlock, choice, queues
    <3>2. rpc \in [Block -> {"none", "signed", "stored"}] /\ status \in [Block -> Statuses]
        BY ZenonT(60) DEF KnownInv, ProducerInv, ProducerType, DiskInv, DiskType
    <3> QED
        BY <3>1, <3>2
  <2>2. \A b \in Block : Waiting(b) => Waiting(b)'
      BY DEF Waiting, At
  <2>3. Running' => Running
      BY DEF Running, At
  <2> SUFFICES ASSUME Running', NEW b \in Block, status'[b] = "Unchecked", Slot[b] > Slot[tracker.fin]
               PROVE  Waiting(b)'
      BY ZenonT(60) DEF Pursued
  <2>4. CASE status'[b] = status[b]
      BY <2>2, <2>3, <2>4, ZenonT(60) DEF Pursued
  <2>5. CASE status'[b] # status[b]
      BY <2>5 DEF Waiting
  <2> QED
      BY <2>4, <2>5
<1>8. ASSUME NEW c \in Block, SubmitBlock(c) PROVE Pursued'
  <2> /\ UNCHANGED <<status, tracker, replay, job>> /\ inbox' = Append(inbox, c)
      /\ \A b \in Block : b # c => rpc'[b] = rpc[b]
      /\ inbox \in Seq(Block)
      BY <1>8, ZenonT(60) DEF SubmitBlock, disk, choice, KnownInv, ProducerInv, ProducerType, QueuesInv, QueuesType
  <2>2. /\ \A i \in DOMAIN inbox : i \in DOMAIN inbox' /\ inbox'[i] = inbox[i]
        /\ \E i \in DOMAIN inbox' : inbox'[i] = c
      BY QueueAppend
  <2>3. \A b \in Block : Waiting(b) => Waiting(b)'
      BY <2>2 DEF Waiting, At
  <2>4. Running' => Running
      BY DEF Running, At
  <2> QED
      BY <2>3, <2>4, PursuedStep
<1>9. CASE StartupResubmit
  <2> /\ UNCHANGED <<status, tracker, replay, job, rpc>> /\ inbox' = Append(inbox, startup.blk)
      /\ inbox \in Seq(Block) /\ startup.blk \in Block
      BY <1>9 DEF StartupResubmit, disk, choice, KnownInv, ProducerInv, ProducerType, QueuesInv, QueuesType
  <2>2. \A i \in DOMAIN inbox : i \in DOMAIN inbox' /\ inbox'[i] = inbox[i]
      BY QueueAppend
  <2>3. \A b \in Block : Waiting(b) => Waiting(b)'
      BY <2>2 DEF Waiting, At
  <2>4. Running' => Running
      BY DEF Running, At
  <2> QED
      BY <2>3, <2>4, PursuedStep
<1>10. CASE TakeReplay
  <2> /\ UNCHANGED <<status, tracker, inbox, rpc>> /\ job.pc = "idle" /\ job.blk = Null
      /\ \E c \in replay : /\ job' = [pc |-> "exec", blk |-> c, pass |-> 1]
                           /\ replay' = replay \ {c}
      BY <1>10, ZenonT(60) DEF TakeReplay, disk, choice, producer, KnownInv, JobInv, At
  <2>2. \A b \in Block : Waiting(b) => Waiting(b)'
    <3>1. PICK c \in replay : /\ job' = [pc |-> "exec", blk |-> c, pass |-> 1]
                              /\ replay' = replay \ {c}
        BY ZenonT(60)
    <3>2. job'.pc = "exec" /\ job'.blk = c /\ Null \notin Block
        BY <3>1, TreeAssumption
    <3> QED
        BY <3>1, <3>2, ZenonT(60) DEF Waiting, At
  <2>3. Running
      BY DEF Running, At
  <2> QED
      BY <2>2, <2>3, PursuedStep, ZenonT(60)
<1>11. CASE TakeBlock
  <2> /\ UNCHANGED <<status, tracker, replay, rpc>> /\ inbox' = Tail(inbox)
      /\ job'.blk = Head(inbox) /\ job'.pc = "exec" /\ job.blk = Null /\ job.pc = "idle"
      /\ inbox \in Seq(Block) /\ inbox # <<>>
      BY <1>11, ZenonT(60) DEF TakeBlock, disk, choice, producer, KnownInv, QueuesInv, QueuesType, JobInv, At
  <2>2. \A i \in DOMAIN inbox : job'.blk = inbox[i] \/ \E j \in DOMAIN inbox' : inbox'[j] = inbox[i]
      BY QueueTail, ZenonT(60)
  <2>3. ASSUME NEW b \in Block, Waiting(b) PROVE Waiting(b)'
    <3>1. CASE \E i \in DOMAIN inbox : inbox[i] = b
        BY <2>2, <3>1 DEF Waiting, At
    <3>2. CASE ~\E i \in DOMAIN inbox : inbox[i] = b
        BY <2>3, <3>2, TreeAssumption, ZenonT(60) DEF Waiting, At
    <3> QED
        BY <3>1, <3>2
  <2>4. Running
      BY DEF Running, At
  <2> QED
      BY <2>3, <2>4, PursuedStep
<1>12. ASSUME NEW p, Goto(p) PROVE job'.blk = job.blk /\ job'.pc = p
    BY <1>12 DEF Goto, KnownInv, JobInv, JobType
<1>13. CASE ExecIndex \/ ExecStore \/ ExecSummary \/ ExecFail \/ RollIndex
  <2>1. /\ UNCHANGED <<status, tracker, inbox, replay, rpc>>
        /\ Goto("store") \/ Goto("summary") \/ Goto("valid") \/ Goto("mark") \/ Goto("clear")
        /\ job.pc \notin {"index", "down", "failed"}
      BY <1>13, ZenonT(60) DEF ExecIndex, ExecStore, ExecSummary, ExecFail, RollIndex, disk, choice,
         queues, producer, At
  <2>2. job'.blk = job.blk /\ job'.pc # "index"
      BY <1>12, <2>1
  <2> QED
      BY <1>2, <2>1, <2>2
<1>14. CASE SetValid \/ MarkInvalid
  <2> /\ UNCHANGED <<tracker, inbox, replay, rpc>>
      /\ Goto("apply") \/ Goto("drop")
      /\ job.pc \in {"valid", "mark"} /\ job.blk \in Block
      /\ \A b \in Block : status'[b] = "Unchecked" => status[b] = "Unchecked"
      BY <1>14, ZenonT(60) DEF SetValid, MarkInvalid, choice, queues, producer, At, KnownInv, DiskInv, DiskType, JobInv, JobType
  <2>2. job'.blk = job.blk /\ job'.pc # "index"
      BY <1>12
  <2>3. \A b \in Block : Waiting(b) => Waiting(b)'
      BY <2>2 DEF Waiting, At
  <2>4. Running
      BY DEF Running, At
  <2> QED
      BY <2>3, <2>4, PursuedStep, ZenonT(60)
<1>15. CASE ApplyBlock \/ ApplyFail
  <2> /\ UNCHANGED <<status, inbox, replay, rpc>> /\ job.pc = "apply" /\ job.blk \in Block
      /\ tracker' = AttachBlock(tracker, job.blk) /\ tracker \in Trackers
      BY <1>15 DEF ApplyBlock, ApplyFail, disk, queues, producer, At, KnownInv, ChoiceInv, ChoiceType, JobInv, JobType
  <2>2. tracker'.fin = tracker.fin
      BY AttachType
  <2>3. job'.blk = job.blk /\ job'.pc \in {"post", "mark"}
    <3>1. CASE ApplyBlock
        BY <3>1, <1>12, ZenonT(60) DEF ApplyBlock
    <3>2. CASE ApplyFail
        BY <3>2 DEF ApplyFail, Reject, KnownInv, JobInv, JobType
    <3> QED
        BY <3>1, <3>2, <1>15
  <2>4. \A b \in Block : Waiting(b) => Waiting(b)'
      BY <2>3, ZenonT(60) DEF Waiting, At
  <2>5. Running
      BY DEF Running, At
  <2> QED
      BY <2>2, <2>4, <2>5, PursuedStep
<1>23. CASE AttachFail \/ LocalFail
  <2>1. /\ UNCHANGED <<status, tracker, inbox, replay, rpc>> /\ Reject
        /\ job.pc \notin {"index", "down", "failed"}
      BY <1>23, ZenonT(60) DEF AttachFail, LocalFail, disk, choice, queues, producer, At
  <2>2. job'.blk = job.blk /\ job'.pc # "index"
      BY <2>1 DEF Reject, KnownInv, JobInv, JobType
  <2> QED
      BY <1>2, <2>1, <2>2
<1>16. CASE PostBlock
  <2> USE <1>16
  <2> /\ UNCHANGED <<inbox, replay, rpc>> /\ job.pc = "post" /\ job.blk \in Block
      /\ pending \in Seq(Terminal) /\ tracker \in Trackers /\ status \in [Block -> Statuses]
      BY ZenonT(60) DEF PostBlock, queues, producer, At, KnownInv, DiskInv, DiskType, ChoiceInv, ChoiceType, JobInv, JobType
  <2>2. Slot[tracker'.fin] >= Slot[tracker.fin]
      BY FinalizationMoves, ZenonT(60) DEF PostBlock
  <2>3. CASE status' = [status EXCEPT ![job.blk] = "Valid"] /\ job' = Idle
    <3>1. \A b \in Block : status'[b] = "Unchecked" => status[b] = "Unchecked" /\ b # job.blk
        BY <2>3
    <3>2. \A b \in Block : status'[b] = "Unchecked" /\ Waiting(b) => Waiting(b)'
        BY <3>1 DEF Waiting, At
    <3>3. Running
        BY DEF Running, At
    <3> QED
        BY <2>2, <3>1, <3>2, <3>3, PursuedStep, ZenonT(60)
  <2>4. CASE Goto("down")
    <3>1. job'.pc = "down"
        BY <2>4, <1>12
    <3> QED
        BY <3>1 DEF Pursued, Running, At
  <2> QED
      BY <2>3, <2>4 DEF PostBlock
<1>17. CASE StateUpdate
  <2> /\ UNCHANGED <<status, inbox, replay, rpc>> /\ job.pc = "idle"
      /\ job' = job \/ Goto("down")
      BY <1>17 DEF StateUpdate, disk, queues, producer, At, KnownInv
  <2>2. Slot[tracker'.fin] >= Slot[tracker.fin]
      BY <1>17, StateUpdateMoves
  <2>3. CASE job' = job
    <3>1. \A b \in Block : Waiting(b) => Waiting(b)'
        BY <2>3 DEF Waiting, At
    <3>2. Running
        BY DEF Running, At
    <3> QED
        BY <2>2, <3>1, <3>2, PursuedStep, ZenonT(60)
  <2>4. CASE Goto("down")
    <3>1. job'.pc = "down"
        BY <2>4, <1>12
    <3> QED
        BY <3>1 DEF Pursued, Running, At
  <2> QED
      BY <2>3, <2>4
<1>18. CASE DropSummary \/ ClearHighWatermark
  <2> /\ UNCHANGED <<status, tracker, inbox, replay, rpc>> /\ job.pc \in {"drop", "clear"}
      /\ Goto("roll") \/ PassDone
      /\ job.blk \in Block /\ status[job.blk] = "Invalid"
      BY <1>18, ZenonT(60) DEF DropSummary, ClearHighWatermark, choice, queues, producer, At, KnownInv,
         JobInv, JobType
  <2>2. job'.pc # "index" /\ job'.blk \in {job.blk, Null}
    <3>1. PassDone => job' = Idle \/ job' = [pc |-> "mark", blk |-> job.blk, pass |-> 2]
        BY ZenonT(60) DEF PassDone, KnownInv, JobInv, JobType
    <3>2. Goto("roll") => job'.blk = job.blk /\ job'.pc # "index"
        BY <1>12
    <3>3. PassDone => job'.blk \in {job.blk, Null} /\ job'.pc # "index"
        BY <3>1 DEF Idle
    <3> QED
        BY <3>1, <3>2, <3>3, ZenonT(60)
  <2>3. \A b \in Block : status'[b] = "Unchecked" /\ Waiting(b) => Waiting(b)'
      BY <2>2, ZenonT(60) DEF Waiting, At
  <2>4. Running
      BY ZenonT(60) DEF Running, At
  <2> QED
      BY <2>3, <2>4, PursuedStep
<1>19. CASE Crash
    BY <1>19 DEF Crash, Idle, Pursued, Running, At
<1>20. CASE Restart
  <2> /\ status' = status /\ tracker'.fin = csmState /\ replay' = ReplayCandidates
      /\ csmState \in Block /\ Known \in SUBSET Block
      /\ \A b \in Known \ {Genesis} : Parent[b] \in Known
      BY <1>20, ZenonT(60) DEF Restart, KnownInv, DiskInv, CsmInv, Known
  <2> SUFFICES ASSUME NEW b \in Block, status[b] = "Unchecked", Slot[b] > Slot[csmState]
               PROVE  Waiting(b)'
      BY ZenonT(60) DEF Pursued
  <2>2. Ancestors[b] \subseteq Known
      BY ClosedSet, ZenonT(60) DEF Known
  <2>3. ASSUME NEW s \in Slot[csmState] + 1 .. Slot[b] PROVE Stored(s) # {}
    <3>1. Slot[csmState] \in Nat /\ Slot[b] \in Nat
        BY TreeAssumption, ZenonT(60)
    <3>2. s \in 0..Slot[b]
        BY <3>1
    <3>3. PICK x \in Ancestors[b] : Slot[x] = s
        BY <3>2, AncestorAt
    <3> QED
        BY <2>2, <3>3 DEF Stored, Known
  <2>4. b \in ReplayCandidates
      BY <2>3, ZenonT(60) DEF ReplayCandidates
  <2> QED
      BY <2>4, ZenonT(60) DEF Waiting
<1>21. CASE ReconcileIndex
  <2> UNCHANGED <<status, tracker, inbox, replay, rpc>> /\ job.pc = "index"
      BY <1>21 DEF ReconcileIndex, choice, queues, producer, At
  <2>2. \A b \in Block : Waiting(b) => Waiting(b)'
      BY DEF Waiting, At
  <2>3. Running
      BY DEF Running, At
  <2> QED
      BY <2>2, <2>3, PursuedStep
<1>22. CASE UNCHANGED vars
    BY <1>1, <1>22 DEF vars, disk, choice, queues, producer
<1> QED
    BY ZenonT(60), <1>3, <1>4, <1>5, <1>6, <1>7, <1>8, <1>9, <1>10, <1>11, <1>13, <1>14, <1>15, <1>16,
       <1>17, <1>18, <1>19, <1>20, <1>21, <1>22, <1>23, TreeAssumption
    DEF Next, FcmStep, ProducerStep, CsmStep

\* Whatever crashes or fails, a block that complete_block_template stored above
\* the finalized one reaches the FCM: its call still has to submit it, it is
\* queued, it is a replay candidate of a restart, or the FCM works on it.
THEOREM StoredBlockPursued == Spec => []NoBlockForgotten
<1>1. Init => Pursued
    BY TreeAssumption, ZenonT(60) DEF Init, Pursued
<1>2. Pursued => NoBlockForgotten
    BY DEF Pursued, NoBlockForgotten, Waiting, Up
<1> QED
    BY <1>1, <1>2, InitKnown, NextKnown, NextPursued, PTL DEF Spec

\* The store, the tracker, the queues, the producer's maps and the FCM's job
\* keep their types.
THEOREM TypeCorrect == Spec => []TypeOK
BY KnownTypes, InitKnown, NextKnown, PTL DEF Spec

=============================================================================
