--------------------------- MODULE L1WriterProofs ---------------------------
(***************************************************************************)
(* The L1 writer, for any number of calls, intents, faults and crashes.     *)
(* Intents are bundled in the order in which they are stored; a payload is  *)
(* final only when the reveal it names is; and, while the signing mode does *)
(* not change, every payload before the watcher's cursor is final.          *)
(***************************************************************************)
EXTENDS L1Writer, WellFoundedInduction, FiniteSetTheorems, TLAPS

\* The back ends a leaf is tried with, in this order.
USE SMT, Z3, ZenonT(60)

Pcs == {"new", "checked", "stored", "done"}
CallType == [pc : Pcs, id : Intents, idx : Nat]

\* Every index that is on its way to the bundler is one of a stored intent.
IndexInv ==
    /\ ids \in Seq(Intents)
    /\ intent \in [Intents -> {"None", "Unbundled", "Bundled"}]
    /\ call \in [Callers -> CallType]
    /\ \A c \in Callers : call[c].pc = "stored" => call[c].idx \in 1..Len(ids)
    /\ inbox \in Seq(Nat) /\ \A k \in 1..Len(inbox) : inbox[k] \in 1..Len(ids)
    /\ pending \subseteq 1..Len(ids) /\ work \subseteq 1..Len(ids)

WriterInv == IndexInv /\ BundledInOrder

\* Min of FiniteSetsExt is the least member of a set of naturals.
LEMMA MinIsLeast ==
    ASSUME NEW T, T \subseteq Nat, T # {}
    PROVE  Min(T) \in T
<1>1. IsWellFoundedOn(OpToRel(<, Nat), Nat)
    BY NatLessThanWellFounded, ZenonT(60)
<1>2. PICK x \in T : \A y \in T : ~ (<<y, x>> \in OpToRel(<, Nat))
    BY <1>1, WFMin, ZenonT(60)
<1>3. \A y \in T : ~(y < x)
    BY <1>2, ZenonT(60) DEF OpToRel
<1>4. \A y \in T : x <= y
    BY <1>3
<1> QED
    BY <1>4, ZenonT(60) DEF Min

\* A call that goes on keeps its intent and its index.
LEMMA PcOK ==
    ASSUME NEW a \in CallType, NEW p \in Pcs, NEW b, b = [a EXCEPT !.pc = p]
    PROVE  b \in CallType /\ b.pc = p
BY DEF CallType

LEMMA InitWriterInv == Init => WriterInv
<1> SUFFICES ASSUME Init PROVE WriterInv
    OBVIOUS
<1>1. call \in [Callers -> CallType] /\ \A c \in Callers : call[c].pc = "new"
    BY DEF Init, CallType, Pcs
<1>2. IndexInv
    BY <1>1 DEF Init, IndexInv
<1>3. BundledInOrder
    BY DEF Init, BundledInOrder
<1> QED
    BY <1>2, <1>3 DEF WriterInv

\* Everything but the calls and the bundler leaves the intents alone.
LEMMA OtherStep ==
    ASSUME WriterInv, UNCHANGED front
    PROVE  WriterInv'
BY DEF WriterInv, IndexInv, BundledInOrder, Distinct, front

\* A new intent goes to the end of the order, unbundled.
LEMMA CallStepInv ==
    ASSUME WriterInv, NEW c \in Callers, CallStep(c)
    PROVE  WriterInv'
<1>1. CASE CheckIntent(c)
  <2>1. call' \in [Callers -> CallType]
        /\ \A d \in Callers : call'[d].pc = "stored" => call[d].pc = "stored" /\ call'[d].idx = call[d].idx
    <3>1. PICK p \in {"checked", "done"} : call' = [call EXCEPT ![c].pc = p]
        BY <1>1, ZenonT(60) DEF CheckIntent
    <3>2. /\ call' = [call EXCEPT ![c] = [call[c] EXCEPT !.pc = p]] /\ call[c] \in CallType
          /\ call'[c] = [call[c] EXCEPT !.pc = p] /\ \A d \in Callers \ {c} : call'[d] = call[d]
        BY <3>1 DEF WriterInv, IndexInv
    <3>3. p \in Pcs /\ p # "stored"
        BY <3>1 DEF Pcs
    <3>4. call'[c] \in CallType /\ call'[c].pc = p
        BY <3>2, <3>3, PcOK
    <3> QED
        BY <3>2, <3>3, <3>4 DEF WriterInv, IndexInv
  <2> QED
      BY <1>1, <2>1 DEF CheckIntent, WriterInv, IndexInv, BundledInOrder, Distinct
<1>2. CASE PutIntent(c)
  <2> DEFINE id == call[c].id
  <2>1. id \in Intents /\ Len(ids) \in Nat /\ DOMAIN ids = 1..Len(ids)
      BY DEF WriterInv, IndexInv, CallType
  <2>2. /\ ids' \in Seq(Intents) /\ Len(ids') = Len(ids) + 1 /\ ids'[Len(ids) + 1] = id
        /\ \A k \in 1..Len(ids) : ids'[k] = ids[k]
        /\ DOMAIN ids' = 1..Len(ids) + 1
      BY <1>2, <2>1 DEF PutIntent, WriterInv, IndexInv
  <2>3. /\ intent' \in [Intents -> {"None", "Unbundled", "Bundled"}] /\ intent'[id] = "Unbundled"
        /\ \A i \in Intents \ {id} : intent'[i] = intent[i]
      BY <1>2, <2>1 DEF PutIntent, WriterInv, IndexInv
  <2>4. call' \in [Callers -> CallType]
        /\ \A d \in Callers : call'[d].pc = "stored" => call'[d].idx \in 1..Len(ids) + 1
    <3>1. call' = [call EXCEPT ![c] = [call[c] EXCEPT !.pc = "stored", !.idx = Len(ids) + 1]]
        BY <1>2, ZenonT(60) DEF PutIntent, WriterInv, IndexInv
    <3>2. \A a \in CallType : LET b == [a EXCEPT !.pc = "stored", !.idx = Len(ids) + 1]
                              IN  b \in CallType /\ b.idx = Len(ids) + 1
      <4>1. Len(ids) + 1 \in Nat
          BY <2>1
      <4> QED
          BY <4>1, ZenonT(60) DEF CallType, Pcs
    <3>3. call'[c] \in CallType /\ call'[c].idx = Len(ids) + 1 /\ \A d \in Callers \ {c} : call'[d] = call[d]
        BY <3>1, <3>2, ZenonT(60) DEF WriterInv, IndexInv
    <3>4. call' \in [Callers -> CallType]
        BY <3>1, <3>3 DEF WriterInv, IndexInv
    <3>5. \A d \in Callers \ {c} : call[d].pc = "stored" => call[d].idx \in 1..Len(ids) + 1
        BY <2>1 DEF WriterInv, IndexInv
    <3>6. Len(ids) + 1 \in 1..Len(ids) + 1
        BY <2>1
    <3> QED
        BY <3>3, <3>4, <3>5, <3>6, ZenonT(60)
  <2>5. IndexInv'
      BY <1>2, <2>1, <2>2, <2>3, <2>4 DEF PutIntent, WriterInv, IndexInv
  <2> HIDE DEF id
  <2>6. ASSUME Distinct', NEW i \in 1..Len(ids) + 1, NEW j \in 1..Len(ids) + 1, i < j,
               intent'[ids'[j]] = "Bundled"
        PROVE  intent'[ids'[i]] = "Bundled"
    <3>1. j \in 1..Len(ids) /\ i \in 1..Len(ids)
        BY <2>1, <2>2, <2>3, <2>6
    <3>2. ids'[i] = ids[i] /\ ids'[j] = ids[j] /\ ids[i] \in Intents /\ ids[j] \in Intents
        BY <2>2, <3>1 DEF WriterInv, IndexInv
    <3>3. ids'[i] # id /\ ids'[j] # id
        BY <2>1, <2>2, <2>6, <3>1 DEF Distinct
    <3>4. Distinct
        BY <2>1, <2>2, <2>6 DEF Distinct
    <3> QED
        BY <2>1, <2>3, <2>6, <3>1, <3>2, <3>3, <3>4 DEF WriterInv, BundledInOrder
  <2>7. BundledInOrder'
      BY <2>2, <2>6 DEF BundledInOrder
  <2> QED
      BY <2>5, <2>7 DEF WriterInv
<1>3. CASE SendIntent(c)
  <2>1. call' \in [Callers -> CallType]
        /\ \A d \in Callers : call'[d].pc = "stored" => call[d].pc = "stored" /\ call'[d].idx = call[d].idx
    <3>1. /\ call' = [call EXCEPT ![c] = [call[c] EXCEPT !.pc = "done"]] /\ call[c] \in CallType
          /\ call'[c] = [call[c] EXCEPT !.pc = "done"] /\ \A d \in Callers \ {c} : call'[d] = call[d]
        BY <1>3 DEF SendIntent, WriterInv, IndexInv
    <3>2. "done" \in Pcs
        BY DEF Pcs
    <3>3. call'[c] \in CallType /\ call'[c].pc = "done"
        BY <3>1, <3>2, PcOK
    <3> QED
        BY <3>1, <3>3 DEF WriterInv, IndexInv
  <2>2. call[c].idx \in 1..Len(ids) /\ call[c].idx \in Nat
      BY <1>3 DEF SendIntent, WriterInv, IndexInv, CallType
  <2>3. inbox' \in Seq(Nat) /\ \A k \in 1..Len(inbox') : inbox'[k] \in 1..Len(ids)
      BY <1>3, <2>2 DEF SendIntent, WriterInv, IndexInv
  <2> QED
      BY <1>3, <2>1, <2>3 DEF SendIntent, WriterInv, IndexInv, BundledInOrder, Distinct
<1> QED
    BY <1>1, <1>2, <1>3 DEF CallStep

\* An intent is bundled when its predecessor is, and with that one, by the
\* invariant, all before it.
LEMMA BundlerStepInv ==
    ASSUME WriterInv, BundlerStep
    PROVE  WriterInv'
<1>1. CASE TakeIntent
  <2>1. Head(inbox) \in 1..Len(ids)
      BY <1>1 DEF TakeIntent, WriterInv, IndexInv
  <2>2. inbox' \in Seq(Nat) /\ \A k \in 1..Len(inbox') : inbox'[k] \in 1..Len(ids)
      BY <1>1 DEF TakeIntent, WriterInv, IndexInv
  <2> QED
      BY <1>1, <2>1, <2>2, ZenonT(60) DEF TakeIntent, WriterInv, IndexInv, BundledInOrder, Distinct
<1>2. CASE BundlerTick
    BY <1>2 DEF BundlerTick, WriterInv, IndexInv, BundledInOrder, Distinct
<1>3. work # {} => Min(work) \in work /\ Min(work) \in 1..Len(ids)
  <2>1. work \subseteq Nat /\ work \subseteq 1..Len(ids)
      BY DEF WriterInv, IndexInv
  <2> QED
      BY <2>1, MinIsLeast, ZenonT(60)
<1>4. CASE WorkPredecessor
  <2>1. PICK n : n = Min(work)
      OBVIOUS
  <2>2. n \in 1..Len(ids) /\ n > 1 /\ work' = work \cup {n - 1}
      BY <1>3, <1>4, <2>1 DEF WorkPredecessor
  <2>3. work' \subseteq 1..Len(ids)
      BY <2>2 DEF WriterInv, IndexInv
  <2> QED
      BY <1>4, <2>3 DEF WorkPredecessor, WriterInv, IndexInv, BundledInOrder, Distinct
<1>5. CASE BundleIntent
  <2>1. PICK n : n = Min(work)
      OBVIOUS
  <2>2. /\ n \in 1..Len(ids) /\ work' = work \ {n}
        /\ n > 1 => intent[ids[n - 1]] = "Bundled"
        /\ intent' = intent \/ intent' = [intent EXCEPT ![ids[n]] = "Bundled"]
        /\ UNCHANGED <<ids, call, inbox, pending>>
      BY <1>3, <1>5, <2>1 DEF BundleIntent
  <2>3. ids \in Seq(Intents) /\ DOMAIN ids = 1..Len(ids) /\ Len(ids) \in Nat
        /\ \A k \in 1..Len(ids) : ids[k] \in Intents
      BY DEF WriterInv, IndexInv
  <2>4. /\ intent' \in [Intents -> {"None", "Unbundled", "Bundled"}]
        /\ \A i \in Intents : intent[i] = "Bundled" => intent'[i] = "Bundled"
        /\ \A i \in Intents \ {ids[n]} : intent'[i] = intent[i]
      BY <2>2, <2>3 DEF WriterInv, IndexInv
  <2>5. IndexInv'
      BY <2>2, <2>4 DEF WriterInv, IndexInv
  <2>6. ASSUME Distinct, NEW i \in 1..Len(ids), NEW j \in 1..Len(ids), i < j,
               intent'[ids[j]] = "Bundled"
        PROVE  intent'[ids[i]] = "Bundled"
    <3>1. CASE j # n
      <4>1. ids[j] \in Intents \ {ids[n]}
          BY <2>2, <2>3, <2>6, <3>1 DEF Distinct
      <4>2. intent[ids[j]] = "Bundled"
          BY <2>4, <2>6, <4>1
      <4>3. intent[ids[i]] = "Bundled"
          BY <2>3, <2>6, <4>2 DEF WriterInv, BundledInOrder
      <4> QED
          BY <2>3, <2>4, <4>3
    <3>2. CASE j = n
      <4>1. n > 1 /\ n - 1 \in 1..Len(ids) /\ intent[ids[n - 1]] = "Bundled"
          BY <2>2, <2>3, <2>6, <3>2
      <4>2. intent[ids[i]] = "Bundled"
        <5>1. CASE i = n - 1
            BY <4>1, <5>1
        <5>2. CASE i < n - 1
            BY <2>3, <2>6, <4>1, <5>2 DEF WriterInv, BundledInOrder
        <5> QED
            BY <2>2, <2>6, <3>2, <5>1, <5>2
      <4> QED
          BY <2>3, <2>4, <4>2
    <3> QED
        BY <3>1, <3>2
  <2>7. BundledInOrder'
      BY <2>2, <2>3, <2>6 DEF BundledInOrder, Distinct
  <2> QED
      BY <2>5, <2>7 DEF WriterInv
<1> QED
    BY <1>1, <1>2, <1>4, <1>5 DEF BundlerStep

\* After a restart the calls begin again and the bundler has the indexes past
\* the last bundled intent.
LEMMA RestartInv ==
    ASSUME WriterInv, Restart
    PROVE  WriterInv'
<1>1. call' \in [Callers -> CallType] /\ \A c \in Callers : call'[c].pc # "stored"
  <2>1. \A c \in Callers : /\ call[c].pc = "done" => call'[c] = call[c]
                           /\ call[c].pc # "done" => call'[c] = [call[c] EXCEPT !.pc = "new"]
      BY DEF Restart
  <2>2. \A c \in Callers : call'[c] \in CallType /\ call'[c].pc # "stored"
    <3>1. SUFFICES ASSUME NEW c \in Callers PROVE call'[c] \in CallType /\ call'[c].pc # "stored"
        OBVIOUS
    <3>2. call[c] \in CallType
        BY DEF WriterInv, IndexInv
    <3>3. CASE call[c].pc = "done"
        BY <2>1, <3>2, <3>3, ZenonT(60)
    <3>4. CASE call[c].pc # "done"
      <4>1. call'[c] = [call[c] EXCEPT !.pc = "new"]
          BY <2>1, <3>4
      <4>2. "new" \in Pcs
          BY DEF Pcs
      <4>3. call'[c] \in CallType /\ call'[c].pc = "new"
          BY <3>2, <4>1, <4>2, PcOK
      <4> QED
          BY <4>3
    <3> QED
        BY <3>3, <3>4
  <2> QED
      BY <2>2 DEF Restart
<1>2. inbox' = <<>> /\ work' = {} /\ UNCHANGED <<ids, intent>> /\ pending' \subseteq DOMAIN ids
    BY DEF Restart
<1>3. pending' \subseteq 1..Len(ids)
    BY <1>2 DEF WriterInv, IndexInv
<1>4. inbox' \in Seq(Nat) /\ Len(inbox') = 0
    BY <1>2
<1>5. IndexInv'
    BY <1>1, <1>2, <1>3, <1>4 DEF WriterInv, IndexInv
<1> QED
    BY <1>2, <1>5 DEF WriterInv, BundledInOrder, Distinct

LEMMA NextWriterInv == WriterInv /\ [Next]_vars => WriterInv'
<1> SUFFICES ASSUME WriterInv, [Next]_vars PROVE WriterInv'
    OBVIOUS
<1>1. CASE UNCHANGED vars
    BY <1>1, OtherStep DEF vars
<1>2. CASE WatcherStep
    BY <1>2, OtherStep DEF WatcherStep, Tick, NoPayload, BuildEnvelope, StoreEnvelope, Defer, AwaitSignature,
       ResetPending, CompleteReveal, PutCommit, PutReveal, PutTx, StoreSigned, ReadCommit,
       WriteBroadcastStatus, vars
<1>3. CASE SignerStep \/ Rotate \/ Crash
    BY <1>3, OtherStep DEF SignerStep, WriteSignature, ReadForSignature, Rotate, Crash
<1>4. CASE \E a \in Attempts, k \in {0, 1} : Broadcast(a, k) \/ Fault(a, k)
    BY <1>4, OtherStep DEF Broadcast, Fault
<1> QED
    BY <1>1, <1>2, <1>3, <1>4, CallStepInv, BundlerStepInv, RestartInv DEF Next

(* Intents are bundled in the order in which they are stored, for any number
   of calls, intents, faults and crashes and any order of their messages, as
   long as no intent is stored twice. *)
THEOREM BundlingIsOrdered == Spec => []BundledInOrder
<1>1. WriterInv => BundledInOrder
    BY DEF WriterInv
<1> QED
    BY <1>1, InitWriterInv, NextWriterInv, PTL DEF Spec

-----------------------------------------------------------------------------
(* The watcher.  A payload is final only below the cursor, so what the watcher
   writes into the broadcaster's table never touches a final payload. *)

\* A call that has stored its intent has an index and never stores it again,
\* and every payload takes one stored intent: MaxPayloads is enough.
Putters == {c \in Callers : call[c].idx # 0}
Unbundled == {i \in Intents : intent[i] = "Unbundled"}
CountInv ==
    /\ \A c \in Putters : call[c].pc # "checked" /\ intent[call[c].id] # "None"
    /\ Cardinality(Putters) = Len(ids)
    /\ Len(pay) + Cardinality(Unbundled) <= Len(ids)

\* A row names its envelope from the moment it has one.
Begun == {"PendingRevealTxSign", "Unpublished", "Published", "Confirmed", "Finalized"}
RowOK(row) == row \in Rows /\ (row.status \in Begun => row.att # 0)

Busy == {"have", "store", "commit", "reveal", "signed", "status"}
Building == {"store", "commit", "reveal", "signed"}
JobInv ==
    /\ job.pc \in Busy \cup {"idle", "down"}
    /\ job.pc \in Busy => curr <= Len(pay) /\ RowOK(job.row) /\ job.row.status # "Finalized"
    /\ job.pc \in Building => job \in [pc : Building, row : Rows, att : 1..MaxAttempts]
    /\ job.pc \in {"commit", "reveal", "signed", "status"} => job.row.att # 0

SignerInv ==
    /\ signer.pc \in {"idle", "have"}
    /\ signer.pc = "have" => /\ signer.idx \in 1..Len(pay) /\ RowOK(signer.row)
                             /\ signer.row.status = "PendingRevealTxSign"

PayInv ==
    /\ pay \in Seq(Rows) /\ curr \in 1..Len(pay) + 1
    /\ \A p \in 1..Len(pay) : RowOK(pay[p]) /\ (pay[p].status = "Finalized" => p < curr)

TableInv ==
    /\ bdb \in [Attempts -> [{0, 1} -> TxStatuses]]
    /\ FinalIsOnL1

CacheInv == cache \in [1..MaxPayloads -> 0..MaxAttempts]

PayloadInv == CountInv /\ PayInv /\ JobInv /\ SignerInv /\ TableInv /\ CacheInv

LEMMA Counts ==
    /\ IsFiniteSet(Putters) /\ Cardinality(Putters) \in Nat /\ Cardinality(Putters) <= MaxPayloads
    /\ IsFiniteSet(Unbundled) /\ Cardinality(Unbundled) \in Nat
    /\ MaxPayloads \in Nat
<1>1. IsFiniteSet(Putters) /\ Cardinality(Putters) <= Cardinality(Callers)
    BY FS_Subset, WriterAssumption DEF Putters
<1>2. IsFiniteSet(Unbundled)
    BY FS_Subset, WriterAssumption DEF Unbundled
<1> QED
    BY <1>1, <1>2, FS_CardinalityType, WriterAssumption DEF MaxPayloads

\* The greatest member of a bounded set of naturals.
LEMMA MaxIsGreatest ==
    ASSUME NEW n \in Nat, NEW T, T \subseteq 1..n, T # {}
    PROVE  Max(T) \in T /\ \A y \in T : y <= Max(T)
<1> DEFINE U == {u \in Nat : \A y \in T : y <= u}
<1>1. U \subseteq Nat /\ n \in U
    OBVIOUS
<1>2. IsWellFoundedOn(OpToRel(<, Nat), Nat)
    BY NatLessThanWellFounded, ZenonT(60)
<1>3. PICK x \in U : \A y \in U : ~ (<<y, x>> \in OpToRel(<, Nat))
    BY <1>1, <1>2, WFMin, ZenonT(60)
<1>4. \A y \in U : ~(y < x)
    BY <1>1, <1>3, ZenonT(60) DEF OpToRel
<1>5. x \in T
  <2>1. SUFFICES ASSUME x \notin T PROVE FALSE
      OBVIOUS
  <2>2. \A y \in T : y \in Nat /\ y < x
      BY <2>1
  <2>3. x > 0 /\ x - 1 \in Nat
    <3>1. PICK y \in T : TRUE
        BY ZenonT(60)
    <3> QED
        BY <2>2, <3>1
  <2>4. x - 1 \in U
      BY <2>2, <2>3
  <2> QED
      BY <1>4, <2>3, <2>4
<1>6. \A y \in T : x >= y
    BY <1>3, ZenonT(60)
<1>7. Max(T) \in T /\ \A y \in T : Max(T) >= y
    BY <1>5, <1>6, ZenonT(60) DEF Max
<1> QED
    BY <1>7

LEMMA LastWhereIsLast ==
    ASSUME NEW n \in Nat, NEW T, T \subseteq 1..n, NEW last, last = LastWhere(T)
    PROVE  last \in T \cup {0} /\ last \in 0..n /\ \A y \in T : y <= last
<1>1. CASE T = {}
    BY <1>1 DEF LastWhere
<1>2. CASE T # {}
  <2>1. last = Max(T)
      BY <1>2, ZenonT(60) DEF LastWhere
  <2>2. last \in T /\ \A y \in T : y <= last
      BY <1>2, <2>1, MaxIsGreatest, ZenonT(60)
  <2> QED
      BY <2>2
<1> QED
    BY <1>1, <1>2

\* Rows with one field changed.
LEMMA RowStatus ==
    ASSUME NEW row \in Rows, NEW s \in PayStatuses, NEW b, b = [row EXCEPT !.status = s]
    PROVE  b \in Rows /\ b.status = s /\ b.att = row.att /\ b.sig = row.sig
BY DEF Rows, PayStatuses

LEMMA RowAtt ==
    ASSUME NEW row \in Rows, NEW a \in 0..MaxAttempts, NEW b, b = [row EXCEPT !.att = a]
    PROVE  b \in Rows /\ b.status = row.status /\ b.att = a /\ b.sig = row.sig
BY DEF Rows, PayStatuses

LEMMA RowSig ==
    ASSUME NEW row \in Rows, NEW a \in 0..MaxAttempts, NEW b, b = [row EXCEPT !.sig = a]
    PROVE  b \in Rows /\ b.status = row.status /\ b.att = row.att /\ b.sig = a
BY DEF Rows, PayStatuses

LEMMA InitPayloadInv == Init => PayloadInv
<1> SUFFICES ASSUME Init PROVE PayloadInv
    OBVIOUS
<1>1. CountInv
  <2>1. \A c \in Callers : call[c].idx = 0
      BY DEF Init
  <2>2. Putters = {} /\ Unbundled = {}
      BY <2>1 DEF Putters, Unbundled, Init
  <2> QED
      BY <2>2, FS_EmptySet DEF CountInv, Init
<1>2. PayInv /\ JobInv /\ SignerInv
    BY DEF Init, PayInv, JobInv, SignerInv, Waiting, Busy, Building
<1>3. TableInv /\ CacheInv
    BY WriterAssumption DEF Init, TableInv, FinalIsOnL1, TxStatuses, CacheInv
<1> QED
    BY <1>1, <1>2, <1>3 DEF PayloadInv

\* Steps that leave the intents alone and add no payload keep the count.
LEMMA CountKept ==
    ASSUME CountInv, UNCHANGED <<ids, intent, call>>, Len(pay') = Len(pay)
    PROVE  CountInv'
BY DEF CountInv, Putters, Unbundled

LEMMA CallCounts ==
    ASSUME IndexInv, PayloadInv, NEW c \in Callers, CallStep(c)
    PROVE  CountInv'
<1> USE DEF PayloadInv, PayInv
<1>1. CASE CheckIntent(c) \/ SendIntent(c)
  <2>1. PICK p \in {"checked", "done"} : call' = [call EXCEPT ![c].pc = p]
                                         /\ (p = "checked" => intent[call[c].id] = "None")
      BY <1>1, ZenonT(60) DEF CheckIntent, SendIntent
  <2>2. /\ call[c] \in CallType /\ call'[c] = [call[c] EXCEPT !.pc = p]
        /\ \A d \in Callers \ {c} : call'[d] = call[d]
      BY <2>1 DEF IndexInv
  <2>3. call'[c].idx = call[c].idx /\ call'[c].id = call[c].id /\ call'[c].pc = p
      BY <2>2 DEF CallType
  <2>4. UNCHANGED <<ids, intent, pay>>
      BY <1>1 DEF CheckIntent, SendIntent
  <2>5. Putters' = Putters /\ Unbundled' = Unbundled
      BY <2>2, <2>3, <2>4, ZenonT(60) DEF Putters, Unbundled
  <2>6. ASSUME NEW d \in Putters PROVE call'[d].pc # "checked" /\ intent[call'[d].id] # "None"
      BY <2>1, <2>2, <2>3, <2>6 DEF CountInv, Putters
  <2> QED
      BY <2>4, <2>5, <2>6 DEF CountInv
<1>2. CASE PutIntent(c)
  <2> DEFINE id == call[c].id
  <2>1. call[c] \in CallType /\ id \in Intents /\ Len(ids) \in Nat
      BY DEF IndexInv, CallType
  <2>2. /\ call'[c] = [call[c] EXCEPT !.pc = "stored", !.idx = Len(ids) + 1]
        /\ \A d \in Callers \ {c} : call'[d] = call[d]
      BY <1>2 DEF PutIntent, IndexInv
  <2>3. call'[c].idx = Len(ids) + 1 /\ call'[c].id = id /\ call'[c].pc = "stored"
      BY <2>1, <2>2 DEF CallType
  <2>4. /\ Len(ids') = Len(ids) + 1 /\ UNCHANGED pay /\ intent'[id] = "Unbundled"
        /\ \A i \in Intents \ {id} : intent'[i] = intent[i]
      BY <1>2, <2>1 DEF PutIntent, IndexInv
  <2>5. c \notin Putters
      BY <1>2 DEF PutIntent, CountInv
  <2>6. Putters' = Putters \cup {c} /\ Unbundled' = Unbundled \cup {id}
    <3>1. call'[c].idx # 0
        BY <2>1, <2>3
    <3>2. Putters' = Putters \cup {c}
        BY <2>2, <3>1, ZenonT(60) DEF Putters
    <3>3. Unbundled' = Unbundled \cup {id}
        BY <2>1, <2>4, ZenonT(60) DEF Unbundled
    <3> QED
        BY <3>2, <3>3
  <2>7. Cardinality(Putters') = Cardinality(Putters) + 1
      BY <2>5, <2>6, Counts, FS_AddElement, ZenonT(60)
  <2>8. Cardinality(Unbundled') <= Cardinality(Unbundled) + 1 /\ Cardinality(Unbundled') \in Nat
    <3>1. Cardinality(Unbundled \cup {id}) = IF id \in Unbundled THEN Cardinality(Unbundled)
                                              ELSE Cardinality(Unbundled) + 1
        BY Counts, FS_AddElement, ZenonT(60)
    <3> QED
        BY <2>6, <3>1, Counts
  <2>9. ASSUME NEW d \in Putters' PROVE call'[d].pc # "checked" /\ intent'[call'[d].id] # "None"
    <3>1. CASE d = c
        BY <2>3, <2>4, <3>1
    <3>2. CASE d \in Putters
      <4>1. call[d].id \in Intents /\ call'[d] = call[d]
          BY <2>2, <2>5, <3>2 DEF Putters, IndexInv, CallType
      <4> QED
          BY <2>4, <3>2, <4>1 DEF CountInv
    <3> QED
        BY <2>6, <2>9, <3>1, <3>2
  <2> QED
      BY <2>1, <2>4, <2>7, <2>8, <2>9, Counts DEF CountInv
<1> QED
    BY <1>1, <1>2 DEF CallStep

\* A payload takes an unbundled intent.
LEMMA BundleCounts ==
    ASSUME IndexInv, PayloadInv, BundleIntent
    PROVE  /\ CountInv'
           /\ \/ UNCHANGED pay
              \/ \E i \in Intents : pay' = Append(pay, [id |-> i, status |-> "Unsigned", att |-> 0, sig |-> 0])
<1>1. work # {} /\ Min(work) \in 1..Len(ids)
  <2>1. work # {} /\ work \subseteq Nat /\ work \subseteq 1..Len(ids)
      BY DEF PayloadInv, IndexInv, BundleIntent
  <2> QED
      BY <2>1, MinIsLeast, ZenonT(60)
<1>2. PICK i : i = ids[Min(work)]
    OBVIOUS
<1>3. i \in Intents /\ UNCHANGED <<ids, call>>
    BY <1>1, <1>2 DEF PayloadInv, IndexInv, BundleIntent
<1>4. CASE intent[i] = "Unbundled"
  <2>1. /\ pay' = Append(pay, [id |-> i, status |-> "Unsigned", att |-> 0, sig |-> 0])
        /\ intent' = [intent EXCEPT ![i] = "Bundled"]
      BY <1>2, <1>4 DEF BundleIntent
  <2>2. Len(pay') = Len(pay) + 1 /\ Len(pay) \in Nat
      BY <2>1, WriterAssumption DEF PayloadInv, PayInv, Rows, PayStatuses
  <2>3. /\ intent'[i] = "Bundled" /\ \A j \in Intents \ {i} : intent'[j] = intent[j]
      BY <1>3, <2>1 DEF PayloadInv, IndexInv
  <2>4. Unbundled' = Unbundled \ {i} /\ i \in Unbundled /\ Putters' = Putters
      BY <1>3, <1>4, <2>3 DEF Unbundled, Putters
  <2>5. Cardinality(Unbundled') = Cardinality(Unbundled) - 1
      BY <2>4, Counts, FS_RemoveElement, ZenonT(60)
  <2>6. \A c \in Putters : call[c].pc # "checked" /\ intent'[call[c].id] # "None"
    <3>1. \A c \in Putters : call[c].id \in Intents
        BY DEF Putters, PayloadInv, IndexInv, CallType
    <3> QED
        BY <2>3, <3>1 DEF PayloadInv, CountInv
  <2> QED
      BY <1>3, <2>1, <2>2, <2>4, <2>5, <2>6, Counts DEF PayloadInv, CountInv, IndexInv
<1>5. CASE intent[i] # "Unbundled"
  <2>1. UNCHANGED <<pay, intent>>
      BY <1>2, <1>5 DEF BundleIntent
  <2> QED
      BY <1>3, <2>1, CountKept DEF PayloadInv
<1> QED
    BY <1>4, <1>5, ZenonT(60)

LEMMA PayloadsFit ==
    ASSUME IndexInv, PayloadInv
    PROVE  Len(pay) \in Nat /\ Len(pay) <= MaxPayloads
BY Counts DEF IndexInv, PayloadInv, CountInv, PayInv

LEMMA FinalRowIsAttempt ==
    ASSUME IndexInv, PayloadInv, NEW p \in 1..Len(pay), pay[p].status = "Finalized"
    PROVE  p < curr /\ pay[p].att \in 1..MaxAttempts /\ p \in 1..MaxPayloads
<1>1. p < curr /\ pay[p] \in Rows /\ pay[p].att # 0
    BY DEF PayloadInv, PayInv, RowOK, Begun
<1>2. pay[p].att \in 0..MaxAttempts
    BY <1>1 DEF Rows
<1> QED
    BY <1>1, <1>2, PayloadsFit, Counts, WriterAssumption

\* The watcher's steps that only move it on.
LEMMA JobMoves ==
    ASSUME PayloadInv, JobInv', CacheInv', UNCHANGED <<front, pay, curr, signer, bdb>>
    PROVE  PayloadInv'
<1>1. CountInv'
    BY CountKept DEF PayloadInv, front
<1>2. PayInv' /\ SignerInv' /\ TableInv'
    BY DEF PayloadInv, PayInv, SignerInv, TableInv, FinalIsOnL1
<1> QED
    BY <1>1, <1>2 DEF PayloadInv

\* The watcher puts back a row that is not final.
LEMMA RowWritten ==
    ASSUME PayloadInv, curr <= Len(pay), NEW row, RowOK(row), row.status # "Finalized", Write(row),
           CacheInv', UNCHANGED <<front, curr, signer, bdb>>
    PROVE  PayloadInv'
<1>1. /\ pay' \in Seq(Rows) /\ Len(pay') = Len(pay) /\ pay'[curr] = row
      /\ \A p \in 1..Len(pay) : p # curr => pay'[p] = pay[p]
      /\ Len(pay) \in Nat /\ curr \in 1..Len(pay)
    BY DEF Write, PayloadInv, PayInv, RowOK
<1>2. CountInv'
    BY <1>1, CountKept DEF PayloadInv, front
<1>3. PayInv'
    BY <1>1 DEF PayloadInv, PayInv
<1>4. JobInv'
    BY DEF Write, JobInv, Waiting, Busy, Building
<1>5. SignerInv'
    BY <1>1 DEF PayloadInv, SignerInv
<1>6. TableInv'
    BY <1>1 DEF PayloadInv, PayInv, TableInv, FinalIsOnL1
<1> QED
    BY <1>2, <1>3, <1>4, <1>5, <1>6 DEF PayloadInv

LEMMA ResetWritten ==
    ASSUME PayloadInv, job.pc \in Busy, Reset, CacheInv', UNCHANGED <<front, curr, signer, bdb>>
    PROVE  PayloadInv'
<1>1. PICK r : r = [job.row EXCEPT !.status = "Unsigned"]
    BY ZenonT(60)
<1>2. job.row \in Rows /\ "Unsigned" \in PayStatuses /\ curr <= Len(pay)
    BY DEF PayloadInv, JobInv, RowOK, PayStatuses
<1>3. r \in Rows /\ r.status = "Unsigned"
    BY <1>1, <1>2, RowStatus
<1>4. PICK s : s = [r EXCEPT !.sig = 0]
    BY ZenonT(60)
<1>5. s \in Rows /\ s.status = "Unsigned"
    BY <1>3, <1>4, RowSig, WriterAssumption
<1>6. Write(s)
    BY <1>1, <1>4 DEF Reset
<1>7. RowOK(s) /\ s.status # "Finalized"
    BY <1>5 DEF RowOK, Begun
<1> QED
    BY <1>2, <1>6, <1>7, RowWritten

\* Building an envelope, by its stages.
LEMMA BuildSteps ==
    ASSUME IndexInv, PayloadInv,
           BuildEnvelope \/ StoreEnvelope \/ CompleteReveal \/ PutCommit \/ PutReveal \/ StoreSigned
    PROVE  PayloadInv'
<1> USE DEF PayloadInv
<1>1. CASE BuildEnvelope
  <2>1. /\ job.pc = "have" /\ job.row \in Rows /\ curr <= Len(pay) /\ RowOK(job.row)
        /\ job.row.status \in {"Unsigned", "NeedsResign"}
      BY <1>1 DEF BuildEnvelope, Unsigned, Have, JobInv, Busy, RowOK
  <2>2. PICK a \in 1..MaxAttempts :
            \/ job' = [pc |-> "commit", row |-> [job.row EXCEPT !.att = a], att |-> a]
            \/ job' = [pc |-> "store", row |-> job.row, att |-> a]
      BY <1>1 DEF BuildEnvelope
  <2>3. PICK r : r = [job.row EXCEPT !.att = a]
      BY ZenonT(60)
  <2>4. a \in 0..MaxAttempts /\ a # 0
      BY WriterAssumption
  <2>5. r \in Rows /\ r.status = job.row.status /\ r.att = a
      BY <2>1, <2>3, <2>4, RowAtt
  <2>6. UNCHANGED <<front, pay, curr, signer, bdb>> /\ CacheInv'
      BY <1>1 DEF BuildEnvelope, CacheInv
  <2>7. CASE job' = [pc |-> "commit", row |-> r, att |-> a]
    <3>1. JobInv'
        BY <2>1, <2>4, <2>5, <2>6, <2>7 DEF JobInv, Busy, Building, RowOK
    <3> QED
        BY <2>6, <3>1, JobMoves
  <2>8. CASE job' = [pc |-> "store", row |-> job.row, att |-> a]
    <3>1. JobInv'
        BY <2>1, <2>6, <2>8 DEF JobInv, Busy, Building, RowOK
    <3> QED
        BY <2>6, <3>1, JobMoves
  <2> QED
      BY <2>2, <2>3, <2>7, <2>8
<1>2. CASE StoreEnvelope
  <2>1. job.pc = "store" /\ job.row \in Rows /\ curr <= Len(pay) /\ job.att \in 0..MaxAttempts /\ job.att # 0
      BY <1>2, WriterAssumption DEF StoreEnvelope, JobInv, Busy, Building, RowOK
  <2>2. PICK r1 : r1 = [job.row EXCEPT !.att = job.att]
      BY ZenonT(60)
  <2>3. PICK r2 : r2 = [r1 EXCEPT !.sig = 0]
      BY ZenonT(60)
  <2>4. PICK r3 : r3 = [r2 EXCEPT !.status = "PendingRevealTxSign"]
      BY ZenonT(60)
  <2>5. r1 \in Rows /\ r1.att # 0
      BY <2>1, <2>2, RowAtt
  <2>6. r2 \in Rows /\ r2.att # 0
      BY <2>3, <2>5, RowSig, WriterAssumption
  <2>7. r3 \in Rows /\ r3.att # 0 /\ r3.status = "PendingRevealTxSign"
    <3>1. "PendingRevealTxSign" \in PayStatuses
        BY DEF PayStatuses
    <3> QED
        BY <2>4, <2>6, <3>1, RowStatus
  <2>8. Write(r3) /\ UNCHANGED <<front, curr, signer, bdb>> /\ CacheInv'
      BY <1>2, <2>1, <2>2, <2>3, <2>4, ZenonT(60) DEF StoreEnvelope, CacheInv
  <2>9. RowOK(r3) /\ r3.status # "Finalized"
      BY <2>7 DEF RowOK
  <2> QED
      BY <2>1, <2>8, <2>9, RowWritten
<1>3. CASE CompleteReveal
  <2>1. /\ job.pc = "have" /\ job.row \in Rows /\ curr <= Len(pay) /\ RowOK(job.row)
        /\ job.row.status = "PendingRevealTxSign" /\ job.row.att # 0
      BY <1>3 DEF CompleteReveal, Pending, Have, JobInv, Busy, RowOK, Begun
  <2>2. cache[curr] \in 1..MaxAttempts /\ CacheInv'
    <3>1. curr \in 1..MaxPayloads
        BY <2>1, PayloadsFit, Counts DEF PayInv
    <3>2. CacheInv'
      <4>1. 0 \in 0..MaxAttempts
          BY WriterAssumption
      <4> QED
          BY <1>3, <4>1, ZenonT(60) DEF CompleteReveal, CacheInv
    <3> QED
        BY <1>3, <3>1, <3>2, WriterAssumption DEF CompleteReveal, Current, CacheInv
  <2>3. JobInv' /\ UNCHANGED <<front, pay, curr, signer, bdb>>
      BY <1>3, <2>1, <2>2 DEF CompleteReveal, JobInv, Busy, Building, RowOK
  <2> QED
      BY <2>2, <2>3, JobMoves
<1>4. CASE PutCommit \/ PutReveal
  <2>1. PICK k \in {0, 1}, next \in {"reveal", "signed"} : PutTx(k, next) /\ job.pc \in {"commit", "reveal"}
      BY <1>4 DEF PutCommit, PutReveal
  <2>2. /\ job \in [pc : Building, row : Rows, att : 1..MaxAttempts] /\ job.pc \in Building /\ job.pc \in Busy
        /\ job.row.att # 0 /\ curr <= Len(pay) /\ RowOK(job.row) /\ job.row.status # "Finalized"
      BY <2>1 DEF JobInv, Busy, Building
  <2>3. job' = [job EXCEPT !.pc = next] \/ job' = Waiting
      BY <2>1 DEF PutTx
  <2>4. UNCHANGED <<front, pay, curr, signer>>
      BY <2>1 DEF PutTx
  <2>5. JobInv'
    <3>1. CASE job' = Waiting
        BY <3>1 DEF Waiting, JobInv, Busy, Building
    <3>2. CASE job' = [job EXCEPT !.pc = next]
      <4>1. job' \in [pc : Building, row : Rows, att : 1..MaxAttempts] /\ job'.row = job.row /\ job'.pc = next
          BY <2>2, <3>2 DEF Building
      <4> QED
          BY <2>2, <2>4, <4>1 DEF JobInv, Busy
    <3> QED
        BY <2>3, <3>1, <3>2
  <2>6. CountInv' /\ PayInv' /\ SignerInv' /\ CacheInv'
    <3>1. CountInv'
        BY <2>4, CountKept DEF front
    <3> QED
        BY <2>1, <2>4, <3>1 DEF PutTx, PayInv, SignerInv, CacheInv
  <2>7. TableInv'
    <3>1. bdb' = [bdb EXCEPT ![<<curr, job.att>>] = [@ EXCEPT ![k] = "Unpublished"]]
        BY <2>1 DEF PutTx
    <3>2. bdb' \in [Attempts -> [{0, 1} -> TxStatuses]]
        BY <3>1, ZenonT(60) DEF TableInv, TxStatuses
    <3>3. ASSUME NEW p \in 1..Len(pay), pay[p].status = "Finalized"
          PROVE  bdb'[<<p, pay[p].att>>][1] = "Finalized"
      <4>1. p < curr /\ pay[p].att \in 1..MaxAttempts /\ p \in 1..MaxPayloads /\ curr \in Nat
          BY <3>3, FinalRowIsAttempt DEF PayInv
      <4>2. <<p, pay[p].att>> \in Attempts /\ <<p, pay[p].att>> # <<curr, job.att>>
          BY <4>1 DEF Attempts
      <4>3. bdb[<<p, pay[p].att>>][1] = "Finalized"
          BY <3>3 DEF TableInv, FinalIsOnL1, PayInv
      <4> QED
          BY <3>1, <4>2, <4>3 DEF TableInv
    <3> QED
        BY <2>4, <3>2, <3>3 DEF TableInv, FinalIsOnL1, PayInv
  <2> QED
      BY <2>5, <2>6, <2>7
<1>5. CASE StoreSigned
  <2>1. job.pc \in Busy /\ job.row \in Rows /\ job.row.att # 0 /\ curr <= Len(pay)
      BY <1>5 DEF StoreSigned, JobInv, Busy, RowOK
  <2>2. PICK r : r = [job.row EXCEPT !.status = "Unpublished"]
      BY ZenonT(60)
  <2>3. r \in Rows /\ r.status = "Unpublished" /\ r.att # 0
    <3>1. "Unpublished" \in PayStatuses
        BY DEF PayStatuses
    <3> QED
        BY <2>1, <2>2, <3>1, RowStatus
  <2>4. /\ Write(r) /\ UNCHANGED <<front, curr, signer, bdb>> /\ CacheInv'
        /\ RowOK(r) /\ r.status # "Finalized"
      BY <1>5, <2>2, <2>3 DEF StoreSigned, RowOK, CacheInv
  <2> QED
      BY <2>1, <2>4, RowWritten
<1> QED
    BY <1>1, <1>2, <1>3, <1>4, <1>5

\* The other steps of the watcher.
LEMMA WatchSteps ==
    ASSUME IndexInv, PayloadInv,
           Tick \/ NoPayload \/ Defer \/ AwaitSignature \/ ResetPending \/ ReadCommit
    PROVE  PayloadInv'
<1> USE DEF PayloadInv
<1>1. CASE Tick
  <2>1. curr \in 1..Len(pay) /\ pay[curr] \in Rows /\ RowOK(pay[curr]) /\ pay[curr].status # "Finalized"
      BY <1>1 DEF Tick, PayInv, RowOK
  <2>2. job' = [pc |-> "have", row |-> pay[curr]] /\ UNCHANGED <<front, pay, curr, signer, bdb, cache>>
      BY <1>1, <2>1 DEF Tick
  <2>3. JobInv' /\ CacheInv'
      BY <2>1, <2>2 DEF JobInv, Busy, Building, CacheInv
  <2> QED
      BY <2>2, <2>3, JobMoves
<1>2. CASE NoPayload
  <2>1. JobInv' /\ CacheInv' /\ UNCHANGED <<front, pay, curr, signer, bdb>>
      BY <1>2 DEF NoPayload, vars, JobInv, RowOK, CacheInv
  <2> QED
      BY <2>1, JobMoves
<1>3. CASE Defer \/ AwaitSignature
  <2>1. job' = Waiting /\ UNCHANGED <<front, pay, curr, signer, bdb, cache>>
      BY <1>3 DEF Defer, AwaitSignature
  <2>2. JobInv' /\ CacheInv'
      BY <2>1 DEF JobInv, Busy, Building, Waiting, CacheInv
  <2> QED
      BY <2>1, <2>2, JobMoves
<1>4. CASE ResetPending
  <2>1. job.pc \in Busy /\ Reset /\ UNCHANGED <<front, curr, signer, bdb>>
      BY <1>4 DEF ResetPending, Pending, Have, Busy
  <2>2. 0 \in 0..MaxAttempts
      BY WriterAssumption
  <2>3. CacheInv'
      BY <1>4, <2>2, ZenonT(60) DEF ResetPending, CacheInv
  <2> QED
      BY <2>1, <2>3, ResetWritten
<1>5. CASE ReadCommit
  <2>1. /\ job.pc \in Busy /\ job.row \in Rows /\ RowOK(job.row) /\ curr <= Len(pay)
        /\ job.row.status \in {"Unpublished", "Published", "Confirmed"} /\ job.row.att # 0
      BY <1>5 DEF ReadCommit, Have, JobInv, Busy, RowOK, Begun
  <2>2. PICK c : job' = [pc |-> "status", row |-> job.row, commit |-> c]
      BY <1>5 DEF ReadCommit
  <2>3. UNCHANGED <<front, pay, curr, signer, bdb, cache>>
      BY <1>5 DEF ReadCommit
  <2>4. JobInv' /\ CacheInv'
      BY <2>1, <2>2, <2>3 DEF JobInv, Busy, Building, CacheInv, RowOK
  <2> QED
      BY <2>3, <2>4, JobMoves
<1> QED
    BY <1>1, <1>2, <1>3, <1>4, <1>5

\* The row becomes final with the reveal it names, and the cursor moves on.
LEMMA StatusStep ==
    ASSUME IndexInv, PayloadInv, WriteBroadcastStatus
    PROVE  PayloadInv'
<1> USE DEF PayloadInv
<1>1. /\ job.pc \in Busy /\ job.row \in Rows /\ job.row.att \in 1..MaxAttempts
      /\ curr \in 1..Len(pay) /\ Len(pay) \in Nat /\ curr \in 1..MaxPayloads
  <2>1. job.pc \in Busy /\ job.row \in Rows /\ job.row.att # 0 /\ curr \in 1..Len(pay) /\ Len(pay) \in Nat
      BY DEF WriteBroadcastStatus, JobInv, Busy, RowOK, PayInv
  <2>2. job.row.att \in 0..MaxAttempts
      BY <2>1 DEF Rows
  <2> QED
      BY <2>1, <2>2, PayloadsFit, Counts, WriterAssumption
<1>2. PICK r : r = bdb[<<curr, job.row.att>>][1]
    OBVIOUS
<1>3. PICK s : s = NextStatus(job.commit, r)
    OBVIOUS
<1>4. UNCHANGED <<front, signer, bdb, cache>> /\ CacheInv'
    BY DEF WriteBroadcastStatus, CacheInv
<1>5. CASE "None" \in {job.commit, r}
  <2>1. Reset /\ UNCHANGED curr
      BY <1>2, <1>5 DEF WriteBroadcastStatus
  <2> QED
      BY <1>1, <1>4, <2>1, ResetWritten
<1>6. CASE "None" \notin {job.commit, r}
  <2>1. PICK row : row = [job.row EXCEPT !.status = s]
      BY ZenonT(60)
  <2>2. Write(row) /\ curr' = IF s = "Finalized" THEN curr + 1 ELSE curr
      BY <1>2, <1>3, <1>6, <2>1 DEF WriteBroadcastStatus
  <2>3. s \in PayStatuses /\ (s = "Finalized" => r = "Finalized")
      BY <1>2, <1>3, <1>6 DEF NextStatus, Accepted, PayStatuses
  <2>4. row \in Rows /\ row.status = s /\ row.att = job.row.att /\ RowOK(row)
    <3>1. row \in Rows /\ row.status = s /\ row.att = job.row.att
        BY <1>1, <2>1, <2>3, RowStatus
    <3> QED
        BY <1>1, <3>1 DEF RowOK
  <2>5. CASE s # "Finalized"
      BY <1>1, <1>4, <2>2, <2>4, <2>5, RowWritten
  <2>6. CASE s = "Finalized"
    <3>1. /\ pay' \in Seq(Rows) /\ Len(pay') = Len(pay) /\ pay'[curr] = row /\ curr' = curr + 1
          /\ \A p \in 1..Len(pay) : p # curr => pay'[p] = pay[p]
        BY <1>1, <2>2, <2>4, <2>6 DEF Write, PayInv
    <3>2. CountInv'
        BY <1>4, <3>1, CountKept DEF front
    <3>3. PayInv'
      <4>1. ASSUME NEW p \in 1..Len(pay) PROVE RowOK(pay'[p]) /\ (pay'[p].status = "Finalized" => p < curr + 1)
          BY <1>1, <2>4, <3>1 DEF PayInv
      <4> QED
          BY <1>1, <3>1, <4>1 DEF PayInv
    <3>4. JobInv'
        BY <2>2 DEF Write, JobInv, Waiting, Busy, Building
    <3>5. SignerInv'
        BY <1>4, <3>1 DEF SignerInv
    <3>6. TableInv'
      <4>1. ASSUME NEW p \in 1..Len(pay), pay'[p].status = "Finalized"
            PROVE  bdb[<<p, pay'[p].att>>][1] = "Finalized"
        <5>1. CASE p = curr
            BY <1>2, <2>3, <2>4, <2>6, <3>1, <5>1
        <5>2. CASE p # curr
            BY <3>1, <4>1, <5>2 DEF TableInv, FinalIsOnL1, PayInv
        <5> QED
            BY <5>1, <5>2
      <4> QED
          BY <1>4, <3>1, <4>1 DEF TableInv, FinalIsOnL1
    <3> QED
        BY <1>4, <3>2, <3>3, <3>4, <3>5, <3>6
  <2> QED
      BY <2>5, <2>6
<1> QED
    BY <1>5, <1>6

\* The signing call puts back a row that waits for its signature.
LEMMA SignerSteps ==
    ASSUME IndexInv, PayloadInv, SignerStep
    PROVE  PayloadInv'
<1> USE DEF PayloadInv
<1>1. CASE \E p \in DOMAIN pay : ReadForSignature(p)
  <2>1. PICK p \in DOMAIN pay : ReadForSignature(p)
      BY <1>1
  <2>2. p \in 1..Len(pay) /\ RowOK(pay[p]) /\ pay[p].status = "PendingRevealTxSign"
      BY <2>1 DEF ReadForSignature, PayInv
  <2>3. UNCHANGED <<front, pay, curr, cache, job, bdb>>
      BY <2>1 DEF ReadForSignature
  <2>4. SignerInv'
      BY <2>1, <2>2, <2>3 DEF ReadForSignature, SignerInv
  <2>5. CountInv'
      BY <2>3, CountKept DEF front
  <2>6. PayInv' /\ JobInv' /\ TableInv' /\ CacheInv'
      BY <2>3 DEF PayInv, JobInv, TableInv, FinalIsOnL1, CacheInv
  <2> QED
      BY <2>4, <2>5, <2>6
<1>2. CASE WriteSignature
  <2>1. /\ signer.idx \in 1..Len(pay) /\ signer.row \in Rows /\ signer.row.att # 0
        /\ signer.row.status = "PendingRevealTxSign" /\ signer.row.att \in 0..MaxAttempts
      BY <1>2 DEF WriteSignature, SignerInv, RowOK, Begun, Rows
  <2>2. PICK row : row = [signer.row EXCEPT !.sig = signer.row.att]
      BY ZenonT(60)
  <2>3. row \in Rows /\ RowOK(row) /\ row.status = "PendingRevealTxSign"
    <3>1. row \in Rows /\ row.status = "PendingRevealTxSign" /\ row.att # 0
        BY <2>1, <2>2, RowSig
    <3> QED
        BY <3>1 DEF RowOK
  <2>4. /\ pay' \in Seq(Rows) /\ Len(pay') = Len(pay) /\ pay'[signer.idx] = row
        /\ \A p \in 1..Len(pay) : p # signer.idx => pay'[p] = pay[p]
      BY <1>2, <2>1, <2>2, <2>3 DEF WriteSignature, PayInv
  <2>5. UNCHANGED <<front, curr, cache, job, bdb>> /\ signer' = Waiting
      BY <1>2 DEF WriteSignature
  <2>6. CountInv'
      BY <2>4, <2>5, CountKept DEF front
  <2>7. PayInv' /\ JobInv' /\ CacheInv' /\ SignerInv'
      BY <2>3, <2>4, <2>5 DEF PayInv, JobInv, CacheInv, SignerInv, Waiting
  <2>8. TableInv'
      BY <2>3, <2>4, <2>5 DEF TableInv, FinalIsOnL1, PayInv
  <2> QED
      BY <2>6, <2>7, <2>8
<1> QED
    BY <1>1, <1>2 DEF SignerStep

\* A new payload is unsigned and comes last.
LEMMA FrontSteps ==
    ASSUME IndexInv, PayloadInv, BundlerStep \/ \E c \in Callers : CallStep(c)
    PROVE  PayloadInv'
<1> USE DEF PayloadInv
<1>1. UNCHANGED <<curr, cache, job, signer, bdb>>
    BY ZenonT(60) DEF BundlerStep, TakeIntent, BundlerTick, WorkPredecessor, BundleIntent, CallStep,
           CheckIntent, PutIntent, SendIntent
<1>2. CountInv'
    BY CallCounts, BundleCounts, CountKept
       DEF BundlerStep, TakeIntent, BundlerTick, WorkPredecessor
<1>3. \/ UNCHANGED pay
      \/ \E i \in Intents : pay' = Append(pay, [id |-> i, status |-> "Unsigned", att |-> 0, sig |-> 0])
    BY BundleCounts, ZenonT(60) DEF BundlerStep, TakeIntent, BundlerTick, WorkPredecessor, CallStep,
       CheckIntent, PutIntent, SendIntent
<1>4. CASE UNCHANGED pay
    BY <1>1, <1>2, <1>4 DEF PayInv, JobInv, SignerInv, TableInv, FinalIsOnL1, CacheInv
<1>5. CASE \E i \in Intents : pay' = Append(pay, [id |-> i, status |-> "Unsigned", att |-> 0, sig |-> 0])
  <2>1. PICK row : row.status = "Unsigned" /\ pay' = Append(pay, row) /\ row \in Rows
      BY <1>5, WriterAssumption DEF Rows, PayStatuses
  <2>2. /\ pay' \in Seq(Rows) /\ Len(pay') = Len(pay) + 1 /\ Len(pay) \in Nat /\ pay'[Len(pay) + 1] = row
        /\ \A p \in 1..Len(pay) : pay'[p] = pay[p]
      BY <2>1 DEF PayInv
  <2>3. RowOK(row)
      BY <2>1 DEF RowOK, Begun
  <2>4. PayInv'
    <3>1. ASSUME NEW p \in 1..Len(pay) + 1 PROVE RowOK(pay'[p]) /\ (pay'[p].status = "Finalized" => p < curr)
        BY <2>1, <2>2, <2>3 DEF PayInv
    <3>2. curr \in 1..Len(pay) + 2
        BY <2>2 DEF PayInv
    <3> QED
        BY <1>1, <2>2, <3>1, <3>2 DEF PayInv
  <2>5. JobInv' /\ SignerInv' /\ CacheInv'
      BY <1>1, <2>2 DEF JobInv, SignerInv, CacheInv, PayInv
  <2>6. TableInv'
      BY <1>1, <2>1, <2>2 DEF TableInv, FinalIsOnL1, PayInv
  <2> QED
      BY <1>2, <2>4, <2>5, <2>6
<1> QED
    BY <1>3, <1>4, <1>5

\* A final reveal stays final: the broadcaster has settled it.
LEMMA TableSteps ==
    ASSUME IndexInv, PayloadInv, NEW a \in Attempts, NEW k \in {0, 1}, Broadcast(a, k) \/ Fault(a, k)
    PROVE  PayloadInv'
<1> USE DEF PayloadInv
<1>1. PICK s \in TxStatuses :
          bdb' = [bdb EXCEPT ![a] = [@ EXCEPT ![k] = s]] /\ (k = 1 => bdb[a][k] # "Finalized")
  <2>1. CASE Broadcast(a, k)
    <3>1. PICK s \in Following(k = 0, bdb[a][0], bdb[a][k]) :
              bdb' = [bdb EXCEPT ![a][k] = IF Refused(a, k) THEN "InvalidInputs" ELSE s]
        BY <2>1, ZenonT(60) DEF Broadcast
    <3> DEFINE r == IF Refused(a, k) THEN "InvalidInputs" ELSE s
    <3>2. r \in TxStatuses /\ bdb[a][k] # "Finalized"
        BY <3>1 DEF Following, TxStatuses
    <3>3. bdb' = [bdb EXCEPT ![a] = [@ EXCEPT ![k] = r]]
        BY <3>1, ZenonT(60)
    <3> HIDE DEF r
    <3> QED
        BY <3>2, <3>3, ZenonT(60)
  <2>2. CASE Fault(a, k)
    <3>1. PICK s \in {"InvalidInputs", "Unpublished"} :
              /\ bdb[a][k] \in (IF s = "InvalidInputs" THEN {"Unpublished", "Published"}
                                ELSE {"Published", "Confirmed"})
              /\ bdb' = [bdb EXCEPT ![a][k] = s]
        BY <2>2, ZenonT(60) DEF Fault
    <3>2. s \in TxStatuses /\ bdb[a][k] # "Finalized"
        BY <3>1 DEF TxStatuses
    <3> QED
        BY <3>1, <3>2, ZenonT(60)
  <2> QED
      BY <2>1, <2>2
<1>2. UNCHANGED <<front, pay, curr, cache, job, signer>>
    BY DEF Broadcast, Fault
<1>3. CountInv'
    BY <1>2, CountKept DEF front
<1>4. PayInv' /\ JobInv' /\ SignerInv' /\ CacheInv'
    BY <1>2 DEF PayInv, JobInv, SignerInv, CacheInv
<1>5. bdb' \in [Attempts -> [{0, 1} -> TxStatuses]]
    BY <1>1 DEF TableInv
<1>6. ASSUME NEW p \in 1..Len(pay), pay[p].status = "Finalized"
      PROVE  bdb'[<<p, pay[p].att>>][1] = "Finalized"
  <2>1. <<p, pay[p].att>> \in Attempts
      BY <1>6, FinalRowIsAttempt DEF Attempts
  <2>2. bdb[<<p, pay[p].att>>][1] = "Finalized"
      BY <1>6 DEF TableInv, FinalIsOnL1, PayInv
  <2> QED
      BY <1>1, <2>1, <2>2 DEF TableInv
<1>7. TableInv'
    BY <1>2, <1>5, <1>6 DEF TableInv, FinalIsOnL1, PayInv
<1> QED
    BY <1>3, <1>4, <1>7

\* A restart takes the cursor back to the last final payload.
LEMMA RestartSteps ==
    ASSUME IndexInv, PayloadInv, Rotate \/ Crash \/ Restart
    PROVE  PayloadInv'
<1> USE DEF PayloadInv
<1>1. CASE Rotate
    BY <1>1, CountKept, JobMoves DEF Rotate, front, JobInv, CacheInv
<1>2. CASE Crash
  <2>1. JobInv' /\ CacheInv' /\ UNCHANGED <<front, pay, curr, signer, bdb>>
      BY <1>2 DEF Crash, JobInv, Busy, Building, CacheInv
  <2> QED
      BY <2>1, JobMoves
<1>3. CASE Restart
  <2>1. UNCHANGED <<ids, intent, pay, bdb>> /\ job' = Waiting /\ signer' = Waiting
      BY <1>3 DEF Restart
  <2>2. \A c \in Callers : /\ call'[c].idx = call[c].idx /\ call'[c].id = call[c].id
                           /\ call'[c].pc \in {"new", "done"}
    <3>1. SUFFICES ASSUME NEW c \in Callers
                   PROVE  /\ call'[c].idx = call[c].idx /\ call'[c].id = call[c].id
                          /\ call'[c].pc \in {"new", "done"}
        OBVIOUS
    <3>2. call[c] \in CallType
        BY DEF IndexInv
    <3>3. /\ call[c].pc = "done" => call'[c] = call[c]
          /\ call[c].pc # "done" => call'[c] = [call[c] EXCEPT !.pc = "new"]
        BY <1>3 DEF Restart
    <3> QED
        BY <3>2, <3>3 DEF CallType
  <2>3. CountInv'
    <3>1. Putters' = Putters /\ Unbundled' = Unbundled
        BY <2>1, <2>2 DEF Putters, Unbundled
    <3>2. \A c \in Putters : call'[c].pc # "checked" /\ intent[call'[c].id] # "None"
        BY <2>2 DEF CountInv, Putters
    <3> QED
        BY <2>1, <3>1, <3>2 DEF CountInv
  <2>4. JobInv' /\ SignerInv' /\ TableInv'
      BY <2>1 DEF JobInv, SignerInv, TableInv, FinalIsOnL1, Waiting, Busy, Building
  <2>5. CacheInv'
    <3>1. 0 \in 0..MaxAttempts
        BY WriterAssumption
    <3> QED
        BY <1>3, <3>1 DEF Restart, CacheInv
  <2>6. PICK F : F = {p \in DOMAIN pay : pay[p].status = "Finalized"}
      BY ZenonT(60)
  <2>7. PICK last : last = LastWhere(F)
      OBVIOUS
  <2>8. F \subseteq 1..Len(pay) /\ Len(pay) \in Nat /\ curr' = last + 1
      BY <1>3, <2>6, <2>7 DEF Restart, PayInv
  <2>9. last \in 0..Len(pay) /\ \A p \in F : p <= last
      BY <2>7, <2>8, LastWhereIsLast, ZenonT(60)
  <2>10. PayInv'
    <3>1. curr' \in 1..Len(pay) + 1
        BY <2>8, <2>9
    <3>2. ASSUME NEW p \in 1..Len(pay), pay[p].status = "Finalized" PROVE p < curr'
      <4>1. p \in F
          BY <2>6, <3>2 DEF PayInv
      <4> QED
          BY <2>8, <2>9, <4>1
    <3> QED
        BY <2>1, <3>1, <3>2 DEF PayInv
  <2> QED
      BY <2>3, <2>4, <2>5, <2>10
<1> QED
    BY <1>1, <1>2, <1>3

LEMMA NextPayloadInv == IndexInv /\ PayloadInv /\ [Next]_vars => PayloadInv'
<1> SUFFICES ASSUME IndexInv, PayloadInv, [Next]_vars PROVE PayloadInv'
    OBVIOUS
<1>1. CASE UNCHANGED vars
  <2>1. JobInv' /\ CacheInv' /\ UNCHANGED <<front, pay, curr, signer, bdb>>
      BY <1>1 DEF PayloadInv, vars, JobInv, CacheInv
  <2> QED
      BY <2>1, JobMoves
<1>2. CASE WatcherStep
    BY <1>2, BuildSteps, WatchSteps, StatusStep DEF WatcherStep
<1> QED
    BY <1>1, <1>2, FrontSteps, SignerSteps, TableSteps, RestartSteps DEF Next

(* A payload counts as final only when the reveal its row names is final on
   L1, for any number of calls, intents, envelopes, faults and crashes, and
   also when the signing mode changes. *)
THEOREM FinalPayloadIsOnL1 == Spec => []FinalIsOnL1
<1>1. Init => WriterInv /\ PayloadInv
    BY InitWriterInv, InitPayloadInv
<1>2. WriterInv /\ PayloadInv /\ [Next]_vars => (WriterInv /\ PayloadInv)'
    BY NextWriterInv, NextPayloadInv DEF WriterInv
<1>3. PayloadInv => FinalIsOnL1
    BY DEF PayloadInv, TableInv
<1> QED
    BY <1>1, <1>2, <1>3, PTL DEF Spec

-----------------------------------------------------------------------------
(* While the signing mode stays the same, a signing call that has read a row
   holds up its payload: without the signature the watcher cannot go past it,
   so what the call writes back lands on a payload that is still open. *)
Open == {"Unsigned", "PendingRevealTxSign"}
AloneInv ==
    /\ job.pc \in Busy => \/ pay[curr].sig # 0
                          \/ pay[curr].status = job.row.status /\ pay[curr].sig = job.row.sig
    /\ job.pc = "store" => job.row.status \in {"Unsigned", "NeedsResign"}
    /\ job.pc = "status" => job.row.status \in {"Unpublished", "Published", "Confirmed"}
    /\ mode \in Keys /\ job.pc \in {"commit", "reveal", "signed"} => job.row.sig # 0

Held == signer.pc = "have" /\ signer.idx = curr
HeldInv ==
    /\ signer.pc = "have" => /\ mode \in Keys /\ signer.idx >= curr
                             /\ pay[signer.idx].sig = 0 /\ pay[signer.idx].status \in Open
    /\ Held /\ job.pc \in Busy => /\ job.pc \in {"have", "store"}
                                  /\ job.row.sig = 0 /\ job.row.status \in Open

OrderInv == AloneInv /\ HeldInv /\ EarlierAreFinal

LEMMA InitOrderInv == Init => OrderInv
BY DEF Init, OrderInv, AloneInv, HeldInv, Held, EarlierAreFinal, Waiting, Busy

LEMMA OrderJobMoves ==
    ASSUME OrderInv, AloneInv', Held => job'.pc \notin Busy \/ (/\ job'.pc \in {"have", "store"}
                                                               /\ job'.row.sig = 0 /\ job'.row.status \in Open),
           UNCHANGED <<pay, curr, signer, mode>>
    PROVE  OrderInv'
BY DEF OrderInv, HeldInv, Held, EarlierAreFinal

LEMMA OrderWritten ==
    ASSUME OrderInv, PayInv, curr <= Len(pay), NEW row, Write(row),
           Held => row.sig = 0 /\ row.status \in Open, UNCHANGED <<curr, signer, mode>>, SignerInv
    PROVE  OrderInv'
<1>1. /\ Len(pay) \in Nat /\ curr \in 1..Len(pay) /\ pay'[curr] = row
      /\ \A p \in 1..Len(pay) : p # curr => pay'[p] = pay[p]
    BY DEF Write, PayInv
<1>2. AloneInv'
    BY DEF Write, AloneInv, Waiting, Busy
<1>3. HeldInv'
    BY <1>1 DEF Write, OrderInv, HeldInv, Held, SignerInv, Waiting, Busy
<1>4. EarlierAreFinal'
    BY <1>1 DEF OrderInv, EarlierAreFinal
<1> QED
    BY <1>2, <1>3, <1>4 DEF OrderInv

LEMMA OrderBuild ==
    ASSUME PayloadInv, OrderInv,
           BuildEnvelope \/ StoreEnvelope \/ CompleteReveal \/ PutCommit \/ PutReveal \/ StoreSigned
    PROVE  OrderInv'
<1> USE DEF PayloadInv
<1>1. CASE BuildEnvelope
  <2>1. /\ job.pc = "have" /\ job.row \in Rows
        /\ job.row.status \in {"Unsigned", "NeedsResign"}
      BY <1>1 DEF BuildEnvelope, Unsigned, Have, JobInv, Busy, RowOK
  <2>2. PICK a \in 1..MaxAttempts :
            \/ mode = InProcess /\ job' = [pc |-> "commit", row |-> [job.row EXCEPT !.att = a], att |-> a]
            \/ job' = [pc |-> "store", row |-> job.row, att |-> a]
      BY <1>1 DEF BuildEnvelope
  <2>3. UNCHANGED <<pay, curr, signer, mode>>
      BY <1>1 DEF BuildEnvelope
  <2>4. CASE mode = InProcess /\ job' = [pc |-> "commit", row |-> [job.row EXCEPT !.att = a], att |-> a]
    <3>1. a \in 0..MaxAttempts
        BY WriterAssumption
    <3>2. job'.pc = "commit" /\ job'.row.status = job.row.status /\ job'.row.sig = job.row.sig
        BY <2>1, <2>4, <3>1, RowAtt
    <3>3. mode \notin Keys
        BY <2>4, WriterAssumption
    <3>4. AloneInv' /\ ~Held
        BY <2>1, <2>3, <3>2, <3>3 DEF OrderInv, AloneInv, HeldInv, Held, Busy
    <3> QED
        BY <2>3, <3>4, OrderJobMoves
  <2>5. CASE job' = [pc |-> "store", row |-> job.row, att |-> a]
    <3>1. AloneInv'
        BY <2>1, <2>3, <2>5 DEF OrderInv, AloneInv, Busy
    <3>2. Held => job'.pc = "store" /\ job'.row.sig = 0 /\ job'.row.status \in Open
        BY <2>1, <2>5, ZenonT(60) DEF OrderInv, HeldInv, Busy
    <3> QED
        BY <2>3, <3>1, <3>2, OrderJobMoves
  <2> QED
      BY <2>2, <2>4, <2>5
<1>2. CASE StoreEnvelope
  <2>1. job.pc = "store" /\ job.row \in Rows /\ curr <= Len(pay) /\ job.att \in 0..MaxAttempts
      BY <1>2, WriterAssumption DEF StoreEnvelope, JobInv, Busy, Building, RowOK
  <2>2. PICK r1 : r1 = [job.row EXCEPT !.att = job.att]
      BY ZenonT(60)
  <2>3. PICK r2 : r2 = [r1 EXCEPT !.sig = 0]
      BY ZenonT(60)
  <2>4. PICK r3 : r3 = [r2 EXCEPT !.status = "PendingRevealTxSign"]
      BY ZenonT(60)
  <2>5. r1 \in Rows
      BY <2>1, <2>2, RowAtt
  <2>6. r2 \in Rows /\ r2.sig = 0
      BY <2>3, <2>5, RowSig, WriterAssumption
  <2>7. r3.sig = 0 /\ r3.status = "PendingRevealTxSign"
    <3>1. "PendingRevealTxSign" \in PayStatuses
        BY DEF PayStatuses
    <3> QED
        BY <2>4, <2>6, <3>1, RowStatus
  <2>8. Write(r3) /\ UNCHANGED <<curr, signer, mode>>
      BY <1>2, <2>2, <2>3, <2>4 DEF StoreEnvelope
  <2>9. r3.sig = 0 /\ r3.status \in Open
      BY <2>7 DEF Open
  <2> QED
      BY <2>1, <2>8, <2>9, OrderWritten
<1>3. CASE CompleteReveal
  <2>1. job.pc = "have" /\ job.row.sig # 0 /\ job'.row = job.row /\ job'.pc = "commit"
      BY <1>3 DEF CompleteReveal, Pending, Have
  <2>2. UNCHANGED <<pay, curr, signer, mode>>
      BY <1>3 DEF CompleteReveal
  <2>3. AloneInv' /\ ~Held
      BY <2>1, <2>2 DEF OrderInv, AloneInv, HeldInv, Busy
  <2> QED
      BY <2>2, <2>3, OrderJobMoves
<1>4. CASE PutCommit \/ PutReveal
  <2>1. PICK k \in {0, 1}, next \in {"reveal", "signed"} : PutTx(k, next) /\ job.pc \in {"commit", "reveal"}
      BY <1>4 DEF PutCommit, PutReveal
  <2>2. job \in [pc : Building, row : Rows, att : 1..MaxAttempts]
      BY <2>1 DEF JobInv, Building
  <2>3. UNCHANGED <<pay, curr, signer, mode>> /\ (job' = [job EXCEPT !.pc = next] \/ job' = Waiting)
      BY <2>1 DEF PutTx
  <2>4. (job'.row = job.row /\ job'.pc = next) \/ job'.pc = "idle"
      BY <2>2, <2>3 DEF Waiting
  <2>5. AloneInv' /\ ~Held
      BY <2>1, <2>3, <2>4 DEF OrderInv, AloneInv, HeldInv, Busy
  <2> QED
      BY <2>3, <2>5, OrderJobMoves
<1>5. CASE StoreSigned
  <2>1. job.pc = "signed" /\ curr <= Len(pay)
      BY <1>5 DEF StoreSigned, JobInv, Busy
  <2>2. ~Held
      BY <2>1 DEF OrderInv, HeldInv, Busy
  <2>3. Write([job.row EXCEPT !.status = "Unpublished"]) /\ UNCHANGED <<curr, signer, mode>>
      BY <1>5 DEF StoreSigned
  <2> QED
      BY <2>1, <2>2, <2>3, OrderWritten
<1> QED
    BY <1>1, <1>2, <1>3, <1>4, <1>5

LEMMA OrderReset ==
    ASSUME PayloadInv, OrderInv, job.pc \in Busy, Reset, UNCHANGED <<curr, signer, mode>>
    PROVE  OrderInv'
<1>1. PICK r : r = [job.row EXCEPT !.status = "Unsigned"]
    BY ZenonT(60)
<1>2. job.row \in Rows /\ "Unsigned" \in PayStatuses /\ curr <= Len(pay)
    BY DEF PayloadInv, JobInv, RowOK, PayStatuses
<1>3. r \in Rows /\ r.status = "Unsigned"
    BY <1>1, <1>2, RowStatus
<1>4. PICK s : s = [r EXCEPT !.sig = 0]
    BY ZenonT(60)
<1>5. s.status \in Open /\ s.sig = 0
  <2>1. s.status = "Unsigned" /\ s.sig = 0
      BY <1>3, <1>4, RowSig, WriterAssumption
  <2> QED
      BY <2>1 DEF Open
<1>6. Write(s)
    BY <1>1, <1>4 DEF Reset
<1> QED
    BY <1>2, <1>5, <1>6, OrderWritten DEF PayloadInv

LEMMA OrderWatch ==
    ASSUME PayloadInv, OrderInv,
           Tick \/ NoPayload \/ Defer \/ AwaitSignature \/ ResetPending \/ ReadCommit
    PROVE  OrderInv'
<1>1. CASE Tick
  <2>1. job' = [pc |-> "have", row |-> pay[curr]] /\ UNCHANGED <<pay, curr, signer, mode>>
      BY <1>1 DEF Tick, PayloadInv, PayInv
  <2>2. AloneInv'
      BY <2>1 DEF AloneInv
  <2>3. Held => job'.pc = "have" /\ job'.row.sig = 0 /\ job'.row.status \in Open
      BY <2>1 DEF OrderInv, HeldInv, Held
  <2> QED
      BY <2>1, <2>2, <2>3, OrderJobMoves
<1>2. CASE NoPayload \/ Defer \/ AwaitSignature
  <2>1. job'.pc = "idle" /\ UNCHANGED <<pay, curr, signer, mode>>
      BY <1>2 DEF NoPayload, Defer, AwaitSignature, Waiting, vars
  <2>2. AloneInv' /\ job'.pc \notin Busy
      BY <2>1 DEF AloneInv, Busy
  <2> QED
      BY <2>1, <2>2, OrderJobMoves
<1>3. CASE ResetPending
  <2>1. job.pc \in Busy /\ Reset /\ UNCHANGED <<curr, signer, mode>>
      BY <1>3 DEF ResetPending, Pending, Have, Busy
  <2> QED
      BY <2>1, OrderReset
<1>4. CASE ReadCommit
  <2>1. /\ job.pc = "have" /\ job.row.status \in {"Unpublished", "Published", "Confirmed"}
        /\ job'.pc = "status" /\ job'.row = job.row /\ UNCHANGED <<pay, curr, signer, mode>>
      BY <1>4 DEF ReadCommit, Have
  <2>2. AloneInv' /\ ~Held
      BY <2>1 DEF OrderInv, AloneInv, HeldInv, Busy, Open
  <2> QED
      BY <2>1, <2>2, OrderJobMoves
<1> QED
    BY <1>1, <1>2, <1>3, <1>4

LEMMA OrderStatus ==
    ASSUME PayloadInv, OrderInv, WriteBroadcastStatus
    PROVE  OrderInv'
<1> USE DEF PayloadInv
<1>1. job.pc \in Busy /\ job.row \in Rows /\ curr \in 1..Len(pay) /\ Len(pay) \in Nat /\ ~Held
    BY DEF WriteBroadcastStatus, JobInv, Busy, RowOK, PayInv, OrderInv, HeldInv
<1>2. PICK r : r = bdb[<<curr, job.row.att>>][1]
    OBVIOUS
<1>3. PICK s : s = NextStatus(job.commit, r)
    OBVIOUS
<1>4. UNCHANGED <<signer, mode>>
    BY DEF WriteBroadcastStatus
<1>5. CASE "None" \in {job.commit, r}
  <2>1. Reset /\ UNCHANGED curr
      BY <1>2, <1>5 DEF WriteBroadcastStatus
  <2> QED
      BY <1>1, <1>4, <2>1, OrderReset
<1>6. CASE "None" \notin {job.commit, r}
  <2>1. PICK row : row = [job.row EXCEPT !.status = s]
      BY ZenonT(60)
  <2>2. Write(row) /\ curr' = IF s = "Finalized" THEN curr + 1 ELSE curr
      BY <1>2, <1>3, <1>6, <2>1 DEF WriteBroadcastStatus
  <2>3. CASE s # "Finalized"
      BY <1>1, <1>4, <2>2, <2>3, OrderWritten
  <2>4. CASE s = "Finalized"
    <3>1. s \in PayStatuses
        BY <2>4 DEF PayStatuses
    <3>2. row.status = "Finalized"
        BY <1>1, <2>1, <2>4, <3>1, RowStatus
    <3>3. /\ pay'[curr] = row /\ curr' = curr + 1 /\ job' = Waiting
          /\ \A p \in 1..Len(pay) : p # curr => pay'[p] = pay[p]
        BY <1>1, <2>2, <2>4 DEF Write, PayInv
    <3>4. AloneInv'
        BY <3>3 DEF AloneInv, Waiting, Busy
    <3>5. HeldInv'
        BY <1>1, <1>4, <3>3 DEF OrderInv, HeldInv, Held, SignerInv, Waiting, Busy
    <3>6. EarlierAreFinal'
        BY <1>1, <3>2, <3>3 DEF OrderInv, EarlierAreFinal
    <3> QED
        BY <3>4, <3>5, <3>6 DEF OrderInv
  <2> QED
      BY <2>3, <2>4
<1> QED
    BY <1>5, <1>6

\* The row a call reads is the current one, and so is not final, or a later one.
LEMMA OrderSigner ==
    ASSUME PayloadInv, OrderInv, SignerStep
    PROVE  OrderInv'
<1> USE DEF PayloadInv
<1>1. CASE \E p \in DOMAIN pay : ReadForSignature(p)
  <2>1. PICK p \in DOMAIN pay : ReadForSignature(p)
      BY <1>1
  <2>2. /\ p \in 1..Len(pay) /\ Len(pay) \in Nat /\ pay[p].status = "PendingRevealTxSign" /\ pay[p].sig = 0
        /\ mode \in Keys /\ signer'.pc = "have" /\ signer'.idx = p
        /\ UNCHANGED <<pay, curr, job, mode>>
      BY <2>1 DEF ReadForSignature, PayInv
  <2>3. p >= curr
      BY <2>2 DEF OrderInv, EarlierAreFinal, PayInv
  <2>4. p = curr /\ job.pc \in Busy => job.pc \in {"have", "store"} /\ job.row.sig = 0 /\ job.row.status \in Open
    <3> SUFFICES ASSUME p = curr, job.pc \in Busy
                 PROVE  job.pc \in {"have", "store"} /\ job.row.sig = 0 /\ job.row.status \in Open
        OBVIOUS
    <3>1. job.row.status = "PendingRevealTxSign" /\ job.row.sig = 0
        BY <2>2 DEF OrderInv, AloneInv
    <3> QED
        BY <2>2, <3>1, ZenonT(60) DEF OrderInv, AloneInv, Busy, Open
  <2>5. HeldInv'
      BY <2>2, <2>3, <2>4 DEF HeldInv, Held, Open
  <2> QED
      BY <2>2, <2>5 DEF OrderInv, AloneInv, EarlierAreFinal
<1>2. CASE WriteSignature
  <2>1. /\ signer.idx \in 1..Len(pay) /\ signer.row \in Rows /\ signer.row.att # 0
        /\ signer.row.att \in 0..MaxAttempts /\ signer.idx >= curr
      BY <1>2 DEF WriteSignature, SignerInv, RowOK, Begun, Rows, OrderInv, HeldInv
  <2>2. PICK row : row = [signer.row EXCEPT !.sig = signer.row.att]
      BY ZenonT(60)
  <2>3. row.sig # 0
      BY <2>1, <2>2, RowSig
  <2>4. /\ pay'[signer.idx] = row /\ \A p \in 1..Len(pay) : p # signer.idx => pay'[p] = pay[p]
        /\ UNCHANGED <<curr, job, mode>> /\ signer' = Waiting
      BY <1>2, <2>1, <2>2 DEF WriteSignature, PayInv
  <2>5. AloneInv'
    <3>1. job.pc \in Busy => curr \in 1..Len(pay)
        BY DEF JobInv, PayInv
    <3> QED
        BY <2>3, <2>4, <3>1 DEF OrderInv, AloneInv
  <2>6. HeldInv' /\ EarlierAreFinal'
      BY <2>1, <2>4 DEF HeldInv, Held, Waiting, OrderInv, EarlierAreFinal, PayInv
  <2> QED
      BY <2>5, <2>6 DEF OrderInv
<1> QED
    BY <1>1, <1>2 DEF SignerStep

LEMMA OrderFront ==
    ASSUME IndexInv, PayloadInv, OrderInv, BundlerStep \/ \E c \in Callers : CallStep(c)
    PROVE  OrderInv'
<1> USE DEF PayloadInv
<1>1. UNCHANGED <<curr, mode, job, signer>>
    BY ZenonT(60) DEF BundlerStep, TakeIntent, BundlerTick, WorkPredecessor, BundleIntent, CallStep,
           CheckIntent, PutIntent, SendIntent
<1>2. \/ UNCHANGED pay
      \/ \E i \in Intents : pay' = Append(pay, [id |-> i, status |-> "Unsigned", att |-> 0, sig |-> 0])
    BY BundleCounts, ZenonT(60) DEF BundlerStep, TakeIntent, BundlerTick, WorkPredecessor, CallStep,
       CheckIntent, PutIntent, SendIntent
<1>3. \A p \in 1..Len(pay) : pay'[p] = pay[p]
  <2>1. CASE \E i \in Intents : pay' = Append(pay, [id |-> i, status |-> "Unsigned", att |-> 0, sig |-> 0])
    <3>1. PICK row \in Rows : pay' = Append(pay, row)
        BY <2>1, WriterAssumption DEF Rows, PayStatuses
    <3> QED
        BY <3>1 DEF PayInv
  <2> QED
      BY <1>2, <2>1, ZenonT(60)
<1>4. Len(pay) \in Nat /\ curr \in 1..Len(pay) + 1 /\ (job.pc \in Busy => curr \in 1..Len(pay))
    BY DEF PayInv, JobInv
<1>5. AloneInv' /\ HeldInv'
    BY <1>1, <1>3, <1>4 DEF OrderInv, AloneInv, HeldInv, Held, SignerInv
<1>6. EarlierAreFinal'
  <2>1. ASSUME NEW p \in 1..curr - 1 PROVE pay'[p].status = "Finalized"
    <3>1. p \in 1..Len(pay)
        BY <1>4
    <3> QED
        BY <1>3, <3>1 DEF OrderInv, EarlierAreFinal
  <2> QED
      BY <1>1, <2>1 DEF EarlierAreFinal
<1> QED
    BY <1>5, <1>6 DEF OrderInv

LEMMA OrderRestart ==
    ASSUME PayloadInv, OrderInv, Crash \/ Restart
    PROVE  OrderInv'
<1>1. CASE Crash
  <2>1. job'.pc = "down" /\ UNCHANGED <<pay, curr, signer, mode>>
      BY <1>1 DEF Crash
  <2>2. AloneInv' /\ job'.pc \notin Busy
      BY <2>1 DEF AloneInv, Busy
  <2> QED
      BY <2>1, <2>2, OrderJobMoves
<1>2. CASE Restart
  <2>1. PICK F : F = {p \in DOMAIN pay : pay[p].status = "Finalized"}
      BY ZenonT(60)
  <2>2. PICK last : last = LastWhere(F)
      OBVIOUS
  <2>3. F \subseteq 1..Len(pay) /\ Len(pay) \in Nat /\ curr' = last + 1 /\ UNCHANGED pay
      BY <1>2, <2>1, <2>2 DEF Restart, PayloadInv, PayInv
  <2>4. last \in F \cup {0} /\ last \in 0..Len(pay)
      BY <2>2, <2>3, LastWhereIsLast, ZenonT(60)
  <2>5. last < curr /\ curr \in Nat
      BY <2>1, <2>3, <2>4 DEF PayloadInv, PayInv
  <2>6. EarlierAreFinal'
      BY <2>3, <2>4, <2>5 DEF OrderInv, EarlierAreFinal
  <2>7. AloneInv' /\ HeldInv'
      BY <1>2 DEF Restart, AloneInv, HeldInv, Held, Waiting, Busy
  <2> QED
      BY <2>6, <2>7 DEF OrderInv
<1> QED
    BY <1>1, <1>2

LEMMA NextOrderInv ==
    ASSUME ~Rotates
    PROVE  IndexInv /\ PayloadInv /\ OrderInv /\ [Next]_vars => OrderInv'
<1> SUFFICES ASSUME IndexInv, PayloadInv, OrderInv, [Next]_vars PROVE OrderInv'
    OBVIOUS
<1>1. CASE UNCHANGED vars \/ \E a \in Attempts, k \in {0, 1} : Broadcast(a, k) \/ Fault(a, k)
  <2>1. UNCHANGED <<pay, curr, signer, mode, job>>
      BY <1>1 DEF vars, Broadcast, Fault
  <2> QED
      BY <2>1, ZenonT(60) DEF OrderInv, AloneInv, HeldInv, Held, EarlierAreFinal
<1>2. CASE WatcherStep
    BY <1>2, OrderBuild, OrderWatch, OrderStatus DEF WatcherStep
<1>3. ~Rotate
    BY DEF Rotate
<1> QED
    BY <1>1, <1>2, <1>3, OrderFront, OrderSigner, OrderRestart DEF Next

(* Every payload before the one the watcher works on is final, also after a
   restart, for any number of calls, intents, envelopes, faults and crashes.
   It needs that the signing mode stays the same: a signing call that began
   before a change may write its row back behind the cursor. *)
THEOREM EarlierPayloadsAreFinal ==
    ASSUME ~Rotates
    PROVE  Spec => []EarlierAreFinal
<1> DEFINE Inv == WriterInv /\ PayloadInv /\ OrderInv
<1>1. Init => Inv
    BY InitWriterInv, InitPayloadInv, InitOrderInv
<1>2. Inv /\ [Next]_vars => Inv'
    BY NextWriterInv, NextPayloadInv, NextOrderInv DEF WriterInv
<1>3. Inv => EarlierAreFinal
    BY DEF OrderInv
<1> QED
    BY <1>1, <1>2, <1>3, PTL DEF Spec
=============================================================================
