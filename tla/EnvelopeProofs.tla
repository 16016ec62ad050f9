--------------------------- MODULE EnvelopeProofs ---------------------------
(***************************************************************************)
(* The chunked-envelope watcher, for any number of envelopes, of reveals,   *)
(* of refused or reorganised transactions and of crashes.  Envelopes are     *)
(* signed in order; a reveal never precedes its commit; a commit that the    *)
(* node has accepted is never lost; a final envelope is complete.            *)
(***************************************************************************)
EXTENDS ChunkedEnvelope, WellFoundedInduction, TLAPS

\* The back ends a leaf is tried with, in this order.
USE SMT, Z3, ZenonT(60)

RowType == [status : Statuses, att : 0..MaxAttempts]
Sent == {"Unpublished", "Published", "Confirmed", "Finalized"}

\* The rows.  An envelope that was never signed is unsigned.
RowsInv ==
    /\ env \in Seq(RowType) /\ Len(env) <= MaxEnvelopes
    /\ \A i \in 1..Len(env) : env[i].att = 0 => env[i].status = "Unsigned"
    /\ bdb = [a \in Attempts |-> bdb[a]]
    /\ \A a \in Attempts : bdb[a] \in [Txs(a) -> TxStatuses]

\* The watcher works on an envelope that it has signed.
Busy == job.pc \in {"enqueue", "full", "write", "put", "send", "record", "readback"}

JobInv ==
    /\ job = [pc |-> job.pc, todo |-> job.todo, idx |-> job.idx, k |-> job.k, safe |-> job.safe,
              status |-> job.status]
    /\ job.todo \subseteq Nat /\ active \subseteq Nat
    /\ Busy => /\ job.idx \in 1..Len(env) /\ env[job.idx].att # 0 /\ ~Unsigned(env[job.idx].status)
               /\ job.idx \notin job.todo => job.idx = frontier /\ frontier <= nextDb
    /\ job.pc \in {"advance", "put", "send", "record", "readback"} => job.todo = {}
    /\ job.pc \in {"enqueue", "full"} => job.k \in 1..Reveals[job.idx]
    /\ job.pc = "full" => job.idx \in job.todo /\ job.status \in Sent /\ Unlocks(env[job.idx].status)
    /\ job.pc \in {"enqueue", "readback"} => job.status = "CommitPublished"
    /\ job.pc = "readback" => job.k = 1
    /\ job.pc = "record" => job.status \in {"Published", "InvalidInputs"}
    \* What is written never leaves an accepted envelope merely unpublished.
    /\ job.pc = "write" =>
          /\ job.status \in Statuses
          /\ Unlocks(env[job.idx].status) => Unlocks(job.status) \/ Unsigned(job.status)

\* Every envelope before the frontier is accepted.
FrontierInv ==
    /\ nextDb \in 0..Len(env) /\ frontier \in 1..nextDb + 1
    /\ \A j \in 1..frontier - 1 : Unlocks(env[j].status)

EnvelopeInv == RowsInv /\ JobInv /\ FrontierInv

-----------------------------------------------------------------------------
(* Lemmas on rows. *)

\* A set of naturals that is not empty has a least member, which is its Min.
LEMMA MinIsLeast ==
    ASSUME NEW T, T \subseteq Nat, T # {}
    PROVE  Min(T) \in T /\ \A y \in T : Min(T) <= y
<1>1. IsWellFoundedOn(OpToRel(<, Nat), Nat)
    BY NatLessThanWellFounded, ZenonT(60)
<1>2. PICK x \in T : \A y \in T : ~ (<<y, x>> \in OpToRel(<, Nat))
    BY <1>1, WFMin, ZenonT(60)
<1>3. \A y \in T : ~(y < x)
    BY <1>2, ZenonT(60) DEF OpToRel
<1>4. \A y \in T : x <= y
    BY <1>3
<1> QED
    BY <1>4, ZenonT(60) DEF Min

LEMMA MinOfTwo ==
    ASSUME NEW a \in Nat, NEW b \in Nat
    PROVE  Min({a, b}) \in Nat /\ Min({a, b}) \in {a, b} /\ Min({a, b}) <= a /\ Min({a, b}) <= b
<1>1. {a, b} \subseteq Nat /\ {a, b} # {}
    OBVIOUS
<1>2. Min({a, b}) \in {a, b} /\ \A y \in {a, b} : Min({a, b}) <= y
    BY <1>1, MinIsLeast
<1> QED
    BY <1>2

LEMMA Below ==
    ASSUME NEW n \in Nat, NEW m \in 1..n, NEW j \in 1..m - 1
    PROVE  j \in 1..n /\ j < m /\ ~(m <= j) /\ j # m
OBVIOUS

LEMMA Under ==
    ASSUME NEW f \in Nat, NEW i \in Nat, NEW m \in Nat, m <= f, m <= i, NEW j \in 1..m - 1
    PROVE  j \in 1..f - 1 /\ j # i
OBVIOUS

LEMMA RowOK ==
    ASSUME NEW r \in RowType, NEW s \in Statuses, NEW q, q = [r EXCEPT !.status = s]
    PROVE  q \in RowType /\ q.status = s /\ q.att = r.att
BY DEF RowType

LEMMA SetStatus ==
    ASSUME RowsInv, NEW i \in 1..Len(env), NEW s \in Statuses, env[i].att # 0,
           env' = [env EXCEPT ![i].status = s]
    PROVE  /\ env' \in Seq(RowType) /\ Len(env') = Len(env)
           /\ env'[i].status = s /\ env'[i].att = env[i].att
           /\ \A j \in 1..Len(env) \ {i} : env'[j] = env[j]
           /\ \A j \in 1..Len(env) : env'[j].att = 0 => env'[j].status = "Unsigned"
<1>1. PICK q : q = [env[i] EXCEPT !.status = s]
    OBVIOUS
<1>2. env[i] \in RowType
    BY DEF RowsInv
<1>3. q \in RowType /\ q.status = s /\ q.att = env[i].att
    BY <1>1, <1>2, RowOK
<1>4. env' = [env EXCEPT ![i] = q]
    BY <1>1
<1>5. env' \in Seq(RowType) /\ Len(env') = Len(env) /\ env'[i] = q
      /\ \A j \in 1..Len(env) \ {i} : env'[j] = env[j]
  <2>1. \A e \in Seq(RowType) : \A n \in 1..Len(e) :
           LET f == [e EXCEPT ![n] = q]
           IN  f \in Seq(RowType) /\ Len(f) = Len(e) /\ f[n] = q /\ \A j \in 1..Len(e) \ {n} : f[j] = e[j]
      BY <1>3
  <2> QED
      BY <1>4, <2>1 DEF RowsInv
<1> QED
    BY <1>3, <1>5 DEF RowsInv

\* The row of a transaction of a signed envelope.
LEMMA SignedRow ==
    ASSUME RowsInv, NEW i \in 1..Len(env), env[i].att # 0
    PROVE  /\ Attempt(i) \in Attempts
           /\ \A k \in 0..Reveals[i] : k \in Txs(Attempt(i)) /\ bdb[Attempt(i)][k] \in TxStatuses
           /\ Reveals[i] \in Nat \ {0}
<1>1. env[i].att \in 1..MaxAttempts /\ i \in 1..MaxEnvelopes
  <2>1. env[i] \in RowType /\ Len(env) \in Nat /\ Len(env) <= MaxEnvelopes
      BY DEF RowsInv
  <2>2. env[i].att \in 0..MaxAttempts /\ MaxAttempts \in Nat
      BY <2>1, EnvelopeAssumption DEF RowType, MaxAttempts
  <2> QED
      BY <2>1, <2>2, EnvelopeAssumption
<1>2. Attempt(i) \in Attempts /\ Attempt(i)[1] = i
    BY <1>1 DEF Attempt, Attempts
<1>3. Txs(Attempt(i)) = 0..Reveals[i]
    BY <1>2 DEF Txs
<1> QED
    BY <1>1, <1>2, <1>3, EnvelopeAssumption DEF RowsInv

LEMMA SetTx ==
    ASSUME RowsInv, NEW a \in Attempts, NEW k \in Txs(a), NEW s \in TxStatuses,
           bdb' = [bdb EXCEPT ![a][k] = s], UNCHANGED env
    PROVE  RowsInv'
<1>1. bdb' = [bdb EXCEPT ![a] = [bdb[a] EXCEPT ![k] = s]]
    OBVIOUS
<1>2. [bdb[a] EXCEPT ![k] = s] \in [Txs(a) -> TxStatuses]
    BY DEF RowsInv
<1>3. bdb' = [b \in Attempts |-> bdb'[b]] /\ \A b \in Attempts : bdb'[b] \in [Txs(b) -> TxStatuses]
    BY <1>1, <1>2, ZenonT(60) DEF RowsInv
<1> QED
    BY <1>3 DEF RowsInv

-----------------------------------------------------------------------------
(* The invariant is inductive. *)

LEMMA InitEnvelopeInv == Init => EnvelopeInv
<1> SUFFICES ASSUME Init PROVE EnvelopeInv
    OBVIOUS
<1>1. env = <<>> /\ env \in Seq(RowType) /\ Len(env) = 0
    BY DEF Init
<1>2. RowsInv
    BY <1>1, EnvelopeAssumption DEF Init, RowsInv, TxStatuses
<1>3. JobInv
    BY DEF Init, JobInv, Waiting, Busy
<1>4. FrontierInv
    BY <1>1 DEF Init, FrontierInv
<1> QED
    BY <1>2, <1>3, <1>4 DEF EnvelopeInv

\* The broadcaster's steps change its table only.
LEMMA TableStep ==
    ASSUME EnvelopeInv, NEW a \in Attempts, NEW k \in Txs(a), Broadcast(a, k) \/ Refuse(a, k) \/ Regress(a, k)
    PROVE  EnvelopeInv'
<1>1. UNCHANGED <<env, nextDb, frontier, active, job>>
    BY DEF Broadcast, Refuse, Regress, watcher
<1>2. PICK s \in TxStatuses : bdb' = [bdb EXCEPT ![a][k] = s]
  <2>1. CASE Broadcast(a, k)
    <3>1. \A c, t : Following(k = 0, c, t) \subseteq TxStatuses
        BY DEF Following, TxStatuses
    <3> QED
        BY <2>1, <3>1, ZenonT(60) DEF Broadcast
  <2>2. CASE Refuse(a, k) \/ Regress(a, k)
      BY <2>2 DEF Refuse, Regress, TxStatuses
  <2> QED
      BY <2>1, <2>2
<1>3. RowsInv'
    BY <1>1, <1>2, SetTx, ZenonT(60) DEF EnvelopeInv
<1> QED
    BY <1>1, <1>3 DEF EnvelopeInv, JobInv, FrontierInv, Busy

LEMMA SubmitStep ==
    ASSUME EnvelopeInv, Submit
    PROVE  EnvelopeInv'
<1>1. [status |-> "Unsigned", att |-> 0] \in RowType
    BY EnvelopeAssumption DEF RowType, Statuses, MaxAttempts
<1>2. /\ env' \in Seq(RowType) /\ Len(env') = Len(env) + 1 /\ Len(env) \in Nat /\ Len(env') <= MaxEnvelopes
      /\ env'[Len(env) + 1] = [status |-> "Unsigned", att |-> 0]
      /\ \A j \in 1..Len(env) : env'[j] = env[j]
    BY <1>1, EnvelopeAssumption DEF Submit, EnvelopeInv, RowsInv
<1>3. UNCHANGED <<bdb, nextDb, frontier, job>>
    BY DEF Submit, watcher
<1>4. RowsInv'
  <2>1. \A i \in 1..Len(env') : env'[i].att = 0 => env'[i].status = "Unsigned"
      BY <1>2 DEF EnvelopeInv, RowsInv
  <2> QED
      BY <1>2, <1>3, <2>1 DEF EnvelopeInv, RowsInv
<1>5. JobInv'
  <2>1. Busy => job.idx \in 1..Len(env) /\ job.idx \in 1..Len(env') /\ env'[job.idx] = env[job.idx]
      BY <1>2 DEF EnvelopeInv, JobInv
  <2>2. Busy' <=> Busy
      BY <1>3 DEF Busy
  <2> QED
      BY <1>3, <2>1, <2>2 DEF EnvelopeInv, JobInv, Busy, Submit, watcher
<1>6. FrontierInv'
    BY <1>2, <1>3 DEF EnvelopeInv, FrontierInv
<1> QED
    BY <1>4, <1>5, <1>6 DEF EnvelopeInv

\* A step of the watcher that leaves rows and frontier alone.
LEMMA JobStep ==
    ASSUME EnvelopeInv, JobInv', RowsInv', UNCHANGED <<env, nextDb, frontier>>
    PROVE  EnvelopeInv'
BY DEF EnvelopeInv, FrontierInv

LEMMA RowsSame ==
    ASSUME EnvelopeInv, UNCHANGED <<env, bdb>>
    PROVE  RowsInv'
BY DEF EnvelopeInv, RowsInv

\* The watcher is not at work on an envelope.
LEMMA RestJob ==
    ASSUME EnvelopeInv, NEW p \in {"idle", "advance", "ended", "down"}, active' \subseteq Nat, job' = [Waiting EXCEPT !.pc = p]
    PROVE  JobInv'
<1>1. job' = [pc |-> p, todo |-> {}, idx |-> 0, k |-> 0, safe |-> FALSE, status |-> "Unsigned"]
    BY ZenonT(60) DEF Waiting
<1>2. job'.pc = p /\ job'.todo = {}
    BY <1>1
<1>3. job' = [pc |-> job'.pc, todo |-> job'.todo, idx |-> job'.idx, k |-> job'.k, safe |-> job'.safe,
              status |-> job'.status]
    BY <1>1, ZenonT(60)
<1> QED
    BY <1>2, <1>3 DEF JobInv, Busy

LEMMA WaitingJob == Waiting = [Waiting EXCEPT !.pc = "idle"]
    BY DEF Waiting

\* A tick takes in the new rows.
LEMMA TickStep ==
    ASSUME EnvelopeInv, Tick
    PROVE  EnvelopeInv'
<1>1. UNCHANGED <<env, bdb, frontier>> /\ nextDb' = Len(env)
    BY DEF Tick
<1>2. active' \subseteq Nat
    BY DEF Tick, EnvelopeInv, FrontierInv, RowsInv, JobInv
<1>3. job' = [pc |-> "reconcile", todo |-> active', idx |-> 0, k |-> 0, safe |-> FALSE, status |-> "Unsigned"]
    BY ZenonT(60) DEF Tick, Waiting
<1>4. JobInv'
    BY <1>2, <1>3 DEF JobInv, Busy
<1>5. FrontierInv'
    BY <1>1 DEF EnvelopeInv, FrontierInv, RowsInv
<1> QED
    BY <1>1, <1>4, <1>5, RowsSame DEF EnvelopeInv

LEMMA EndStep ==
    ASSUME EnvelopeInv, EndReconcile \/ EndAdvance \/ EndWatcher \/ Crash
    PROVE  EnvelopeInv'
<1>1. UNCHANGED <<env, bdb, nextDb, frontier, active>>
    BY DEF EndReconcile, EndAdvance, EndWatcher, Crash
<1>2. active' \subseteq Nat
    BY <1>1 DEF EnvelopeInv, JobInv
<1>3. PICK p \in {"idle", "advance", "ended", "down"} : job' = [Waiting EXCEPT !.pc = p]
    BY WaitingJob, ZenonT(60) DEF EndReconcile, EndAdvance, EndWatcher, Crash
<1> QED
    BY <1>1, <1>2, <1>3, RestJob, RowsSame, JobStep

\* Recovery puts the frontier at the first envelope that is not accepted.
LEMMA RecoverStep ==
    ASSUME EnvelopeInv, Recover
    PROVE  EnvelopeInv'
<1> DEFINE blocked == {i \in DOMAIN env : ~Unlocks(env[i].status)}
<1>1. /\ UNCHANGED <<env, bdb>> /\ nextDb' = Len(env) /\ active' \subseteq DOMAIN env /\ job' = Waiting
      /\ frontier' = IF blocked = {} THEN Len(env) + 1 ELSE Min(blocked)
    BY DEF Recover
<1>2. Len(env) \in Nat /\ DOMAIN env = 1..Len(env)
    BY DEF EnvelopeInv, RowsInv
<1>3. active' \subseteq Nat
    BY <1>1, <1>2
<1>4. JobInv'
    BY <1>1, <1>3, RestJob, WaitingJob
<1>5. frontier' \in 1..Len(env) + 1 /\ \A j \in 1..frontier' - 1 : Unlocks(env[j].status)
  <2>1. CASE blocked = {}
      BY <1>1, <1>2, <2>1
  <2>2. CASE blocked # {}
    <3>1. blocked \subseteq Nat
        BY <1>2
    <3>2. Min(blocked) \in blocked /\ \A y \in blocked : Min(blocked) <= y
        BY <2>2, <3>1, MinIsLeast
    <3>3. frontier' \in 1..Len(env) /\ \A y \in blocked : frontier' <= y
        BY <1>1, <1>2, <2>2, <3>2
    <3>4. ASSUME NEW j \in 1..frontier' - 1 PROVE Unlocks(env[j].status)
      <4>1. frontier' \in 1..Len(env)
          BY <3>3
      <4>2. j \in 1..Len(env) /\ ~(frontier' <= j)
          BY <1>2, <4>1, Below, ZenonT(60)
      <4> QED
          BY <1>2, <3>3, <4>2
    <3>5. frontier' \in 1..Len(env) + 1
      <4>1. frontier' \in 1..Len(env)
          BY <3>3
      <4> QED
          BY <1>2, <4>1
    <3> QED
        BY <3>4, <3>5, ZenonT(60)
  <2> QED
      BY <2>1, <2>2
<1>6. FrontierInv'
    BY <1>1, <1>2, <1>5 DEF FrontierInv
<1> QED
    BY <1>1, <1>4, <1>6, RowsSame DEF EnvelopeInv

-----------------------------------------------------------------------------
(* Reconciliation. *)

\* The envelope that is visited is on the list.
LEMMA VisitedIsListed ==
    ASSUME EnvelopeInv, NEW i \in DOMAIN env, Visiting(i)
    PROVE  i \in 1..Len(env) /\ i \in job.todo /\ job.pc = "reconcile"
<1>1. i \in 1..Len(env) /\ job.todo \subseteq Nat /\ job.todo # {} /\ i = Min(job.todo) /\ job.pc = "reconcile"
    BY DEF EnvelopeInv, RowsInv, JobInv, Visiting
<1> QED
    BY <1>1, MinIsLeast

\* The watcher goes to p with envelope i and status s.
LEMMA GotoShape ==
    ASSUME JobInv, NEW p, NEW i, NEW s, Goto(p, i, s)
    PROVE  /\ job' = [pc |-> job'.pc, todo |-> job'.todo, idx |-> job'.idx, k |-> job'.k,
                      safe |-> job'.safe, status |-> job'.status]
           /\ job'.pc = p /\ job'.todo = job.todo /\ job'.idx = i /\ job'.k = 1 /\ job'.status = s
BY ZenonT(60) DEF JobInv, Goto

\* An unsigned envelope holds the frontier.
LEMMA VisitRestingStep ==
    ASSUME EnvelopeInv, NEW i \in DOMAIN env, VisitResting(i)
    PROVE  EnvelopeInv'
<1>1. i \in 1..Len(env) /\ i \in Nat /\ job.pc = "reconcile"
    BY VisitedIsListed DEF VisitResting, EnvelopeInv, RowsInv
<1>2. UNCHANGED <<env, bdb, nextDb>> /\ active' \subseteq active /\ job' = [job EXCEPT !.todo = @ \ {i}]
    BY DEF VisitResting
<1>3. JobInv'
    BY <1>1, <1>2, ZenonT(60) DEF EnvelopeInv, JobInv, Busy
<1>4. frontier \in Nat
    BY DEF EnvelopeInv, FrontierInv, RowsInv
<1>5. frontier' \in 1..nextDb + 1 /\ frontier' <= frontier
  <2>1. frontier' = frontier \/ frontier' = Min({frontier, i})
      BY DEF VisitResting
  <2>2. frontier' \in {frontier, i} /\ frontier' <= frontier
      BY <1>1, <1>4, <2>1, MinOfTwo
  <2> QED
      BY <1>1, <2>2 DEF EnvelopeInv, FrontierInv, RowsInv
<1>6. FrontierInv'
    BY <1>2, <1>4, <1>5 DEF EnvelopeInv, FrontierInv
<1> QED
    BY <1>2, <1>3, <1>6, RowsSame DEF EnvelopeInv

\* The status of a row that was handed to the broadcaster and not refused.
LEMMA SentStatus == \A s \in TxStatuses : s \notin {"None", "InvalidInputs"} => s \in Sent
    BY DEF TxStatuses, Sent

LEMMA VisitUnpublishedStep ==
    ASSUME EnvelopeInv, NEW i \in DOMAIN env, VisitUnpublished(i)
    PROVE  EnvelopeInv'
<1>1. i \in 1..Len(env) /\ i \in job.todo /\ job.pc = "reconcile" /\ env[i].status = "Unpublished"
    BY VisitedIsListed DEF VisitUnpublished
<1>2. env[i].att # 0 /\ ~Unsigned(env[i].status)
    BY <1>1 DEF EnvelopeInv, RowsInv, Unsigned
<1>3. Reveals[i] \in Nat \ {0}
    BY <1>1, <1>2, SignedRow DEF EnvelopeInv
<1>4. UNCHANGED <<env, bdb, nextDb, frontier, active>>
    BY DEF VisitUnpublished
<1>5. PICK p, s : Goto(p, i, s) /\ (\/ p = "write" /\ s \in {"Unsigned", "NeedsResign", "Unpublished", "CommitPublished"}
                                    \/ p = "enqueue" /\ s = "CommitPublished")
    BY DEF VisitUnpublished
<1>6. /\ job' = [pc |-> job'.pc, todo |-> job'.todo, idx |-> job'.idx, k |-> job'.k,
                 safe |-> job'.safe, status |-> job'.status]
      /\ job'.pc = p /\ job'.todo = job.todo /\ job'.idx = i /\ job'.k = 1 /\ job'.status = s
    BY <1>5, GotoShape DEF EnvelopeInv
<1>7. JobInv'
    BY <1>1, <1>2, <1>3, <1>4, <1>5, <1>6 DEF EnvelopeInv, JobInv, Busy, Unlocks, Statuses
<1> QED
    BY <1>4, <1>7, RowsSame, JobStep

LEMMA VisitPublishedStep ==
    ASSUME EnvelopeInv, NEW i \in DOMAIN env, VisitPublished(i)
    PROVE  EnvelopeInv'
<1> DEFINE commit == bdb[Attempt(i)][0]
<1>1. /\ i \in 1..Len(env) /\ i \in job.todo /\ job.pc = "reconcile"
      /\ env[i].status \in {"CommitPublished", "Published", "Confirmed"}
    BY VisitedIsListed DEF VisitPublished
<1>2. env[i].att # 0 /\ Unlocks(env[i].status) /\ ~Unsigned(env[i].status)
    BY <1>1 DEF EnvelopeInv, RowsInv, Unlocks, Unsigned
<1>3. Reveals[i] \in Nat \ {0} /\ commit \in TxStatuses
  <2>1. Reveals[i] \in Nat \ {0} /\ \A k \in 0..Reveals[i] : bdb[Attempt(i)][k] \in TxStatuses
      BY <1>1, <1>2, SignedRow DEF EnvelopeInv
  <2>2. 0 \in 0..Reveals[i]
      BY <2>1
  <2> QED
      BY <2>1, <2>2
<1>4. UNCHANGED <<env, bdb, nextDb, frontier, active>>
    BY DEF VisitPublished
<1>5. CASE Goto("write", i, "NeedsResign")
  <2>1. /\ job' = [pc |-> job'.pc, todo |-> job'.todo, idx |-> job'.idx, k |-> job'.k,
                   safe |-> job'.safe, status |-> job'.status]
        /\ job'.pc = "write" /\ job'.todo = job.todo /\ job'.idx = i /\ job'.status = "NeedsResign"
      BY <1>5, GotoShape DEF EnvelopeInv
  <2>2. Unsigned(job'.status) /\ job'.status \in Statuses
      BY <2>1 DEF Unsigned, Statuses
  <2>3. JobInv'
      BY <1>1, <1>2, <1>4, <2>1, <2>2 DEF EnvelopeInv, JobInv, Busy
  <2> QED
      BY <1>4, <2>3, RowsSame, JobStep
<1>6. CASE commit \notin {"None", "InvalidInputs"}
           /\ job' = [job EXCEPT !.pc = "full", !.idx = i, !.k = 1, !.status = commit,
                                 !.safe = PolicySafe(i, commit)]
  <2>1. commit \in Sent
      BY <1>3, <1>6, SentStatus
  <2> HIDE DEF commit
  <2>2. /\ job' = [pc |-> job'.pc, todo |-> job'.todo, idx |-> job'.idx, k |-> job'.k,
                   safe |-> job'.safe, status |-> job'.status]
        /\ job'.pc = "full" /\ job'.todo = job.todo /\ job'.idx = i /\ job'.k = 1 /\ job'.status = commit
      BY <1>6, ZenonT(60) DEF EnvelopeInv, JobInv
  <2>3. JobInv'
      BY <1>1, <1>2, <1>3, <1>4, <2>1, <2>2 DEF EnvelopeInv, JobInv, Busy
  <2> QED
      BY <1>4, <2>3, RowsSame, JobStep
<1> QED
    BY <1>5, <1>6 DEF VisitPublished

\* A reveal is entered in the broadcaster's table.
LEMMA EnsureRows ==
    ASSUME EnvelopeInv, job.pc \in {"enqueue", "full"}, Ensure(Attempt(job.idx), job.k), UNCHANGED env
    PROVE  RowsInv'
<1>1. job.idx \in 1..Len(env) /\ env[job.idx].att # 0 /\ job.k \in 1..Reveals[job.idx]
    BY DEF EnvelopeInv, JobInv, Busy
<1>2. Attempt(job.idx) \in Attempts /\ job.k \in Txs(Attempt(job.idx)) /\ bdb[Attempt(job.idx)][job.k] \in TxStatuses
  <2>1. /\ Attempt(job.idx) \in Attempts /\ Reveals[job.idx] \in Nat
        /\ \A k \in 0..Reveals[job.idx] : k \in Txs(Attempt(job.idx)) /\ bdb[Attempt(job.idx)][k] \in TxStatuses
      BY <1>1, SignedRow DEF EnvelopeInv
  <2>2. job.k \in 0..Reveals[job.idx]
      BY <1>1, <2>1
  <2> QED
      BY <2>1, <2>2
<1>3. PICK a, k : a = Attempt(job.idx) /\ k = job.k
    OBVIOUS
<1>4. PICK s \in TxStatuses : bdb' = [bdb EXCEPT ![a][k] = s]
  <2>1. bdb' = [bdb EXCEPT ![a][k] = IF bdb[a][k] = "None" THEN "Unpublished" ELSE bdb[a][k]]
      BY <1>3 DEF Ensure
  <2>2. (IF bdb[a][k] = "None" THEN "Unpublished" ELSE bdb[a][k]) \in TxStatuses
      BY <1>2, <1>3 DEF TxStatuses
  <2> QED
      BY <2>1, <2>2, ZenonT(60)
<1> QED
    BY <1>2, <1>3, <1>4, SetTx, ZenonT(60) DEF EnvelopeInv

LEMMA EnqueueRevealStep ==
    ASSUME EnvelopeInv, EnqueueReveal
    PROVE  EnvelopeInv'
<1>1. RowsInv'
    BY EnsureRows DEF EnqueueReveal
<1>2. /\ job.idx \in 1..Len(env) /\ env[job.idx].att # 0 /\ job.k \in 1..Reveals[job.idx]
      /\ job.pc = "enqueue" /\ job.status = "CommitPublished" /\ Reveals[job.idx] \in Nat
    BY EnvelopeAssumption, SignedRow DEF EnvelopeInv, JobInv, Busy, EnqueueReveal
<1>3. UNCHANGED <<env, nextDb, frontier, active>>
    BY DEF EnqueueReveal
<1>4. /\ job' = [pc |-> job'.pc, todo |-> job'.todo, idx |-> job'.idx, k |-> job'.k,
                 safe |-> job'.safe, status |-> job'.status]
      /\ job'.pc = (IF job.k = Reveals[job.idx] THEN "write" ELSE "enqueue")
      /\ job'.todo = job.todo /\ job'.idx = job.idx /\ job'.k = job.k + 1 /\ job'.status = job.status
    BY <1>2, ZenonT(60) DEF EnqueueReveal, EnvelopeInv, JobInv
<1>5. JobInv'
    BY <1>2, <1>3, <1>4 DEF EnvelopeInv, JobInv, Busy, Unlocks, Statuses
<1> QED
    BY <1>1, <1>3, <1>5, JobStep

\* The aggregate of accepted or unpublished statuses is one of them, and so is
\* what is written an accepted status.
LEMMA FoldShape ==
    ASSUME EnvelopeInv, job.pc = "full", NEW s \in Sent, Fold(s), UNCHANGED <<env, nextDb, frontier, active>>
    PROVE  JobInv'
<1>1. /\ job.idx \in 1..Len(env) /\ env[job.idx].att # 0 /\ job.k \in 1..Reveals[job.idx]
      /\ job.idx \in job.todo /\ Unlocks(env[job.idx].status) /\ Reveals[job.idx] \in Nat
    BY EnvelopeAssumption, SignedRow DEF EnvelopeInv, JobInv, Busy
<1>2. CASE job.k = Reveals[job.idx]
  <2>1. PICK t : t = EnvelopeStatus(s)
      OBVIOUS
  <2>2. t \in Statuses /\ Unlocks(t)
      BY <2>1 DEF EnvelopeStatus, Sent, Statuses, Unlocks
  <2>3. job' = [job EXCEPT !.pc = "write", !.status = t]
      BY <1>2, <2>1 DEF Fold
  <2>4. /\ job' = [pc |-> job'.pc, todo |-> job'.todo, idx |-> job'.idx, k |-> job'.k,
                   safe |-> job'.safe, status |-> job'.status]
        /\ job'.pc = "write" /\ job'.todo = job.todo /\ job'.idx = job.idx /\ job'.status = t
      BY <2>3, ZenonT(60) DEF EnvelopeInv, JobInv
  <2> QED
      BY <1>1, <2>2, <2>4 DEF EnvelopeInv, JobInv, Busy
<1>3. CASE job.k # Reveals[job.idx]
  <2>1. job' = [job EXCEPT !.k = @ + 1, !.status = s]
      BY <1>3 DEF Fold
  <2>2. /\ job' = [pc |-> job'.pc, todo |-> job'.todo, idx |-> job'.idx, k |-> job'.k,
                   safe |-> job'.safe, status |-> job'.status]
        /\ job'.pc = "full" /\ job'.todo = job.todo /\ job'.idx = job.idx /\ job'.k = job.k + 1 /\ job'.status = s
      BY <2>1, ZenonT(60) DEF EnvelopeInv, JobInv
  <2> QED
      BY <1>1, <1>3, <2>2 DEF EnvelopeInv, JobInv, Busy
<1> QED
    BY <1>2, <1>3

LEMMA CheckRevealStep ==
    ASSUME EnvelopeInv, CheckReveal
    PROVE  EnvelopeInv'
<1> DEFINE reveal == bdb[Attempt(job.idx)][job.k]
<1>1. /\ job.pc = "full" /\ job.idx \in 1..Len(env) /\ env[job.idx].att # 0
      /\ job.k \in 1..Reveals[job.idx] /\ job.idx \in job.todo /\ job.status \in Sent
      /\ Unlocks(env[job.idx].status)
    BY DEF CheckReveal, EnvelopeInv, JobInv, Busy
<1>2. reveal \in TxStatuses
  <2>1. /\ Reveals[job.idx] \in Nat
        /\ \A k \in 0..Reveals[job.idx] : bdb[Attempt(job.idx)][k] \in TxStatuses
      BY <1>1, SignedRow DEF EnvelopeInv
  <2>2. job.k \in 0..Reveals[job.idx]
      BY <1>1, <2>1
  <2> QED
      BY <2>1, <2>2
<1>3. UNCHANGED <<env, nextDb, frontier, active>>
    BY DEF CheckReveal
<1>4. CASE \E s \in {"CommitPublished", "NeedsResign"} : Goto("write", job.idx, s) /\ UNCHANGED bdb
  <2>1. PICK s \in {"CommitPublished", "NeedsResign"} : Goto("write", job.idx, s) /\ UNCHANGED bdb
      BY <1>4
  <2>2. /\ job' = [pc |-> job'.pc, todo |-> job'.todo, idx |-> job'.idx, k |-> job'.k,
                   safe |-> job'.safe, status |-> job'.status]
        /\ job'.pc = "write" /\ job'.todo = job.todo /\ job'.idx = job.idx /\ job'.status = s
      BY <2>1, GotoShape DEF EnvelopeInv
  <2>3. JobInv'
      BY <1>1, <1>3, <2>2 DEF EnvelopeInv, JobInv, Busy, Unlocks, Unsigned, Statuses
  <2> QED
      BY <1>3, <2>1, <2>3, RowsSame, JobStep
<1>5. CASE Ensure(Attempt(job.idx), job.k) /\ Fold("Unpublished")
  <2>1. "Unpublished" \in Sent
      BY DEF Sent
  <2> QED
      BY <1>1, <1>3, <1>5, <2>1, FoldShape, EnsureRows, JobStep
<1>6. CASE reveal \notin {"None", "InvalidInputs"} /\ Fold(Least(reveal, job.status)) /\ UNCHANGED bdb
  <2>1. Least(reveal, job.status) \in Sent
      BY <1>1, <1>2, <1>6, SentStatus DEF Least
  <2> QED
      BY <1>1, <1>3, <1>6, <2>1, FoldShape, RowsSame, JobStep
<1> QED
    BY <1>4, <1>5, <1>6 DEF CheckReveal

-----------------------------------------------------------------------------
(* The frontier. *)

\* A status is written.  An accepted envelope that must be signed again pulls
\* the frontier back; a signing that ends here is at the frontier.
LEMMA WriteStatusStep ==
    ASSUME EnvelopeInv, WriteStatus
    PROVE  EnvelopeInv'
<1>1. PICK i, s : i = job.idx /\ s = job.status
    OBVIOUS
<1>2. /\ i \in 1..Len(env) /\ i \in Nat /\ env[i].att # 0 /\ s \in Statuses /\ Len(env) \in Nat
      /\ i \notin job.todo => i = frontier /\ frontier <= nextDb
      /\ Unlocks(env[i].status) => Unlocks(s) \/ Unsigned(s)
    BY <1>1 DEF WriteStatus, EnvelopeInv, JobInv, Busy, RowsInv
<1>3. env' = [env EXCEPT ![i].status = s] /\ UNCHANGED <<bdb, nextDb>>
    BY <1>1 DEF WriteStatus
<1>4. /\ env' \in Seq(RowType) /\ Len(env') = Len(env) /\ env'[i].status = s
      /\ \A j \in 1..Len(env) \ {i} : env'[j] = env[j]
      /\ \A j \in 1..Len(env) : env'[j].att = 0 => env'[j].status = "Unsigned"
    BY <1>2, <1>3, SetStatus, ZenonT(60) DEF EnvelopeInv
<1>5. RowsInv'
    BY <1>3, <1>4 DEF EnvelopeInv, RowsInv
<1>6. active' \subseteq Nat
    BY <1>1, <1>2 DEF WriteStatus, EnvelopeInv, JobInv
<1>7. frontier \in Nat /\ frontier >= 1 /\ frontier <= nextDb + 1 /\ nextDb \in Nat /\ nextDb <= Len(env)
    BY <1>2 DEF EnvelopeInv, FrontierInv
<1>8. \A j \in 1..frontier - 1 : j # i => Unlocks(env'[j].status)
    BY <1>2, <1>4, <1>7 DEF EnvelopeInv, FrontierInv
<1>9. i < frontier => Unlocks(env[i].status)
    BY <1>2, <1>7 DEF EnvelopeInv, FrontierInv
<1>10. CASE i \in job.todo
  <2>1. job' = [job EXCEPT !.pc = "reconcile", !.todo = @ \ {i}]
        /\ frontier' = IF Unsigned(s) /\ env[i].status # s THEN Min({frontier, i}) ELSE frontier
      BY <1>1, <1>10 DEF WriteStatus
  <2>2. JobInv'
      BY <1>6, <2>1, ZenonT(60) DEF EnvelopeInv, JobInv, Busy
  <2>3. CASE Unsigned(s) /\ env[i].status # s
    <3>1. frontier' \in {frontier, i} /\ frontier' <= frontier /\ frontier' <= i
        BY <1>2, <1>7, <2>1, <2>3, MinOfTwo, ZenonT(60)
    <3>2. frontier' \in 1..nextDb + 1
        BY <1>2, <1>7, <3>1
    <3>3. ASSUME NEW j \in 1..frontier' - 1 PROVE Unlocks(env'[j].status)
      <4>1. j \in 1..frontier - 1 /\ j # i
        <5>1. frontier' \in Nat /\ frontier \in Nat /\ i \in Nat /\ frontier' <= frontier /\ frontier' <= i
            BY <1>2, <1>7, <3>1
        <5> QED
            BY <5>1, Under, ZenonT(60)
      <4> QED
          BY <1>8, <4>1
    <3> QED
        BY <1>2, <1>3, <1>4, <1>5, <1>7, <2>2, <3>2, <3>3 DEF EnvelopeInv, FrontierInv
  <2>4. CASE ~(Unsigned(s) /\ env[i].status # s)
    <3>1. frontier' = frontier
        BY <2>1, <2>4
    <3>2. i < frontier => Unlocks(s)
        BY <1>2, <1>9, <2>4 DEF Unlocks, Unsigned
    <3>3. \A j \in 1..frontier - 1 : Unlocks(env'[j].status)
        BY <1>2, <1>4, <1>7, <1>8, <3>2
    <3> QED
        BY <1>3, <1>4, <1>5, <2>2, <3>1, <3>3 DEF EnvelopeInv, FrontierInv
  <2> QED
      BY <2>3, <2>4
<1>11. CASE i \notin job.todo
  <2>1. /\ frontier' = IF Unlocks(s) THEN frontier + 1 ELSE frontier
        /\ job' = IF Unlocks(s) THEN [Waiting EXCEPT !.pc = "advance"] ELSE Waiting
      BY <1>1, <1>11 DEF WriteStatus
  <2>2. JobInv'
      BY <1>6, <2>1, RestJob, WaitingJob
  <2>3. frontier' \in 1..nextDb + 1
      BY <1>2, <1>7, <1>11, <2>1
  <2>4. \A j \in 1..frontier' - 1 : Unlocks(env'[j].status)
    <3>1. CASE Unlocks(s)
      <4> SUFFICES ASSUME NEW j \in 1..frontier' - 1 PROVE Unlocks(env'[j].status)
          OBVIOUS
      <4>1. j \in 1..frontier
          BY <1>7, <2>1, <3>1
      <4>2. CASE j = i
          BY <1>4, <3>1, <4>2
      <4>3. CASE j # i
        <5>1. j \in 1..frontier - 1
            BY <1>2, <1>7, <1>11, <4>1, <4>3
        <5> QED
            BY <1>8, <4>3, <5>1
      <4> QED
          BY <4>2, <4>3
    <3>2. CASE ~Unlocks(s)
        BY <1>2, <1>7, <1>8, <1>11, <2>1, <3>2
    <3> QED
        BY <3>1, <3>2
  <2> QED
      BY <1>3, <1>4, <1>5, <1>7, <2>2, <2>3, <2>4 DEF EnvelopeInv, FrontierInv
<1> QED
    BY <1>10, <1>11

LEMMA SkipUnlockedStep ==
    ASSUME EnvelopeInv, SkipUnlocked
    PROVE  EnvelopeInv'
<1>1. /\ frontier' = frontier + 1 /\ frontier <= nextDb /\ Unlocks(env[frontier].status) /\ job.pc = "advance"
      /\ UNCHANGED <<env, bdb, nextDb, active, job>>
    BY DEF SkipUnlocked, NextUnlocks, AtFrontier
<1>2. JobInv'
    BY <1>1 DEF EnvelopeInv, JobInv, Busy
<1>3. frontier \in Nat /\ nextDb \in Nat /\ frontier >= 1 /\ frontier' \in 1..nextDb + 1
    BY <1>1 DEF EnvelopeInv, FrontierInv, RowsInv
<1>4. ASSUME NEW j \in 1..frontier' - 1 PROVE Unlocks(env[j].status)
  <2>1. j \in 1..frontier - 1 \/ j = frontier
      BY <1>1, <1>3
  <2> QED
      BY <1>1, <2>1 DEF EnvelopeInv, FrontierInv
<1>5. FrontierInv'
    BY <1>1, <1>3, <1>4 DEF EnvelopeInv, FrontierInv
<1> QED
    BY <1>1, <1>2, <1>5, RowsSame DEF EnvelopeInv

\* The envelope at the frontier is signed.
LEMMA SignStep ==
    ASSUME EnvelopeInv, Sign
    PROVE  EnvelopeInv'
<1>1. PICK a \in 1..MaxAttempts : env' = [env EXCEPT ![frontier] = [status |-> "Unpublished", att |-> a]]
    BY ZenonT(60) DEF Sign
<1>2. /\ frontier \in 1..Len(env) /\ frontier <= nextDb /\ job.pc = "advance" /\ job.todo = {}
      /\ Len(env) \in Nat
    BY DEF Sign, NextUnsigned, AtFrontier, EnvelopeInv, FrontierInv, JobInv, RowsInv
<1>3. UNCHANGED <<bdb, nextDb, frontier, active>>
    BY DEF Sign
<1>4. PICK q : q = [status |-> "Unpublished", att |-> a]
    BY ZenonT(60)
<1>5. /\ q \in RowType /\ q.att # 0 /\ q.att = a
      /\ q.status = "Unpublished" /\ ~Unsigned(q.status)
    BY <1>1, <1>4, EnvelopeAssumption DEF RowType, Statuses, MaxAttempts, Unsigned
<1>6. /\ env' \in Seq(RowType) /\ Len(env') = Len(env) /\ env'[frontier] = q
      /\ \A j \in 1..Len(env) \ {frontier} : env'[j] = env[j]
  <2>1. \A e \in Seq(RowType) : \A n \in 1..Len(e) :
           LET f == [e EXCEPT ![n] = q]
           IN  f \in Seq(RowType) /\ Len(f) = Len(e) /\ f[n] = q /\ \A j \in 1..Len(e) \ {n} : f[j] = e[j]
      BY <1>5
  <2> QED
      BY <1>1, <1>2, <1>4, <2>1 DEF EnvelopeInv, RowsInv
<1>7. RowsInv'
    BY <1>3, <1>5, <1>6 DEF EnvelopeInv, RowsInv
<1>8. /\ job' = [pc |-> job'.pc, todo |-> job'.todo, idx |-> job'.idx, k |-> job'.k,
                 safe |-> job'.safe, status |-> job'.status]
      /\ job'.pc = "put" /\ job'.todo = job.todo /\ job'.idx = frontier
    BY GotoShape DEF EnvelopeInv, Sign
<1>9. JobInv'
    BY <1>2, <1>3, <1>5, <1>6, <1>8 DEF EnvelopeInv, JobInv, Busy
<1>10. FrontierInv'
  <2>1. \A j \in 1..frontier - 1 : env'[j] = env[j]
      BY <1>2, <1>6, Below
  <2> QED
      BY <1>3, <1>6, <2>1 DEF EnvelopeInv, FrontierInv
<1> QED
    BY <1>7, <1>9, <1>10 DEF EnvelopeInv

\* What the watcher holds while it hands a commit to the broadcaster.
LEMMA CommitJob ==
    ASSUME EnvelopeInv, job.pc \in {"put", "send", "record", "readback"}
    PROVE  /\ job.idx \in 1..Len(env) /\ env[job.idx].att # 0 /\ job.todo = {}
           /\ job.idx = frontier /\ frontier <= nextDb /\ Reveals[job.idx] \in Nat \ {0}
           /\ Attempt(job.idx) \in Attempts /\ 0 \in Txs(Attempt(job.idx))
<1>1. /\ job.idx \in 1..Len(env) /\ env[job.idx].att # 0 /\ job.todo = {}
      /\ job.idx = frontier /\ frontier <= nextDb
    BY DEF EnvelopeInv, JobInv, Busy
<1>2. /\ Attempt(job.idx) \in Attempts /\ Reveals[job.idx] \in Nat \ {0}
      /\ \A k \in 0..Reveals[job.idx] : k \in Txs(Attempt(job.idx))
    BY <1>1, SignedRow DEF EnvelopeInv
<1>3. 0 \in 0..Reveals[job.idx]
    BY <1>2
<1> QED
    BY <1>1, <1>2, <1>3

LEMMA PutCommitStep ==
    ASSUME EnvelopeInv, PutCommit
    PROVE  EnvelopeInv'
<1>1. PICK a : a = Attempt(job.idx)
    OBVIOUS
<1>2. a \in Attempts /\ 0 \in Txs(a) /\ "Unpublished" \in TxStatuses
    BY <1>1, CommitJob DEF PutCommit, TxStatuses
<1>3. RowsInv'
    BY <1>1, <1>2, SetTx, ZenonT(60) DEF PutCommit, EnvelopeInv
<1>4. UNCHANGED <<env, nextDb, frontier, active>>
    BY DEF PutCommit
<1>5. PICK p \in {"send", "ended"} : job' = [job EXCEPT !.pc = p]
    BY DEF PutCommit
<1>6. JobInv'
    BY <1>4, <1>5, CommitJob DEF PutCommit, EnvelopeInv, JobInv, Busy
<1> QED
    BY <1>3, <1>4, <1>6, JobStep

LEMMA SendCommitStep ==
    ASSUME EnvelopeInv, SendCommit
    PROVE  EnvelopeInv'
<1>1. UNCHANGED <<env, bdb, nextDb, frontier>>
    BY DEF SendCommit
<1>2. active' \subseteq Nat
  <2>1. job.idx \in Nat
      BY CommitJob DEF SendCommit, EnvelopeInv, RowsInv
  <2> QED
      BY <2>1 DEF SendCommit, EnvelopeInv, JobInv
<1>3. CASE \E s \in {"Published", "InvalidInputs"} : Goto("record", job.idx, s)
  <2>1. PICK s \in {"Published", "InvalidInputs"} : Goto("record", job.idx, s)
      BY <1>3
  <2>2. /\ job' = [pc |-> job'.pc, todo |-> job'.todo, idx |-> job'.idx, k |-> job'.k,
                   safe |-> job'.safe, status |-> job'.status]
        /\ job'.pc = "record" /\ job'.todo = job.todo /\ job'.idx = job.idx /\ job'.status = s
      BY <2>1, GotoShape DEF EnvelopeInv
  <2>3. JobInv'
      BY <1>1, <1>2, <2>2, CommitJob DEF SendCommit, EnvelopeInv, JobInv, Busy
  <2> QED
      BY <1>1, <2>3, RowsSame, JobStep
<1>4. CASE job' = Waiting
    BY <1>1, <1>2, <1>4, RestJob, WaitingJob, RowsSame, JobStep
<1> QED
    BY <1>3, <1>4 DEF SendCommit

LEMMA RecordCommitStep ==
    ASSUME EnvelopeInv, RecordCommit
    PROVE  EnvelopeInv'
<1>1. PICK a, t : a = Attempt(job.idx) /\ t = job.status
    OBVIOUS
<1>2. a \in Attempts /\ 0 \in Txs(a) /\ t \in TxStatuses
    BY <1>1, CommitJob DEF RecordCommit, EnvelopeInv, JobInv, TxStatuses
<1>3. RowsInv'
    BY <1>1, <1>2, SetTx, ZenonT(60) DEF RecordCommit, EnvelopeInv
<1>4. UNCHANGED <<env, nextDb, frontier, active>>
    BY DEF RecordCommit
<1>5. PICK p, s : Goto(p, job.idx, s) /\ (\/ p = "readback" /\ s = "CommitPublished"
                                          \/ p = "write" /\ s = "NeedsResign")
    BY DEF RecordCommit
<1>6. /\ job' = [pc |-> job'.pc, todo |-> job'.todo, idx |-> job'.idx, k |-> job'.k,
                 safe |-> job'.safe, status |-> job'.status]
      /\ job'.pc = p /\ job'.todo = job.todo /\ job'.idx = job.idx /\ job'.k = 1 /\ job'.status = s
    BY <1>5, GotoShape DEF EnvelopeInv
<1>7. JobInv'
    BY <1>4, <1>5, <1>6, CommitJob DEF RecordCommit, EnvelopeInv, JobInv, Busy, Unsigned, Statuses
<1> QED
    BY <1>3, <1>4, <1>7, JobStep

LEMMA ReadBackStep ==
    ASSUME EnvelopeInv, ReadBack
    PROVE  EnvelopeInv'
<1>1. UNCHANGED <<env, bdb, nextDb, frontier, active>>
    BY DEF ReadBack
<1>2. PICK p \in {"enqueue", "write"} : job' = [job EXCEPT !.pc = p]
    BY DEF ReadBack
<1>3. /\ job' = [pc |-> job'.pc, todo |-> job'.todo, idx |-> job'.idx, k |-> job'.k,
                 safe |-> job'.safe, status |-> job'.status]
      /\ job'.pc = p /\ job'.todo = job.todo /\ job'.idx = job.idx /\ job'.k = job.k
      /\ job'.status = job.status
    BY <1>2 DEF EnvelopeInv, JobInv
<1>4. job.k = 1 /\ job.status = "CommitPublished"
    BY DEF ReadBack, EnvelopeInv, JobInv
<1>5. JobInv'
    BY <1>1, <1>2, <1>3, <1>4, CommitJob DEF ReadBack, EnvelopeInv, JobInv, Busy, Unlocks, Statuses
<1> QED
    BY <1>1, <1>5, RowsSame, JobStep

LEMMA NextEnvelopeInv == EnvelopeInv /\ [Next]_vars => EnvelopeInv'
<1> SUFFICES ASSUME EnvelopeInv, [Next]_vars PROVE EnvelopeInv'
    OBVIOUS
<1>1. CASE UNCHANGED vars
    BY <1>1 DEF vars, watcher, EnvelopeInv, RowsInv, JobInv, FrontierInv, Busy
<1>2. CASE Next
    BY <1>2, TableStep, SubmitStep, TickStep, EndStep, RecoverStep, VisitRestingStep, VisitUnpublishedStep,
       VisitPublishedStep, EnqueueRevealStep, CheckRevealStep, WriteStatusStep, SkipUnlockedStep, SignStep,
       PutCommitStep, SendCommitStep, RecordCommitStep, ReadBackStep
       DEF Next, WatcherStep
<1> QED
    BY <1>1, <1>2

-----------------------------------------------------------------------------
(* Theorem *)

\* Only signing takes an envelope out of the unsigned ones.
LEMMA OnlySignSigns ==
    ASSUME EnvelopeInv, Next, ~Sign
    PROVE  \A i \in DOMAIN env : Unsigned(env[i].status) => Unsigned(env'[i].status)
<1>1. CASE UNCHANGED env
    BY <1>1
<1>2. CASE Submit
    BY <1>2 DEF Submit, EnvelopeInv, RowsInv
<1>3. CASE WriteStatus
  <2>1. PICK i, s : i = job.idx /\ s = job.status
      OBVIOUS
  <2>2. /\ i \in 1..Len(env) /\ env[i].att # 0 /\ ~Unsigned(env[i].status) /\ s \in Statuses
        /\ env' = [env EXCEPT ![i].status = s] /\ DOMAIN env = 1..Len(env)
      BY <1>3, <2>1 DEF WriteStatus, EnvelopeInv, JobInv, Busy, RowsInv
  <2> QED
      BY <2>2, SetStatus DEF EnvelopeInv
<1> QED
    BY <1>1, <1>2, <1>3, ZenonT(60) DEF Next, WatcherStep, Tick, EnqueueReveal, CheckReveal, EndReconcile, VisitResting,
       VisitUnpublished, VisitPublished, SkipUnlocked, EndAdvance, PutCommit, SendCommit, RecordCommit,
       ReadBack, EndWatcher, Crash, Recover, Broadcast, Refuse, Regress

(* Envelopes are signed in order: when one is signed, first or again, the
   commits of all envelopes before it are accepted, for any number of
   envelopes, of refusals and reorganisations, and of crashes. *)
THEOREM SigningIsOrdered == Spec => SignedInOrder
<1> DEFINE Ordered == \A i \in DOMAIN env : Unsigned(env[i].status) /\ ~Unsigned(env'[i].status) =>
                          \A j \in 1..i - 1 : Unlocks(env[j].status)
<1>1. EnvelopeInv /\ [Next]_vars => [Ordered]_vars
  <2> SUFFICES ASSUME EnvelopeInv, Next PROVE Ordered
      OBVIOUS
  <2>1. CASE Sign
    <3>1. \A i \in DOMAIN env : env'[i] # env[i] => i = frontier
        BY <2>1 DEF Sign, EnvelopeInv, RowsInv
    <3> QED
        BY <3>1 DEF EnvelopeInv, FrontierInv
  <2>2. CASE ~Sign
      BY <2>2, OnlySignSigns
  <2> QED
      BY <2>1, <2>2
<1> QED
    BY <1>1, InitEnvelopeInv, NextEnvelopeInv, PTL DEF Spec, SignedInOrder

-----------------------------------------------------------------------------
(* What the watcher knows of the transactions.  A row of the broadcaster never
   disappears and a final one stays, except the row of a commit that is put
   again, which happens only to an envelope that is being signed. *)

Ready(a) == a \in IF Reveals[a[1]] = 1 /\ SmallPackage THEN seen.accepted ELSE seen.mined
At == Attempt(job.idx)

\* The node has accepted, and mined, what the table says, and the attempt of
\* every commit in the table has been written to its envelope.
SeenInv ==
    /\ \A a \in Attempts : bdb[a][0] # "None" => a[1] \in 1..Len(env) /\ env[a[1]].att >= a[2]
    /\ \A a \in Attempts : /\ Accepted(bdb[a][0]) => a \in seen.accepted
                           /\ bdb[a][0] \in {"Confirmed", "Finalized"} => a \in seen.mined
    /\ seen.accepted \subseteq Attempts

\* What holds at each stage of the work on an envelope.
StepInv ==
    /\ job.pc \in {"put", "send", "record", "readback"} => env[job.idx].status = "Unpublished"
    /\ job.pc \in {"send", "record", "readback", "enqueue", "full"} => bdb[At][0] # "None"
    /\ job.pc = "record" /\ job.status = "Published" => At \in seen.accepted
    /\ job.pc = "enqueue" \/ (job.pc = "full" /\ job.safe) => Ready(At)
    /\ job.pc = "full" /\ job.status = "Finalized" => \A k \in 0..job.k - 1 : bdb[At][k] = "Finalized"
    /\ job.pc = "write" /\ Unlocks(job.status) => bdb[At][0] # "None"
    /\ job.pc = "write" /\ job.status = "Finalized" =>
           \A k \in 0..Reveals[job.idx] : bdb[At][k] = "Finalized"

TrackInv == SeenInv /\ StepInv /\ RevealsWaitForCommit /\ AcceptedIsRecorded /\ FinalizedIsComplete

LEMMA AttemptOf ==
    ASSUME NEW a \in Attempts
    PROVE  /\ a[1] \in 1..MaxEnvelopes /\ a[2] \in 1..MaxAttempts /\ a = <<a[1], a[2]>>
           /\ Reveals[a[1]] \in Nat \ {0} /\ Txs(a) = 0..Reveals[a[1]] /\ 0 \in Txs(a)
BY EnvelopeAssumption DEF Attempts, Txs

\* One row of the broadcaster's table is written.
Wrote(a, k, s) == bdb' = [bdb EXCEPT ![a][k] = s]

LEMMA CellSet ==
    ASSUME RowsInv, NEW a \in Attempts, NEW k \in Txs(a), NEW s, Wrote(a, k, s)
    PROVE  /\ bdb'[a][k] = s
           /\ \A b \in Attempts : \A j \in Txs(b) : b # a \/ j # k => bdb'[b][j] = bdb[b][j]
<1>1. bdb' = [bdb EXCEPT ![a] = [bdb[a] EXCEPT ![k] = s]]
    BY DEF Wrote
<1>2. bdb[a] \in [Txs(a) -> TxStatuses] /\ DOMAIN bdb = Attempts
    BY DEF RowsInv
<1>3. bdb'[a] = [bdb[a] EXCEPT ![k] = s] /\ \A b \in Attempts \ {a} : bdb'[b] = bdb[b]
    BY <1>1, <1>2
<1> QED
    BY <1>2, <1>3, ZenonT(60)

\* The attempt the watcher works on.
LEMMA AtIsAttempt ==
    ASSUME RowsInv, JobInv, Busy
    PROVE  /\ At \in Attempts /\ At = <<job.idx, env[job.idx].att>> /\ At[1] = job.idx
           /\ At[2] = env[job.idx].att /\ job.idx \in 1..Len(env)
           /\ Txs(At) = 0..Reveals[job.idx] /\ Reveals[job.idx] \in Nat \ {0} /\ 0 \in Txs(At)
<1>1. job.idx \in 1..Len(env) /\ env[job.idx].att # 0
    BY DEF JobInv
<1>2. Attempt(job.idx) \in Attempts
    BY <1>1, SignedRow
<1> QED
    BY <1>1, <1>2, AttemptOf DEF At, Attempt

LEMMA InitTrackInv == Init => TrackInv
<1> SUFFICES ASSUME Init PROVE TrackInv
    OBVIOUS
<1>1. env = <<>> /\ seen.accepted = {} /\ seen.mined = {} /\ job.pc = "idle"
    BY DEF Init, Waiting
<1>2. \A a \in Attempts : \A k \in Txs(a) : bdb[a][k] = "None"
    BY DEF Init
<1>3. \A a \in Attempts : bdb[a][0] = "None"
    BY <1>2, AttemptOf
<1>4. SeenInv /\ StepInv
    BY <1>1, <1>3 DEF SeenInv, StepInv, Accepted
<1>5. RevealsWaitForCommit
    BY <1>2 DEF RevealsWaitForCommit
<1>6. AcceptedIsRecorded /\ FinalizedIsComplete
    BY <1>1 DEF AcceptedIsRecorded, FinalizedIsComplete
<1> QED
    BY <1>4, <1>5, <1>6 DEF TrackInv

\* Steps of the watcher that write nothing.
LEMMA NothingWritten ==
    ASSUME TrackInv, StepInv', UNCHANGED <<env, bdb, seen>>
    PROVE  TrackInv'
<1>1. SeenInv' /\ RevealsWaitForCommit'
    BY DEF TrackInv, SeenInv, RevealsWaitForCommit
<1>2. AcceptedIsRecorded' /\ FinalizedIsComplete'
    BY DEF TrackInv, AcceptedIsRecorded, FinalizedIsComplete, Attempt
<1> QED
    BY <1>1, <1>2 DEF TrackInv

LEMMA AtRest ==
    ASSUME job'.pc \in {"idle", "reconcile", "advance", "ended", "down", "put"},
           job'.pc = "put" => env'[job'.idx].status = "Unpublished"
    PROVE  StepInv'
BY DEF StepInv

\* The broadcaster moves only rows that exist and are not final.
LEMMA TableTrack ==
    ASSUME EnvelopeInv, TrackInv, NEW a \in Attempts, NEW k \in Txs(a),
           Broadcast(a, k) \/ Refuse(a, k) \/ Regress(a, k)
    PROVE  TrackInv'
<1>1. UNCHANGED <<env, job>>
    BY DEF Broadcast, Refuse, Regress, watcher
<1>2. PICK s \in TxStatuses \ {"None"} :
          /\ bdb' = [bdb EXCEPT ![a][k] = s] /\ bdb[a][k] \notin {"None", "Finalized"}
          /\ seen.accepted \subseteq seen'.accepted /\ seen.mined \subseteq seen'.mined
          /\ seen'.accepted \subseteq seen.accepted \cup {a}
          /\ (seen'.accepted # seen.accepted => k = 0)
          /\ (k = 0 /\ Accepted(s) => a \in seen'.accepted)
          /\ (k = 0 /\ s \in {"Confirmed", "Finalized"} => a \in seen'.mined \/ bdb[a][0] = "Confirmed")
  <2>1. CASE Broadcast(a, k)
    <3>1. PICK s \in Following(k = 0, bdb[a][0], bdb[a][k]) : bdb' = [bdb EXCEPT ![a][k] = s] /\ Seen(a, k, s)
        BY <2>1, ZenonT(60) DEF Broadcast
    <3>2. s \in TxStatuses \ {"None"} /\ bdb[a][k] \notin {"None", "Finalized"}
          /\ (k = 0 /\ s = "Finalized" => bdb[a][0] = "Confirmed")
        BY <3>1 DEF Following, TxStatuses
    <3>3. /\ seen.accepted \subseteq seen'.accepted /\ seen.mined \subseteq seen'.mined
          /\ seen'.accepted \subseteq seen.accepted \cup {a}
          /\ (seen'.accepted # seen.accepted => k = 0)
          /\ (k = 0 /\ Accepted(s) => a \in seen'.accepted)
          /\ (k = 0 /\ s = "Confirmed" => a \in seen'.mined)
        BY <3>1 DEF Seen
    <3> QED
        BY <3>1, <3>2, <3>3, ZenonT(60)
  <2>2. CASE Refuse(a, k) \/ Regress(a, k)
    <3>1. PICK s \in {"InvalidInputs", "Unpublished"} :
              bdb' = [bdb EXCEPT ![a][k] = s] /\ bdb[a][k] \in {"Unpublished", "Published", "Confirmed"}
        BY <2>2 DEF Refuse, Regress
    <3>2. UNCHANGED seen
        BY <2>2 DEF Refuse, Regress
    <3> QED
        BY <3>1, <3>2, ZenonT(60) DEF TxStatuses, Accepted
  <2> QED
      BY <2>1, <2>2
<1>3. /\ bdb'[a][k] = s
      /\ \A b \in Attempts : \A j \in Txs(b) : b # a \/ j # k => bdb'[b][j] = bdb[b][j]
  <2>1. Wrote(a, k, s)
      BY <1>2 DEF Wrote
  <2> QED
      BY <2>1, CellSet DEF EnvelopeInv
<1>4. \A b \in Attempts : \A j \in Txs(b) : /\ bdb'[b][j] # "None" <=> bdb[b][j] # "None"
                                            /\ bdb[b][j] = "Finalized" => bdb'[b][j] = "Finalized"
    BY <1>2, <1>3
<1>5. \A b \in Attempts : 0 \in Txs(b)
    BY AttemptOf
<1>6. \A b \in Attempts : b # a \/ k # 0 => bdb'[b][0] = bdb[b][0]
    BY <1>3, <1>5
<1>7. SeenInv'
  <2>1. \A b \in Attempts : bdb'[b][0] # "None" => b[1] \in 1..Len(env) /\ env[b[1]].att >= b[2]
      BY <1>4, <1>5 DEF TrackInv, SeenInv
  <2>2. ASSUME NEW b \in Attempts
        PROVE  /\ Accepted(bdb'[b][0]) => b \in seen'.accepted
               /\ bdb'[b][0] \in {"Confirmed", "Finalized"} => b \in seen'.mined
    <3>1. CASE b # a \/ k # 0
        BY <1>2, <1>6, <3>1 DEF TrackInv, SeenInv
    <3>2. CASE b = a /\ k = 0
        BY <1>2, <1>3, <3>2 DEF TrackInv, SeenInv
    <3> QED
        BY <3>1, <3>2
  <2> QED
      BY <1>1, <1>2, <2>1, <2>2 DEF TrackInv, SeenInv
<1>8. Ready(At) => Ready(At)'
    BY <1>1, <1>2 DEF Ready, At, Attempt
<1>9. StepInv'
  <2>1. CASE ~Busy
      BY <1>1, <2>1 DEF StepInv, Busy
  <2>2. CASE Busy
    <3>1. /\ At \in Attempts /\ 0 \in Txs(At) /\ Txs(At) = 0..Reveals[job.idx] /\ Reveals[job.idx] \in Nat
          /\ At' = At
        BY <1>1, <2>2, AtIsAttempt DEF EnvelopeInv, At, Attempt
    <3>2. bdb[At][0] # "None" => bdb'[At][0] # "None"
        BY <1>4, <3>1
    <3>3. \A j \in 0..Reveals[job.idx] : bdb[At][j] = "Finalized" => bdb'[At][j] = "Finalized"
        BY <1>4, <3>1
    <3>4. job.pc = "full" => \A j \in 0..job.k - 1 : j \in 0..Reveals[job.idx]
        BY <3>1 DEF EnvelopeInv, JobInv
    <3> QED
        BY <1>1, <1>2, <1>8, <3>1, <3>2, <3>3, <3>4 DEF TrackInv, StepInv
  <2> QED
      BY <2>1, <2>2
<1>10. RevealsWaitForCommit'
    BY <1>2, <1>4 DEF TrackInv, RevealsWaitForCommit
<1>11. AcceptedIsRecorded'
  <2>1. ASSUME NEW b \in seen'.accepted PROVE bdb'[b][0] # "None" /\ env[b[1]].att >= b[2]
    <3>1. CASE b \in seen.accepted
        BY <1>4, <1>5, <3>1 DEF TrackInv, AcceptedIsRecorded, SeenInv
    <3>2. CASE b \notin seen.accepted
      <4>1. b = a /\ k = 0
          BY <1>2, <2>1, <3>2
      <4> QED
          BY <1>2, <1>3, <4>1 DEF TrackInv, SeenInv
    <3> QED
        BY <3>1, <3>2
  <2>2. ASSUME NEW i \in DOMAIN env, env[i].status \in {"CommitPublished", "Published", "Confirmed"}
        PROVE  bdb'[Attempt(i)][0] # "None"
    <3>1. Attempt(i) \in Attempts
        BY <2>2, SignedRow DEF EnvelopeInv, RowsInv
    <3> QED
        BY <1>4, <1>5, <2>2, <3>1 DEF TrackInv, AcceptedIsRecorded
  <2> QED
      BY <1>1, <2>1, <2>2 DEF AcceptedIsRecorded, Attempt
<1>12. FinalizedIsComplete'
  <2>1. ASSUME NEW i \in DOMAIN env, env[i].status = "Finalized", NEW j \in Txs(Attempt(i))
        PROVE  bdb'[Attempt(i)][j] = "Finalized"
    <3>1. Attempt(i) \in Attempts
        BY <2>1, SignedRow DEF EnvelopeInv, RowsInv
    <3> QED
        BY <1>4, <2>1, <3>1 DEF TrackInv, FinalizedIsComplete
  <2> QED
      BY <1>1, <2>1 DEF FinalizedIsComplete, Attempt
<1> QED
    BY <1>7, <1>9, <1>10, <1>11, <1>12 DEF TrackInv

\* The policy lets a reveal in only when the node has its commit.
LEMMA PolicyReady ==
    ASSUME SeenInv, NEW a \in Attempts, PolicySafe(a[1], bdb[a][0])
    PROVE  Ready(a)
BY DEF PolicySafe, SeenInv, Ready, Accepted

LEMMA VisitTrack ==
    ASSUME EnvelopeInv, TrackInv, NEW i \in DOMAIN env,
           VisitResting(i) \/ VisitUnpublished(i) \/ VisitPublished(i)
    PROVE  TrackInv'
<1>1. UNCHANGED <<env, bdb, seen>> /\ job.pc = "reconcile"
    BY DEF VisitResting, VisitUnpublished, VisitPublished, Visiting
<1>2. CASE VisitResting(i)
  <2>1. job' = [job EXCEPT !.todo = @ \ {i}]
      BY <1>2 DEF VisitResting
  <2>2. job'.pc = "reconcile"
      BY <1>1, <2>1 DEF EnvelopeInv, JobInv
  <2> QED
      BY <1>1, <2>2, AtRest, NothingWritten
<1>3. ~VisitResting(i) => /\ i \in 1..Len(env) /\ Attempt(i) \in Attempts /\ Attempt(i)[1] = i
                          /\ env[i].status \in {"Unpublished", "CommitPublished", "Published", "Confirmed"}
  <2>1. SUFFICES ASSUME ~VisitResting(i)
                 PROVE  /\ i \in 1..Len(env) /\ Attempt(i) \in Attempts /\ Attempt(i)[1] = i
                        /\ env[i].status \in {"Unpublished", "CommitPublished", "Published", "Confirmed"}
      OBVIOUS
  <2>2. /\ i \in 1..Len(env) /\ env[i].status \in {"Unpublished", "CommitPublished", "Published", "Confirmed"}
      BY <2>1 DEF VisitUnpublished, VisitPublished, EnvelopeInv, RowsInv
  <2>3. env[i].att # 0
      BY <2>2 DEF EnvelopeInv, RowsInv
  <2> QED
      BY <2>2, <2>3, SignedRow DEF EnvelopeInv, Attempt
<1>4. CASE VisitUnpublished(i)
  <2>1. PICK commit : commit = bdb[Attempt(i)][0]
      OBVIOUS
  <2>2. PICK p, s : Goto(p, i, s) /\ (\/ p = "write" /\ s \in {"Unsigned", "NeedsResign", "Unpublished"}
                                      \/ p = "write" /\ s = "CommitPublished" /\ Accepted(commit)
                                      \/ /\ p = "enqueue" /\ s = "CommitPublished"
                                         /\ PolicySafe(i, commit) /\ Accepted(commit))
      BY <1>4, <2>1 DEF VisitUnpublished
  <2>3. job'.pc = p /\ job'.idx = i /\ job'.status = s
      BY <2>2, GotoShape DEF EnvelopeInv
  <2>4. At' = Attempt(i) /\ Ready(At)' = Ready(Attempt(i))
      BY <1>1, <2>3 DEF At, Attempt, Ready
  <2>5. ~VisitResting(i)
      BY <1>4 DEF VisitUnpublished, VisitResting, Unsigned
  <2>6. p = "enqueue" => Ready(Attempt(i))
      BY <1>3, <2>1, <2>2, <2>5, PolicyReady DEF TrackInv
  <2>7. Accepted(commit) => commit # "None"
      BY DEF Accepted
  <2>8. StepInv'
      BY <1>1, <2>1, <2>2, <2>3, <2>4, <2>6, <2>7 DEF StepInv, Unlocks
  <2> QED
      BY <1>1, <2>8, NothingWritten
<1>5. CASE VisitPublished(i)
  <2>1. PICK commit : commit = bdb[Attempt(i)][0]
      OBVIOUS
  <2>2. ~VisitResting(i)
      BY <1>5 DEF VisitPublished, VisitResting, Unsigned
  <2>3. CASE Goto("write", i, "NeedsResign")
    <3>1. job'.pc = "write" /\ job'.status = "NeedsResign"
        BY <2>3, GotoShape DEF EnvelopeInv
    <3>2. StepInv'
        BY <3>1 DEF StepInv, Unlocks
    <3> QED
        BY <1>1, <3>2, NothingWritten
  <2>4. CASE commit \notin {"None", "InvalidInputs"}
             /\ job' = [job EXCEPT !.pc = "full", !.idx = i, !.k = 1, !.status = commit,
                                   !.safe = PolicySafe(i, commit)]
    <3>1. /\ job'.pc = "full" /\ job'.idx = i /\ job'.k = 1 /\ job'.status = commit
          /\ job'.safe = PolicySafe(i, commit)
        BY <2>4, ZenonT(60) DEF EnvelopeInv, JobInv
    <3>2. At' = Attempt(i) /\ Ready(At)' = Ready(Attempt(i))
        BY <1>1, <3>1 DEF At, Attempt, Ready
    <3>3. job'.safe => Ready(Attempt(i))
        BY <1>3, <2>1, <2>2, <3>1, PolicyReady, ZenonT(60) DEF TrackInv
    <3>4. \A k \in 0..job'.k - 1 : k = 0
        BY <3>1
    <3>5. StepInv'
        BY <1>1, <2>1, <2>4, <3>1, <3>2, <3>3, <3>4 DEF StepInv
    <3> QED
        BY <1>1, <3>5, NothingWritten
  <2> QED
      BY <1>5, <2>1, <2>3, <2>4 DEF VisitPublished
<1> QED
    BY <1>2, <1>4, <1>5

\* A reveal that is entered has a commit that the node accepts.
LEMMA EnsureTrack ==
    ASSUME EnvelopeInv, TrackInv, job.pc \in {"enqueue", "full"}, Ready(At), Ensure(At, job.k), UNCHANGED <<env, seen>>
    PROVE  /\ SeenInv' /\ RevealsWaitForCommit' /\ AcceptedIsRecorded' /\ FinalizedIsComplete'
           /\ bdb'[At][0] = bdb[At][0]
<1>1. /\ At \in Attempts /\ Txs(At) = 0..Reveals[job.idx] /\ Reveals[job.idx] \in Nat /\ 0 \in Txs(At)
      /\ job.k \in 1..Reveals[job.idx]
    BY AtIsAttempt DEF EnvelopeInv, JobInv, Busy
<1>2. PICK a, k : a = At /\ k = job.k
    BY ZenonT(60)
<1>3. a \in Attempts /\ k \in Txs(a) /\ k # 0 /\ Ready(a)
    BY <1>1, <1>2
<1>4. PICK s : s = IF bdb[a][k] = "None" THEN "Unpublished" ELSE bdb[a][k]
    BY ZenonT(60)
<1>5. Wrote(a, k, s)
    BY <1>2, <1>4 DEF Ensure, Wrote
<1>6. /\ bdb'[a][k] = s
      /\ \A b \in Attempts : \A j \in Txs(b) : b # a \/ j # k => bdb'[b][j] = bdb[b][j]
    BY <1>3, <1>5, CellSet DEF EnvelopeInv
<1>7. \A b \in Attempts : bdb'[b][0] = bdb[b][0]
    BY <1>3, <1>6, AttemptOf
<1>8. \A b \in Attempts : \A j \in Txs(b) : bdb[b][j] = "Finalized" => bdb'[b][j] = "Finalized"
    BY <1>4, <1>6
<1>9. SeenInv'
    BY <1>7 DEF TrackInv, SeenInv
<1>10. RevealsWaitForCommit'
  <2>1. ASSUME NEW b \in Attempts, NEW j \in Txs(b) \ {0}, bdb'[b][j] # "None" PROVE Ready(b)
      BY <1>3, <1>6, <2>1 DEF TrackInv, RevealsWaitForCommit, Ready
  <2> QED
      BY <2>1 DEF RevealsWaitForCommit, Ready
<1>11. AcceptedIsRecorded'
  <2>1. \A b \in seen.accepted : bdb'[b][0] # "None" /\ env[b[1]].att >= b[2]
      BY <1>7 DEF TrackInv, AcceptedIsRecorded, SeenInv
  <2>2. ASSUME NEW i \in DOMAIN env, env[i].status \in {"CommitPublished", "Published", "Confirmed"}
        PROVE  bdb'[Attempt(i)][0] # "None"
    <3>1. Attempt(i) \in Attempts
        BY <2>2, SignedRow DEF EnvelopeInv, RowsInv
    <3> QED
        BY <1>7, <2>2, <3>1 DEF TrackInv, AcceptedIsRecorded
  <2> QED
      BY <2>1, <2>2 DEF AcceptedIsRecorded, Attempt
<1>12. FinalizedIsComplete'
  <2>1. ASSUME NEW i \in DOMAIN env, env[i].status = "Finalized", NEW j \in Txs(Attempt(i))
        PROVE  bdb'[Attempt(i)][j] = "Finalized"
    <3>1. Attempt(i) \in Attempts
        BY <2>1, SignedRow DEF EnvelopeInv, RowsInv
    <3> QED
        BY <1>8, <2>1, <3>1 DEF TrackInv, FinalizedIsComplete
  <2> QED
      BY <2>1 DEF FinalizedIsComplete, Attempt
<1> QED
    BY <1>2, <1>3, <1>7, <1>9, <1>10, <1>11, <1>12

LEMMA EnqueueTrack ==
    ASSUME EnvelopeInv, TrackInv, EnqueueReveal
    PROVE  TrackInv'
<1>1. /\ job.pc = "enqueue" /\ job.status = "CommitPublished" /\ Ready(At) /\ bdb[At][0] # "None"
      /\ Ensure(At, job.k) /\ UNCHANGED <<env, seen>>
    BY DEF EnqueueReveal, At, TrackInv, StepInv, EnvelopeInv, JobInv
<1>2. /\ SeenInv' /\ RevealsWaitForCommit' /\ AcceptedIsRecorded' /\ FinalizedIsComplete'
      /\ bdb'[At][0] # "None"
    BY <1>1, EnsureTrack
<1>3. /\ job'.pc \in {"write", "enqueue"} /\ job'.idx = job.idx /\ job'.status = job.status
  <2>1. /\ job'.pc = (IF job.k = Reveals[job.idx] THEN "write" ELSE "enqueue")
        /\ job'.idx = job.idx /\ job'.status = job.status
      BY <1>1, ZenonT(60) DEF EnqueueReveal, EnvelopeInv, JobInv
  <2> QED
      BY <2>1
<1>4. At' = At /\ Ready(At)' = Ready(At)
    BY <1>1, <1>3 DEF At, Attempt, Ready
<1>5. StepInv'
    BY <1>1, <1>2, <1>3, <1>4 DEF StepInv
<1> QED
    BY <1>2, <1>5 DEF TrackInv

\* The least of several statuses is final only if all are.
LEMMA LeastFinal ==
    ASSUME NEW s \in Sent, NEW t \in Sent, Least(s, t) = "Finalized"
    PROVE  s = "Finalized" /\ t = "Finalized"
BY DEF Sent, Least, Ordinal

LEMMA FoldTrack ==
    ASSUME EnvelopeInv, job.pc = "full", NEW s \in Sent, Fold(s), UNCHANGED <<env, seen>>,
           bdb'[At][0] # "None", job.safe => Ready(At),
           s = "Finalized" => \A j \in 0..job.k : bdb'[At][j] = "Finalized"
    PROVE  StepInv'
<1>1. /\ job.k \in 1..Reveals[job.idx] /\ Reveals[job.idx] \in Nat
    BY AtIsAttempt DEF EnvelopeInv, JobInv, Busy
<1>2. CASE job.k = Reveals[job.idx]
  <2>1. PICK t : t = EnvelopeStatus(s)
      BY ZenonT(60)
  <2>2. job' = [job EXCEPT !.pc = "write", !.status = t]
      BY <1>2, <2>1 DEF Fold
  <2>3. job'.pc = "write" /\ job'.idx = job.idx /\ job'.status = t
      BY <2>2, ZenonT(60) DEF EnvelopeInv, JobInv
  <2>4. At' = At
      BY <2>3 DEF At, Attempt
  <2>5. t = "Finalized" => s = "Finalized"
      BY <2>1 DEF EnvelopeStatus
  <2> QED
      BY <1>2, <2>3, <2>4, <2>5 DEF StepInv
<1>3. CASE job.k # Reveals[job.idx]
  <2>1. job' = [job EXCEPT !.k = @ + 1, !.status = s]
      BY <1>3 DEF Fold
  <2>2. /\ job'.pc = "full" /\ job'.idx = job.idx /\ job'.k = job.k + 1 /\ job'.status = s
        /\ job'.safe = job.safe
      BY <2>1, ZenonT(60) DEF EnvelopeInv, JobInv
  <2>3. At' = At /\ Ready(At)' = Ready(At)
      BY <2>2 DEF At, Attempt, Ready
  <2>4. 0..job'.k - 1 = 0..job.k
      BY <1>1, <2>2
  <2> QED
      BY <2>2, <2>3, <2>4, ZenonT(60) DEF StepInv
<1> QED
    BY <1>2, <1>3

LEMMA CheckRevealTrack ==
    ASSUME EnvelopeInv, TrackInv, CheckReveal
    PROVE  TrackInv'
<1>1. /\ job.pc = "full" /\ job.k \in 1..Reveals[job.idx] /\ job.status \in Sent /\ bdb[At][0] # "None"
      /\ job.safe => Ready(At)
      /\ job.status = "Finalized" => \A j \in 0..job.k - 1 : bdb[At][j] = "Finalized"
    BY DEF CheckReveal, TrackInv, StepInv, EnvelopeInv, JobInv
<1>2. PICK reveal : reveal = bdb[At][job.k]
    BY ZenonT(60)
<1>3. reveal \in TxStatuses /\ Reveals[job.idx] \in Nat
  <2>1. At \in Attempts /\ Txs(At) = 0..Reveals[job.idx] /\ Reveals[job.idx] \in Nat
      BY <1>1, AtIsAttempt DEF EnvelopeInv, Busy
  <2>2. job.k \in Txs(At)
      BY <1>1, <2>1
  <2> QED
      BY <1>2, <2>1, <2>2 DEF EnvelopeInv, RowsInv
<1>4. UNCHANGED <<env, seen>>
    BY DEF CheckReveal
<1>5. CASE \E s \in {"CommitPublished", "NeedsResign"} : Goto("write", job.idx, s) /\ UNCHANGED bdb
  <2>1. PICK s \in {"CommitPublished", "NeedsResign"} : Goto("write", job.idx, s) /\ UNCHANGED bdb
      BY <1>5
  <2>2. job'.pc = "write" /\ job'.idx = job.idx /\ job'.status = s
      BY <2>1, GotoShape DEF EnvelopeInv
  <2>3. At' = At
      BY <1>4, <2>2 DEF At, Attempt
  <2>4. StepInv'
      BY <1>1, <2>1, <2>2, <2>3 DEF StepInv
  <2> QED
      BY <1>4, <2>1, <2>4, NothingWritten
<1>6. CASE job.safe /\ Ensure(At, job.k) /\ Fold("Unpublished")
  <2>1. /\ SeenInv' /\ RevealsWaitForCommit' /\ AcceptedIsRecorded' /\ FinalizedIsComplete'
        /\ bdb'[At][0] # "None"
      BY <1>1, <1>4, <1>6, EnsureTrack
  <2>2. "Unpublished" \in Sent /\ "Unpublished" # "Finalized"
      BY DEF Sent
  <2>3. StepInv'
      BY <1>1, <1>4, <1>6, <2>1, <2>2, FoldTrack
  <2> QED
      BY <2>1, <2>3 DEF TrackInv
<1>7. CASE reveal \notin {"None", "InvalidInputs"} /\ Fold(Least(reveal, job.status)) /\ UNCHANGED bdb
  <2>1. PICK s : s = Least(reveal, job.status)
      BY ZenonT(60)
  <2>2. reveal \in Sent
      BY <1>3, <1>7, SentStatus
  <2>3. s \in Sent
      BY <1>1, <2>1, <2>2 DEF Least
  <2>4. ASSUME s = "Finalized", NEW j \in 0..job.k PROVE bdb'[At][j] = "Finalized"
    <3>1. reveal = "Finalized" /\ job.status = "Finalized"
        BY <1>1, <2>1, <2>2, <2>4, LeastFinal, ZenonT(60)
    <3>2. j = job.k \/ j \in 0..job.k - 1
        BY <1>1, <1>3
    <3> QED
        BY <1>1, <1>2, <1>7, <3>1, <3>2, ZenonT(60)
  <2>5. Fold(s) /\ bdb'[At][0] # "None"
      BY <1>1, <1>7, <2>1
  <2>6. StepInv'
      BY <1>1, <1>4, <2>3, <2>4, <2>5, FoldTrack
  <2> QED
      BY <1>4, <1>7, <2>6, NothingWritten
<1> QED
    BY <1>2, <1>5, <1>6, <1>7 DEF CheckReveal, At

-----------------------------------------------------------------------------
(* Writes of the envelope rows. *)

\* A row that is written keeps its attempt or is merely signed, and gets no
\* status that the table does not show.
LEMMA RowTrack ==
    ASSUME EnvelopeInv, TrackInv, EnvelopeInv', UNCHANGED <<bdb, seen>>, Len(env) <= Len(env'),
           \A i \in 1..Len(env) : env'[i].att >= env[i].att,
           \A i \in 1..Len(env') :
               \/ i \in 1..Len(env) /\ env'[i] = env[i]
               \/ ~Unlocks(env'[i].status)
               \/ /\ i \in 1..Len(env) /\ env'[i].att = env[i].att /\ bdb[Attempt(i)][0] # "None"
                  /\ env'[i].status = "Finalized" => \A k \in Txs(Attempt(i)) : bdb[Attempt(i)][k] = "Finalized"
    PROVE  SeenInv' /\ RevealsWaitForCommit' /\ AcceptedIsRecorded' /\ FinalizedIsComplete'
<1>1. /\ Len(env) \in Nat /\ Len(env') \in Nat /\ DOMAIN env = 1..Len(env) /\ DOMAIN env' = 1..Len(env')
      /\ \A i \in 1..Len(env) : i \in 1..Len(env')
    BY DEF EnvelopeInv, RowsInv
<1>2. \A i \in 1..Len(env) : env[i].att \in Nat /\ env'[i].att \in Nat
  <2>1. \A i \in 1..Len(env) : env[i] \in RowType /\ env'[i] \in RowType
      BY <1>1 DEF EnvelopeInv, RowsInv
  <2>2. \A r \in RowType : r.att \in Nat
      BY EnvelopeAssumption DEF RowType, MaxAttempts
  <2> QED
      BY <2>1, <2>2
<1>3. ASSUME NEW a \in Attempts, bdb[a][0] # "None" PROVE a[1] \in 1..Len(env') /\ env'[a[1]].att >= a[2]
  <2>1. a[1] \in 1..Len(env) /\ env[a[1]].att >= a[2] /\ a[2] \in Nat
      BY <1>3, AttemptOf, EnvelopeAssumption DEF TrackInv, SeenInv, MaxAttempts
  <2> QED
      BY <1>1, <1>2, <2>1
<1>4. SeenInv'
    BY <1>3 DEF TrackInv, SeenInv
<1>5. RevealsWaitForCommit'
    BY DEF TrackInv, RevealsWaitForCommit
<1>6. ASSUME NEW i \in 1..Len(env'), Unlocks(env'[i].status)
      PROVE  /\ bdb[<<i, env'[i].att>>][0] # "None" \/ env'[i].status = "Finalized"
             /\ env'[i].status = "Finalized" => \A k \in Txs(<<i, env'[i].att>>) : bdb[<<i, env'[i].att>>][k] = "Finalized"
    BY <1>1, <1>6, ZenonT(60) DEF TrackInv, AcceptedIsRecorded, FinalizedIsComplete, Attempt, Unlocks
<1>7. AcceptedIsRecorded'
  <2>1. \A a \in seen.accepted : bdb[a][0] # "None" /\ env'[a[1]].att >= a[2]
      BY <1>3 DEF TrackInv, AcceptedIsRecorded, SeenInv
  <2> QED
      BY <1>1, <1>6, <2>1 DEF AcceptedIsRecorded, Attempt, Unlocks
<1>8. FinalizedIsComplete'
    BY <1>1, <1>6 DEF FinalizedIsComplete, Attempt, Unlocks
<1> QED
    BY <1>4, <1>5, <1>7, <1>8

LEMMA SubmitTrack ==
    ASSUME EnvelopeInv, TrackInv, Submit
    PROVE  TrackInv'
<1>1. [status |-> "Unsigned", att |-> 0] \in RowType
    BY EnvelopeAssumption DEF RowType, Statuses, MaxAttempts
<1>2. /\ Len(env') = Len(env) + 1 /\ Len(env) \in Nat
      /\ env'[Len(env) + 1].status = "Unsigned"
      /\ \A j \in 1..Len(env) : env'[j] = env[j]
    BY <1>1 DEF Submit, EnvelopeInv, RowsInv
<1>3. UNCHANGED <<bdb, seen, job>>
    BY DEF Submit, watcher
<1>4. \A i \in 1..Len(env') : i \in 1..Len(env) \/ i = Len(env) + 1
    BY <1>2
<1>5. \A i \in 1..Len(env) : env'[i].att >= env[i].att
  <2>1. \A i \in 1..Len(env) : env[i] \in RowType
      BY DEF EnvelopeInv, RowsInv
  <2>2. \A r \in RowType : r.att \in Nat
      BY EnvelopeAssumption DEF RowType, MaxAttempts
  <2> QED
      BY <1>2, <2>1, <2>2
<1>6. EnvelopeInv' /\ Len(env) <= Len(env')
    BY <1>2, SubmitStep
<1>7. SeenInv' /\ RevealsWaitForCommit' /\ AcceptedIsRecorded' /\ FinalizedIsComplete'
    BY <1>2, <1>3, <1>4, <1>5, <1>6, RowTrack DEF Unlocks
<1>8. StepInv'
  <2>1. CASE Busy
    <3>1. job.idx \in 1..Len(env)
        BY <2>1 DEF EnvelopeInv, JobInv
    <3>2. At' = At /\ env'[job.idx] = env[job.idx] /\ Ready(At)' = Ready(At)
        BY <1>2, <1>3, <3>1 DEF At, Attempt, Ready
    <3> QED
        BY <1>3, <3>2 DEF TrackInv, StepInv
  <2>2. CASE ~Busy
      BY <1>3, <2>2 DEF StepInv, Busy
  <2> QED
      BY <2>1, <2>2
<1> QED
    BY <1>7, <1>8 DEF TrackInv

LEMMA WriteTrack ==
    ASSUME EnvelopeInv, TrackInv, WriteStatus
    PROVE  TrackInv'
<1>1. job.pc = "write" /\ Busy /\ UNCHANGED <<bdb, seen>>
    BY DEF WriteStatus, Busy
<1>2. PICK i, s : i = job.idx /\ s = job.status
    BY ZenonT(60)
<1>3. /\ i \in 1..Len(env) /\ env[i].att # 0 /\ s \in Statuses
      /\ env' = [env EXCEPT ![i].status = s]
    BY <1>1, <1>2 DEF WriteStatus, EnvelopeInv, JobInv
<1>4. /\ Len(env') = Len(env) /\ env'[i].status = s /\ env'[i].att = env[i].att
      /\ \A j \in 1..Len(env) \ {i} : env'[j] = env[j]
    BY <1>3, SetStatus DEF EnvelopeInv
<1>5. At = Attempt(i) /\ Txs(At) = 0..Reveals[job.idx]
    BY <1>1, <1>2, AtIsAttempt DEF EnvelopeInv, At
<1>6. /\ Unlocks(s) => bdb[Attempt(i)][0] # "None"
      /\ s = "Finalized" => \A k \in Txs(Attempt(i)) : bdb[Attempt(i)][k] = "Finalized"
    BY <1>1, <1>2, <1>5 DEF TrackInv, StepInv
<1>7. \A j \in 1..Len(env) : env'[j].att >= env[j].att
  <2>1. \A j \in 1..Len(env) : env[j] \in RowType
      BY DEF EnvelopeInv, RowsInv
  <2>2. \A r \in RowType : r.att \in Nat
      BY EnvelopeAssumption DEF RowType, MaxAttempts
  <2> QED
      BY <1>4, <2>1, <2>2
<1>8. EnvelopeInv' /\ Len(env) <= Len(env')
    BY <1>4, WriteStatusStep DEF EnvelopeInv, RowsInv
<1>9. SeenInv' /\ RevealsWaitForCommit' /\ AcceptedIsRecorded' /\ FinalizedIsComplete'
    BY <1>1, <1>3, <1>4, <1>6, <1>7, <1>8, RowTrack
<1>10. job'.pc \in {"reconcile", "advance", "idle"}
  <2>1. CASE job' = [job EXCEPT !.pc = "reconcile", !.todo = @ \ {job.idx}]
      BY <2>1 DEF EnvelopeInv, JobInv
  <2>2. CASE job' = Waiting \/ job' = [Waiting EXCEPT !.pc = "advance"]
      BY <2>2 DEF Waiting
  <2> QED
      BY <2>1, <2>2 DEF WriteStatus
<1>11. StepInv'
    BY <1>10, AtRest
<1> QED
    BY <1>9, <1>11 DEF TrackInv

LEMMA SignTrack ==
    ASSUME EnvelopeInv, TrackInv, Sign
    PROVE  TrackInv'
<1>1. frontier \in 1..Len(env) /\ UNCHANGED <<bdb, seen>> /\ Goto("put", frontier, "Unpublished")
    BY DEF Sign, NextUnsigned, AtFrontier, EnvelopeInv, FrontierInv, RowsInv
<1>2. PICK f, a : /\ f = frontier /\ a \in {env[frontier].att, env[frontier].att + 1} /\ a \in 1..MaxAttempts
                  /\ env' = [env EXCEPT ![frontier] = [status |-> "Unpublished", att |-> a]]
    BY ZenonT(60) DEF Sign
<1>3. PICK r : r = [status |-> "Unpublished", att |-> a]
    BY ZenonT(60)
<1>4. /\ Len(env') = Len(env) /\ env'[f] = r
      /\ \A j \in 1..Len(env) \ {f} : env'[j] = env[j]
  <2>1. env \in Seq(RowType) /\ r \in RowType /\ env' = [env EXCEPT ![f] = r] /\ f \in 1..Len(env)
      BY <1>1, <1>2, <1>3, EnvelopeAssumption DEF EnvelopeInv, RowsInv, RowType, Statuses, MaxAttempts
  <2> QED
      BY <2>1
<1>5. \A j \in 1..Len(env) : env'[j].att >= env[j].att
  <2>1. \A j \in 1..Len(env) : env[j] \in RowType
      BY DEF EnvelopeInv, RowsInv
  <2>2. \A q \in RowType : q.att \in Nat
      BY EnvelopeAssumption DEF RowType, MaxAttempts
  <2>3. r.att = a
      BY <1>3
  <2>4. a >= env[f].att
      BY <1>1, <1>2, <2>1, <2>2
  <2> QED
      BY <1>1, <1>4, <2>1, <2>2, <2>3, <2>4
<1>6. EnvelopeInv' /\ Len(env) <= Len(env')
    BY <1>4, SignStep DEF EnvelopeInv, RowsInv
<1>7. ~Unlocks(r.status) /\ r.status = "Unpublished"
    BY <1>3 DEF Unlocks
<1>8. SeenInv' /\ RevealsWaitForCommit' /\ AcceptedIsRecorded' /\ FinalizedIsComplete'
    BY <1>1, <1>4, <1>5, <1>6, <1>7, RowTrack
<1>9. job'.pc = "put" /\ job'.idx = f
    BY <1>1, <1>2, GotoShape DEF EnvelopeInv
<1>10. StepInv'
    BY <1>4, <1>7, <1>9, AtRest
<1> QED
    BY <1>8, <1>10 DEF TrackInv

-----------------------------------------------------------------------------
(* The commit: stored, sent, and the answer recorded. *)

\* The row of the commit of an envelope that is being signed is written.
LEMMA CommitTrack ==
    ASSUME EnvelopeInv, TrackInv, job.pc \in {"put", "record"}, NEW s \in TxStatuses \ {"None", "Confirmed", "Finalized"},
           Wrote(At, 0, s), Accepted(s) => At \in seen.accepted, UNCHANGED <<env, seen>>
    PROVE  /\ SeenInv' /\ RevealsWaitForCommit' /\ AcceptedIsRecorded' /\ FinalizedIsComplete'
           /\ bdb'[At][0] = s
<1>1. /\ At \in Attempts /\ At[1] = job.idx /\ At[2] = env[job.idx].att /\ job.idx \in 1..Len(env) /\ 0 \in Txs(At)
      /\ env[job.idx].status = "Unpublished"
    BY AtIsAttempt DEF EnvelopeInv, Busy, TrackInv, StepInv
<1>2. PICK a : a = At
    BY ZenonT(60)
<1>3. /\ bdb'[a][0] = s
      /\ \A b \in Attempts : \A j \in Txs(b) : b # a \/ j # 0 => bdb'[b][j] = bdb[b][j]
    BY <1>1, <1>2, CellSet DEF EnvelopeInv
<1>4. \A b \in Attempts : b # a => bdb'[b][0] = bdb[b][0]
    BY <1>3, AttemptOf
<1>5. env[a[1]].att >= a[2]
  <2>1. env[job.idx] \in RowType
      BY <1>1 DEF EnvelopeInv, RowsInv
  <2>2. env[job.idx].att \in Nat
      BY <2>1, EnvelopeAssumption DEF RowType, MaxAttempts
  <2> QED
      BY <1>1, <1>2, <2>2
<1>6. SeenInv'
  <2>1. \A b \in Attempts : bdb'[b][0] # "None" => b[1] \in 1..Len(env) /\ env[b[1]].att >= b[2]
      BY <1>1, <1>2, <1>4, <1>5 DEF TrackInv, SeenInv
  <2>2. \A b \in Attempts : /\ Accepted(bdb'[b][0]) => b \in seen.accepted
                            /\ bdb'[b][0] \in {"Confirmed", "Finalized"} => b \in seen.mined
      BY <1>2, <1>3, <1>4 DEF TrackInv, SeenInv
  <2> QED
      BY <2>1, <2>2 DEF TrackInv, SeenInv
<1>7. RevealsWaitForCommit'
    BY <1>3 DEF TrackInv, RevealsWaitForCommit
<1>8. AcceptedIsRecorded'
  <2>1. \A b \in seen.accepted : bdb'[b][0] # "None" /\ env[b[1]].att >= b[2]
      BY <1>3, <1>4 DEF TrackInv, AcceptedIsRecorded, SeenInv
  <2>2. ASSUME NEW i \in DOMAIN env, env[i].status \in {"CommitPublished", "Published", "Confirmed"}
        PROVE  bdb'[Attempt(i)][0] # "None"
    <3>1. Attempt(i) \in Attempts
        BY <2>2, SignedRow DEF EnvelopeInv, RowsInv
    <3> QED
        BY <1>3, <1>4, <2>2, <3>1 DEF TrackInv, AcceptedIsRecorded
  <2> QED
      BY <2>1, <2>2 DEF AcceptedIsRecorded, Attempt
<1>9. FinalizedIsComplete'
  <2>1. ASSUME NEW i \in DOMAIN env, env[i].status = "Finalized", NEW j \in Txs(Attempt(i))
        PROVE  bdb'[Attempt(i)][j] = "Finalized"
    <3>1. Attempt(i) \in Attempts
        BY <2>1, SignedRow DEF EnvelopeInv, RowsInv
    <3>2. Attempt(i) # a
        BY <1>1, <1>2, <2>1 DEF Attempt
    <3> QED
        BY <1>3, <2>1, <3>1, <3>2 DEF TrackInv, FinalizedIsComplete
  <2> QED
      BY <2>1 DEF FinalizedIsComplete, Attempt
<1> QED
    BY <1>2, <1>3, <1>6, <1>7, <1>8, <1>9

LEMMA PutTrack ==
    ASSUME EnvelopeInv, TrackInv, PutCommit
    PROVE  TrackInv'
<1>1. job.pc = "put" /\ UNCHANGED <<env, seen>> /\ Wrote(At, 0, "Unpublished")
    BY DEF PutCommit, Wrote, At
<1>2. /\ SeenInv' /\ RevealsWaitForCommit' /\ AcceptedIsRecorded' /\ FinalizedIsComplete'
      /\ bdb'[At][0] = "Unpublished"
    BY <1>1, CommitTrack DEF TxStatuses, Accepted
<1>3. job'.pc \in {"send", "ended"} /\ job'.idx = job.idx
  <2>1. PICK p \in {"send", "ended"} : job' = [job EXCEPT !.pc = p]
      BY ZenonT(60) DEF PutCommit
  <2> QED
      BY <2>1 DEF EnvelopeInv, JobInv
<1>4. At' = At
    BY <1>1, <1>3 DEF At, Attempt
<1>5. StepInv'
    BY <1>1, <1>2, <1>3, <1>4 DEF TrackInv, StepInv
<1> QED
    BY <1>2, <1>5 DEF TrackInv

LEMMA RecordTrack ==
    ASSUME EnvelopeInv, TrackInv, RecordCommit
    PROVE  TrackInv'
<1>1. /\ job.pc = "record" /\ UNCHANGED <<env, seen>> /\ Wrote(At, 0, job.status)
      /\ job.status \in {"Published", "InvalidInputs"} /\ (job.status = "Published" => At \in seen.accepted)
      /\ env[job.idx].status = "Unpublished"
    BY DEF RecordCommit, Wrote, At, EnvelopeInv, JobInv, TrackInv, StepInv
<1>2. PICK s : s = job.status
    BY ZenonT(60)
<1>3. /\ s \in TxStatuses \ {"None", "Confirmed", "Finalized"} /\ Wrote(At, 0, s)
      /\ (Accepted(s) => At \in seen.accepted)
    BY <1>1, <1>2 DEF TxStatuses, Accepted
<1>4. /\ SeenInv' /\ RevealsWaitForCommit' /\ AcceptedIsRecorded' /\ FinalizedIsComplete'
      /\ bdb'[At][0] = s
    BY <1>1, <1>3, CommitTrack
<1>5. PICK p, t : Goto(p, job.idx, t) /\ (p = "readback" \/ (p = "write" /\ t = "NeedsResign"))
    BY DEF RecordCommit
<1>6. job'.pc = p /\ job'.idx = job.idx /\ job'.status = t
    BY <1>5, GotoShape DEF EnvelopeInv
<1>7. At' = At
    BY <1>1, <1>6 DEF At, Attempt
<1>8. StepInv'
    BY <1>1, <1>3, <1>4, <1>5, <1>6, <1>7 DEF StepInv, Unlocks
<1> QED
    BY <1>4, <1>8 DEF TrackInv

LEMMA SendTrack ==
    ASSUME EnvelopeInv, TrackInv, SendCommit
    PROVE  TrackInv'
<1>1. /\ job.pc = "send" /\ UNCHANGED <<env, bdb>> /\ bdb[At][0] # "None" /\ env[job.idx].status = "Unpublished"
    BY DEF SendCommit, TrackInv, StepInv
<1>2. CASE UNCHANGED seen /\ job' = Waiting
  <2>1. job'.pc = "idle"
      BY <1>2 DEF Waiting
  <2>2. StepInv'
      BY <2>1, AtRest
  <2> QED
      BY <1>1, <1>2, <2>2, NothingWritten
<1>3. CASE UNCHANGED seen /\ Goto("record", job.idx, "InvalidInputs")
  <2>1. job'.pc = "record" /\ job'.idx = job.idx /\ job'.status = "InvalidInputs"
      BY <1>3, GotoShape DEF EnvelopeInv
  <2>2. At' = At
      BY <1>1, <2>1 DEF At, Attempt
  <2>3. StepInv'
      BY <1>1, <2>1, <2>2 DEF StepInv
  <2> QED
      BY <1>1, <1>3, <2>3, NothingWritten
<1>4. CASE Seen(At, 0, "Published") /\ Goto("record", job.idx, "Published")
  <2>1. seen'.accepted = seen.accepted \cup {At} /\ seen'.mined = seen.mined
      BY <1>4 DEF Seen, Accepted
  <2>2. job'.pc = "record" /\ job'.idx = job.idx /\ job'.status = "Published"
      BY <1>4, GotoShape DEF EnvelopeInv
  <2>3. At' = At
      BY <1>1, <2>2 DEF At, Attempt
  <2>4. StepInv'
      BY <1>1, <2>1, <2>2, <2>3 DEF StepInv
  <2>5. At \in Attempts
      BY <1>1, AtIsAttempt DEF EnvelopeInv, Busy
  <2>6. SeenInv'
      BY <1>1, <2>1, <2>5 DEF TrackInv, SeenInv
  <2>7. RevealsWaitForCommit'
      BY <1>1, <2>1 DEF TrackInv, RevealsWaitForCommit
  <2>8. AcceptedIsRecorded'
    <3>1. env[At[1]].att >= At[2]
        BY <1>1, <2>5 DEF TrackInv, SeenInv
    <3> QED
        BY <1>1, <2>1, <3>1 DEF TrackInv, AcceptedIsRecorded, Attempt
  <2>9. FinalizedIsComplete'
      BY <1>1 DEF TrackInv, FinalizedIsComplete, Attempt
  <2> QED
      BY <2>4, <2>6, <2>7, <2>8, <2>9 DEF TrackInv
<1> QED
    BY <1>2, <1>3, <1>4 DEF SendCommit, At

LEMMA ReadBackTrack ==
    ASSUME EnvelopeInv, TrackInv, ReadBack
    PROVE  TrackInv'
<1>1. /\ job.pc = "readback" /\ UNCHANGED <<env, bdb, seen>> /\ bdb[At][0] # "None"
      /\ job.status = "CommitPublished"
    BY DEF ReadBack, TrackInv, StepInv, EnvelopeInv, JobInv
<1>2. PICK p : /\ job' = [job EXCEPT !.pc = p] /\ p \in {"enqueue", "write"}
               /\ (p = "enqueue" => PolicySafe(job.idx, bdb[At][0]))
  <2>1. PICK p : p = IF PolicySafe(job.idx, bdb[At][0]) THEN "enqueue" ELSE "write"
      BY ZenonT(60)
  <2>2. job' = [job EXCEPT !.pc = p]
      BY <2>1 DEF ReadBack, At
  <2> QED
      BY <2>1, <2>2
<1>3. job'.pc = p /\ job'.idx = job.idx /\ job'.status = job.status
    BY <1>2, ZenonT(60) DEF EnvelopeInv, JobInv
<1>4. At' = At /\ Ready(At)' = Ready(At)
    BY <1>1, <1>3 DEF At, Attempt, Ready
<1>5. p = "enqueue" => Ready(At)
  <2>1. At \in Attempts /\ At[1] = job.idx
      BY <1>1, AtIsAttempt DEF EnvelopeInv, Busy
  <2> QED
      BY <1>2, <2>1, PolicyReady DEF TrackInv
<1>6. StepInv'
    BY <1>1, <1>2, <1>3, <1>4, <1>5 DEF StepInv
<1> QED
    BY <1>1, <1>6, NothingWritten

\* Steps between envelopes, a crash and the start after it.
LEMMA RestTrack ==
    ASSUME EnvelopeInv, TrackInv, Tick \/ EndReconcile \/ EndAdvance \/ EndWatcher \/ Crash \/ Recover \/ SkipUnlocked
    PROVE  TrackInv'
<1>1. UNCHANGED <<env, bdb, seen>>
    BY DEF Tick, EndReconcile, EndAdvance, EndWatcher, Crash, Recover, SkipUnlocked
<1>2. job'.pc \in {"idle", "reconcile", "advance", "ended", "down"}
  <2>1. CASE Tick
      BY <2>1 DEF Tick, Waiting
  <2>2. CASE EndReconcile \/ EndAdvance \/ EndWatcher \/ Crash \/ Recover
    <3>1. PICK p \in {"idle", "advance", "ended", "down"} : job' = [Waiting EXCEPT !.pc = p]
        BY <2>2, WaitingJob DEF EndReconcile, EndAdvance, EndWatcher, Crash, Recover
    <3> QED
        BY <3>1 DEF Waiting
  <2>3. CASE SkipUnlocked
      BY <2>3 DEF SkipUnlocked, NextUnlocks, AtFrontier
  <2> QED
      BY <2>1, <2>2, <2>3
<1>3. StepInv'
    BY <1>2, AtRest
<1> QED
    BY <1>1, <1>3, NothingWritten

LEMMA NextTrackInv == EnvelopeInv /\ TrackInv /\ [Next]_vars => TrackInv'
<1> SUFFICES ASSUME EnvelopeInv, TrackInv, [Next]_vars PROVE TrackInv'
    OBVIOUS
<1>1. CASE UNCHANGED vars
  <2>1. UNCHANGED <<env, bdb, job, seen>>
      BY <1>1 DEF vars, watcher
  <2>2. StepInv'
      BY <2>1 DEF TrackInv, StepInv, At, Attempt, Ready
  <2> QED
      BY <2>1, <2>2, NothingWritten
<1>2. CASE Next
    BY <1>2, TableTrack, SubmitTrack, RestTrack, VisitTrack, EnqueueTrack, CheckRevealTrack, WriteTrack, SignTrack,
       PutTrack, SendTrack, RecordTrack, ReadBackTrack DEF Next, WatcherStep
<1> QED
    BY <1>1, <1>2

LEMMA TrackingHolds == Spec => [](EnvelopeInv /\ TrackInv)
BY InitEnvelopeInv, NextEnvelopeInv, InitTrackInv, NextTrackInv, PTL DEF Spec

(* A final envelope is complete: its commit and all its reveals are final in
   the broadcaster's table, whatever is refused or reorganised meanwhile and
   wherever the process crashes. *)
THEOREM FinalEnvelopeIsComplete == Spec => []FinalizedIsComplete
<1>1. EnvelopeInv /\ TrackInv => FinalizedIsComplete
    BY DEF TrackInv
<1> QED
    BY <1>1, TrackingHolds, PTL

(* No reveal goes to the broadcaster before the node has accepted its commit,
   nor, unless the two are a small package, before the commit was mined. *)
THEOREM RevealsFollowCommit == Spec => []RevealsWaitForCommit
<1>1. EnvelopeInv /\ TrackInv => RevealsWaitForCommit
    BY DEF TrackInv
<1> QED
    BY <1>1, TrackingHolds, PTL

(* Every commit that the node has accepted is in the broadcaster's table and
   on the row of its envelope, and a published envelope never lacks the row of
   its commit: CommitMissingAfterRevealTracking does not happen. *)
THEOREM AcceptedCommitIsRecorded == Spec => []AcceptedIsRecorded
<1>1. EnvelopeInv /\ TrackInv => AcceptedIsRecorded
    BY DEF TrackInv
<1> QED
    BY <1>1, TrackingHolds, PTL
=============================================================================
