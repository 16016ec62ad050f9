-------------------------- MODULE CheckpointProofs --------------------------
(***************************************************************************)
(* For any number of epochs, of commitments per epoch, of images and of     *)
(* crashes: no proof of an old image is used, checkpoints are posted in     *)
(* order, and what waits for a signature is in the signer's index.          *)
(***************************************************************************)
EXTENDS CheckpointPipeline, WellFoundedInduction, TLAPS

\* The back ends a leaf is tried with, in this order.
USE SMT, Z3, ZenonT(60)

\* The commitment that get_canonical_epoch_commitment_at returns.
IsCanon(c) == c \in summaries /\ \A d \in summaries : Epoch(d) = Epoch(c) => c[2] <= d[2]

\* Epoch e is accepted, or has had a payload made for it.
Covered(e) == e <= verified \/ \E d \in Payloads : Epoch(d) = e

\* The tables, and what is in hand of a task, a proof or a payload was summarized.
TablesInv ==
    /\ summaries \subseteq Tasks /\ proofs \subseteq Tasks
    /\ task \in [Tasks -> TaskStates] /\ made \in [Tasks -> Nat] /\ payload \in [Tasks -> Nat]
    /\ signing \subseteq Payloads /\ unsigned \subseteq Nat
    /\ verified \in Nat /\ image \in Nat \ {0}
    /\ \A c \in Tasks : task[c] # "none" \/ c \in proofs \/ payload[c] # 0 => c \in summaries

\* The worker has covered every epoch up to its cursor and waits for the proof
\* of one that has no payload; the signer's call has posted its checkpoint.
HandInv ==
    /\ worker = [pc |-> worker.pc, last |-> worker.last, target |-> worker.target,
                 c |-> worker.c, msg |-> worker.msg]
    /\ worker.last \in Nat
    /\ \A e \in 1..worker.last : Covered(e)
    /\ worker.pc = "proof" => /\ worker.c \in summaries /\ payload[worker.c] = 0
                              /\ Epoch(worker.c) = worker.last + 1
    /\ call # None => call \in Payloads /\ <<call, payload[call]>> \in posted
    /\ ~Running => worker = NoWorker /\ call = None

\* A startup that has deleted the payloads still has every proof to delete.
ImageInv ==
    /\ start = [pc |-> start.pc, todo |-> start.todo]
    /\ start.pc \in {"up", "payloads", "artifacts"}
    /\ Running => \A c \in proofs : Epoch(c) > verified => made[c] = image
    /\ start.pc = "artifacts" =>
          \A c \in Tasks : Epoch(c) > verified =>
              payload[c] = 0 /\ (c \in proofs => c \in start.todo)
    /\ NoStaleProof

\* What is posted is canonical, what is signed is posted, what is not signed
\* is indexed, and payloads are made in order.
OrderInv ==
    /\ \A p \in posted : IsCanon(p[1])
    /\ \A c \in signing : <<c, payload[c]>> \in posted
    /\ \A c \in Payloads \ signing : Epoch(c) \in unsigned \/ \E s \in signing : Epoch(s) = Epoch(c)
    /\ \A c \in Payloads : \A e \in 1..Epoch(c) - 1 : Covered(e)
    /\ PostedInOrder

\* The signer works on an epoch before which every epoch is accepted or signed.
DutyInv ==
    /\ duty \in Nat
    /\ \A e \in 1..duty - 1 : e <= verified \/ \E s \in signing : Epoch(s) = e
    /\ ~Running => duty = 0

PipelineInv == TablesInv /\ HandInv /\ ImageInv /\ OrderInv /\ DutyInv

-----------------------------------------------------------------------------
(* Lemmas on the operators. *)

\* Every task is a pair of an epoch above 0 and a rank.
LEMMA TaskShape ==
    ASSUME NEW c \in Tasks
    PROVE  Epoch(c) \in Nat /\ Epoch(c) > 0 /\ c[2] \in Nat /\ c = <<c[1], c[2]>> /\ c # None
BY PipelineAssumption DEF Epoch, None

\* A set of naturals that is not empty has a least member.
LEMMA NatMin ==
    ASSUME NEW T, T \subseteq Nat, T # {}
    PROVE  \E x \in T : \A y \in T : x <= y
<1>1. IsWellFoundedOn(OpToRel(<, Nat), Nat)
    BY NatLessThanWellFounded, ZenonT(60)
<1>2. PICK x \in T : \A y \in T : ~ (<<y, x>> \in OpToRel(<, Nat))
    BY <1>1, WFMin, ZenonT(60)
<1>3. \A y \in T : ~(y < x)
    BY <1>2, ZenonT(60) DEF OpToRel
<1> QED
    BY <1>3

\* Min of FiniteSetsExt is that member.
LEMMA MinIsLeast ==
    ASSUME NEW T, T \subseteq Nat, T # {}
    PROVE  Min(T) \in T /\ \A y \in T : Min(T) <= y
BY NatMin, ZenonT(60) DEF Min

\* The commitment that Canonical finds is the canonical one of its epoch.
LEMMA CanonicalFound ==
    ASSUME summaries \subseteq Tasks, NEW e, Canonical(e) # None
    PROVE  IsCanon(Canonical(e)) /\ Epoch(Canonical(e)) = e
<1> DEFINE R == {d[2] : d \in At(e)}
<1>1. At(e) # {} /\ At(e) \subseteq Tasks
    BY DEF Canonical, At
<1>2. R \subseteq Nat /\ R # {}
    BY <1>1, TaskShape
<1>3. PICK x \in R : \A y \in R : x <= y
    BY <1>2, NatMin, ZenonT(60)
<1>4. \E c \in At(e) : \A d \in At(e) : c[2] <= d[2]
    BY <1>3
<1>5. Canonical(e) \in At(e) /\ \A d \in At(e) : Canonical(e)[2] <= d[2]
    BY <1>1, <1>4 DEF Canonical
<1> QED
    BY <1>5 DEF At, IsCanon

\* An epoch has one canonical commitment.
LEMMA CanonicalUnique ==
    ASSUME summaries \subseteq Tasks, NEW c, NEW d, IsCanon(c), IsCanon(d), Epoch(c) = Epoch(d)
    PROVE  c = d
<1>1. c \in Tasks /\ d \in Tasks /\ c[2] <= d[2] /\ d[2] <= c[2]
    BY DEF IsCanon
<1>2. c[2] = d[2]
    BY <1>1, TaskShape
<1> QED
    BY <1>1, <1>2, TaskShape DEF Epoch

-----------------------------------------------------------------------------
(* The invariant is inductive. *)

LEMMA InitPipelineInv == Init => PipelineInv
<1> SUFFICES ASSUME Init PROVE PipelineInv
    OBVIOUS
<1>1. TablesInv
    BY DEF Init, ServiceInit, TablesInv, Payloads, TaskStates
<1>2. HandInv
    BY DEF Init, HandInv, NoWorker, Running
<1>3. ImageInv
    BY DEF Init, ServiceInit, ImageInv, NoStaleProof
<1>4. OrderInv
    BY DEF Init, OrderInv, Payloads, PostedInOrder
<1>5. DutyInv
    BY DEF Init, DutyInv
<1> QED
    BY <1>1, <1>2, <1>3, <1>4, <1>5 DEF PipelineInv

\* What is signed or accepted under a duty stays so while the node runs.
LEMMA DutyKept ==
    ASSUME PipelineInv, UNCHANGED <<duty, start>>, signing \subseteq signing', verified' \in Nat,
           verified <= verified'
    PROVE  DutyInv'
BY DEF PipelineInv, TablesInv, DutyInv, Running

\* A step that changes the table of tasks only, for a summarized commitment.
LEMMA TaskStep ==
    ASSUME PipelineInv, NEW c \in summaries, NEW s \in TaskStates,
           task' = [task EXCEPT ![c] = s],
           UNCHANGED <<proofs, made, db, l1, image, worker, duty, call, start>>
    PROVE  PipelineInv'
<1>1. TablesInv'
    BY DEF PipelineInv, TablesInv, Payloads, db, l1
<1>2. HandInv'
    BY DEF PipelineInv, HandInv, Covered, Payloads, Running, db, l1
<1>3. ImageInv'
    BY DEF PipelineInv, ImageInv, NoStaleProof, Running, db, l1
<1>4. OrderInv'
    BY DEF PipelineInv, OrderInv, IsCanon, Covered, Payloads, PostedInOrder, db, l1
<1>5. DutyInv'
    BY DutyKept DEF PipelineInv, TablesInv, db, l1
<1> QED
    BY <1>1, <1>2, <1>3, <1>4, <1>5 DEF PipelineInv

\* A step that leaves all of it alone.
LEMMA SameStep ==
    ASSUME PipelineInv, UNCHANGED <<task, proofs, made, db, l1, image, worker, duty, call, start>>
    PROVE  PipelineInv'
<1>1. TablesInv'
    BY DEF PipelineInv, TablesInv, Payloads, db, l1
<1>2. HandInv'
    BY DEF PipelineInv, HandInv, Covered, Payloads, Running, db, l1
<1>3. ImageInv'
    BY DEF PipelineInv, ImageInv, NoStaleProof, Running, db, l1
<1>4. OrderInv'
    BY DEF PipelineInv, OrderInv, IsCanon, Covered, Payloads, PostedInOrder, db, l1
<1>5. DutyInv'
    BY DutyKept DEF PipelineInv, TablesInv, db, l1
<1> QED
    BY <1>1, <1>2, <1>3, <1>4, <1>5 DEF PipelineInv

\* The runner proves canonical commitments only.
LEMMA RunnerStep ==
    ASSUME PipelineInv, Runner
    PROVE  PipelineInv'
<1>1. UNCHANGED <<proofs, made, db, l1, image, worker, duty, call, start>>
    BY DEF Runner, RunnerMsg, RunnerTick, RunnerIdle, RunnerSkip, RunnerExecute, RunnerDone, RunnerFailed,
           RunnerOnly, SubmitTask
<1>2. CASE UNCHANGED task
    BY <1>1, <1>2, SameStep
<1>3. CASE RunnerExecute
  <2> DEFINE c == Canonical(runner.next)
  <2>1. c \in summaries
      BY <1>3, CanonicalFound DEF RunnerExecute, IsCanon, PipelineInv, TablesInv
  <2>2. PICK s \in TaskStates : task' = [task EXCEPT ![c] = s]
      BY <1>3, <2>1, ZenonT(60) DEF RunnerExecute, SubmitTask, PipelineInv, TablesInv, TaskStates
  <2> QED
      BY <1>1, <2>1, <2>2, TaskStep, ZenonT(60)
<1> QED
    BY <1>2, <1>3 DEF Runner, RunnerMsg, RunnerTick, RunnerIdle, RunnerSkip, RunnerDone, RunnerFailed

\* A task that is open, whose commitment is summarized then, is proved or ends.
LEMMA ProverStep ==
    ASSUME PipelineInv, NEW c \in Tasks, ProverStores(c) \/ ProverCompletes(c) \/ ProverFails(c)
    PROVE  PipelineInv'
<1>1. c \in summaries
    BY DEF PipelineInv, TablesInv, ProverStores, ProverCompletes, ProverFails
<1>2. CASE ProverCompletes(c) \/ ProverFails(c)
    BY <1>1, <1>2, TaskStep DEF ProverCompletes, ProverFails, SettleTask, TaskStates
<1>3. CASE ProverStores(c)
  <2>1. TablesInv'
      BY <1>1, <1>3 DEF PipelineInv, TablesInv, Payloads, db, l1, ProverStores, StoreProof
  <2>2. HandInv'
      BY <1>3 DEF PipelineInv, HandInv, Covered, Payloads, Running, db, l1, ProverStores
  <2>3. ImageInv'
      BY <1>3 DEF PipelineInv, TablesInv, ImageInv, NoStaleProof, Running, db, l1, ProverStores, StoreProof
  <2>4. OrderInv'
      BY <1>3 DEF PipelineInv, OrderInv, IsCanon, Covered, Payloads, PostedInOrder, db, l1, ProverStores
  <2>5. DutyInv'
      BY <1>3, DutyKept DEF PipelineInv, TablesInv, db, l1, ProverStores
  <2> QED
      BY <2>1, <2>2, <2>3, <2>4, <2>5 DEF PipelineInv
<1> QED
    BY <1>2, <1>3

\* A new commitment is of an epoch past every posted one, so what is posted
\* stays canonical.
LEMMA SummarizeStep ==
    ASSUME PipelineInv, NEW c \in Tasks, Summarize(c)
    PROVE  PipelineInv'
<1>1. TablesInv'
    BY DEF PipelineInv, TablesInv, Payloads, l1, Summarize
<1>2. HandInv'
    BY DEF PipelineInv, HandInv, Covered, Payloads, Running, l1, Summarize
<1>3. ImageInv'
    BY DEF PipelineInv, ImageInv, NoStaleProof, Running, l1, Summarize
<1>4. \A p \in posted : IsCanon(p[1])'
  <2> SUFFICES ASSUME NEW p \in posted PROVE IsCanon(p[1])'
      OBVIOUS
  <2>1. IsCanon(p[1]) /\ Epoch(p[1]) < Epoch(c) /\ p[1] \in Tasks
      BY DEF PipelineInv, OrderInv, TablesInv, IsCanon, Summarize
  <2>2. Epoch(p[1]) # Epoch(c)
      BY <2>1, TaskShape
  <2> QED
      BY <2>1, <2>2 DEF IsCanon, Epoch, Summarize
<1>5. OrderInv'
    BY <1>4 DEF PipelineInv, OrderInv, Covered, Payloads, PostedInOrder, l1, Summarize
<1>6. DutyInv'
    BY DutyKept DEF PipelineInv, TablesInv, l1, Summarize
<1> QED
    BY <1>1, <1>2, <1>3, <1>5, <1>6 DEF PipelineInv

-----------------------------------------------------------------------------
(* The checkpoint worker. *)

\* The worker skips an epoch that has a payload, or waits for its proof.
LEMMA WorkerCursorStep ==
    ASSUME PipelineInv, WorkerMsg \/ WorkerIdle \/ WorkerEpoch
    PROVE  PipelineInv'
<1>1. UNCHANGED <<task, proofs, made, db, l1, image, duty, call, start>>
    BY DEF WorkerMsg, WorkerIdle, WorkerEpoch, WorkerOnly, NoPayloadChange, db
<1>2. TablesInv' /\ ImageInv' /\ OrderInv' /\ DutyInv'
  <2>1. TablesInv'
      BY <1>1 DEF PipelineInv, TablesInv, Payloads, db, l1
  <2>2. ImageInv'
      BY <1>1 DEF PipelineInv, ImageInv, NoStaleProof, Running, db, l1
  <2>3. OrderInv'
      BY <1>1 DEF PipelineInv, OrderInv, IsCanon, Covered, Payloads, PostedInOrder, db, l1
  <2>4. DutyInv'
      BY <1>1, DutyKept DEF PipelineInv, TablesInv, db, l1
  <2> QED
      BY <2>1, <2>2, <2>3, <2>4
<1>3. CASE WorkerMsg \/ WorkerIdle
    BY <1>1, <1>2, <1>3, ZenonT(60) DEF PipelineInv, HandInv, Covered, Payloads, Running, WorkerMsg, WorkerIdle, db, l1
<1>4. CASE WorkerEpoch
  <2> DEFINE c == Canonical(worker.last + 1)
  <2>1. c \in summaries /\ c \in Tasks /\ Epoch(c) = worker.last + 1
      BY <1>4, CanonicalFound DEF WorkerEpoch, IsCanon, PipelineInv, TablesInv
  <2> HIDE DEF c
  <2>2. CASE payload[c] # 0
    <3>1. c \in Payloads
        BY <2>1, <2>2 DEF Payloads
    <3>2. worker' = [worker EXCEPT !.last = @ + 1]
        BY <1>4, <2>2 DEF WorkerEpoch, c
    <3>3. \A e \in 1..worker.last + 1 : Covered(e)
        BY <2>1, <3>1 DEF PipelineInv, HandInv, Covered
    <3>4. \A e : Covered(e)' <=> Covered(e)
        BY <1>1 DEF Covered, Payloads, db, l1
    <3>5. worker'.pc = "catchup" /\ worker'.last = worker.last + 1 /\ Running
        BY <1>4, <3>2, ZenonT(60) DEF WorkerEpoch, PipelineInv, HandInv
    <3>6. worker' = [pc |-> worker'.pc, last |-> worker'.last, target |-> worker'.target,
                     c |-> worker'.c, msg |-> worker'.msg]
        BY <3>2 DEF PipelineInv, HandInv
    <3> QED
        BY <1>1, <1>2, <3>3, <3>4, <3>5, <3>6 DEF PipelineInv, HandInv, Payloads, Running, db, l1
  <2>3. CASE payload[c] = 0
    <3>1. worker' = [worker EXCEPT !.pc = "proof", !.c = c]
        BY <1>4, <2>3 DEF WorkerEpoch, c
    <3> QED
        BY <1>1, <1>2, <1>4, <2>1, <2>3, <3>1, ZenonT(60)
           DEF PipelineInv, HandInv, Covered, Payloads, Running, WorkerEpoch, db, l1
  <2> QED
      BY <2>2, <2>3
<1> QED
    BY <1>2, <1>3, <1>4 DEF PipelineInv

\* The payload of the epoch after the cursor is made, from a proof of the
\* running image unless the epoch is accepted, and is indexed.
LEMMA WorkerPayloadStep ==
    ASSUME PipelineInv, WorkerPayload
    PROVE  PipelineInv'
<1>0. PICK c : c = worker.c
    OBVIOUS
<1>1. /\ c \in summaries /\ c \in Tasks /\ c \in proofs /\ payload[c] = 0 /\ c \notin signing
      /\ Epoch(c) = worker.last + 1 /\ worker.last \in Nat
      /\ Running /\ (call # None => c # call)
    BY <1>0 DEF WorkerPayload, PipelineInv, TablesInv, HandInv, Payloads
<1>2. Epoch(c) > verified => made[c] = image /\ image # 0
    BY <1>1 DEF PipelineInv, TablesInv, ImageInv
<1>3. /\ payload' = [payload EXCEPT ![c] = made[c]] /\ unsigned' = unsigned \cup {Epoch(c)}
      /\ worker' = [worker EXCEPT !.pc = "catchup", !.last = Epoch(c), !.c = None]
      /\ UNCHANGED <<task, proofs, made, summaries, signing, posted, verified, image, duty, call, start>>
    BY <1>0, <1>1 DEF WorkerPayload, WorkerOnly, l1
<1>4. payload' \in [Tasks -> Nat] /\ payload'[c] = made[c] /\ \A d \in Tasks \ {c} : payload'[d] = payload[d]
    BY <1>1, <1>3 DEF PipelineInv, TablesInv
<1>5. Payloads \subseteq Payloads' /\ Payloads' \subseteq Payloads \cup {c}
    BY <1>1, <1>4 DEF Payloads
<1>6. \A e : Covered(e) => Covered(e)'
    BY <1>3, <1>5 DEF Covered
<1>7. Covered(Epoch(c))'
    BY <1>1, <1>2, <1>3, <1>4, TaskShape DEF Covered, Payloads, PipelineInv, TablesInv
<1>8. TablesInv'
    BY <1>1, <1>3, <1>4, <1>5 DEF PipelineInv, TablesInv
<1>9. HandInv'
  <2>1. \A e \in 1..Epoch(c) : Covered(e)'
      BY <1>1, <1>6, <1>7 DEF PipelineInv, HandInv
  <2>2. /\ worker' = [pc |-> worker'.pc, last |-> worker'.last, target |-> worker'.target,
                      c |-> worker'.c, msg |-> worker'.msg]
        /\ worker'.last = Epoch(c) /\ worker'.pc = "catchup"
      BY <1>3, ZenonT(60) DEF PipelineInv, HandInv
  <2> QED
      BY <1>1, <1>3, <1>4, <1>5, <2>1, <2>2 DEF PipelineInv, HandInv, Running, Payloads
<1>10. ImageInv'
    BY <1>1, <1>2, <1>3, <1>4 DEF PipelineInv, ImageInv, NoStaleProof, Running
<1>11. OrderInv'
  <2>1. \A d \in Payloads' : \A e \in 1..Epoch(d) - 1 : Covered(e)'
      BY <1>1, <1>5, <1>6 DEF PipelineInv, HandInv, OrderInv
  <2>2. \A d \in signing : d \in Tasks \ {c}
      BY <1>1 DEF PipelineInv, TablesInv, Payloads
  <2>3. \A p \in posted : IsCanon(p[1])'
      BY <1>3 DEF PipelineInv, OrderInv, IsCanon
  <2>4. PostedInOrder'
      BY <1>3 DEF PipelineInv, OrderInv, PostedInOrder
  <2> QED
      BY <1>3, <1>4, <1>5, <2>1, <2>2, <2>3, <2>4 DEF PipelineInv, OrderInv
<1>12. DutyInv'
    BY <1>3, DutyKept DEF PipelineInv, TablesInv
<1> QED
    BY <1>8, <1>9, <1>10, <1>11, <1>12 DEF PipelineInv

-----------------------------------------------------------------------------
(* The signer and L1. *)

\* The earliest unsigned epoch becomes the duty.  An earlier one past the
\* accepted epoch has a payload and is not in the index, so it is signed.
LEMMA TakeDutyStep ==
    ASSUME PipelineInv, TakeDuty
    PROVE  PipelineInv'
<1> DEFINE c == Canonical(Min(unsigned))
<1>1. /\ Running /\ c # None /\ payload[c] # 0 /\ unsigned # {} /\ duty' = Epoch(c)
      /\ UNCHANGED <<task, proofs, made, db, l1, image, worker, call, start>>
    BY DEF TakeDuty, CallOnly, db, l1
<1>2. Min(unsigned) \in unsigned /\ \A e \in unsigned : Min(unsigned) <= e
    BY <1>1, MinIsLeast, ZenonT(60) DEF PipelineInv, TablesInv
<1>3. Epoch(c) = Min(unsigned) /\ c \in Tasks
    BY <1>1, CanonicalFound DEF IsCanon, PipelineInv, TablesInv
<1> HIDE DEF c
<1>4. Epoch(c) \in Nat /\ c \in Payloads /\ \A e \in unsigned : Epoch(c) <= e
    BY <1>1, <1>2, <1>3, ZenonT(60) DEF PipelineInv, TablesInv, Payloads
<1>5. ASSUME NEW e \in 1..Epoch(c) - 1, ~(e <= verified) PROVE \E s \in signing : Epoch(s) = e
  <2>1. e \notin unsigned
      BY <1>4
  <2>2. PICK d \in Payloads : Epoch(d) = e
      BY <1>4, <1>5 DEF PipelineInv, OrderInv, Covered
  <2> QED
      BY <2>1, <2>2 DEF PipelineInv, OrderInv
<1>6. DutyInv'
    BY <1>1, <1>4, <1>5 DEF DutyInv, Running, db, l1
<1>7. TablesInv'
    BY <1>1 DEF PipelineInv, TablesInv, Payloads, db, l1
<1>8. HandInv'
    BY <1>1 DEF PipelineInv, HandInv, Covered, Payloads, Running, db, l1
<1>9. ImageInv'
    BY <1>1 DEF PipelineInv, ImageInv, NoStaleProof, Running, db, l1
<1>10. OrderInv'
    BY <1>1 DEF PipelineInv, OrderInv, IsCanon, Covered, Payloads, PostedInOrder, db, l1
<1> QED
    BY <1>6, <1>7, <1>8, <1>9, <1>10 DEF PipelineInv

\* A duty whose epoch has no payload or a signature is dropped.
LEMMA RefuseDutyStep ==
    ASSUME PipelineInv, RefuseDuty
    PROVE  PipelineInv'
<1>1. duty' = 0 /\ UNCHANGED <<task, proofs, made, db, l1, image, worker, call, start>>
    BY DEF RefuseDuty, CallOnly, db, l1
<1>2. DutyInv'
    BY <1>1 DEF DutyInv
<1>3. TablesInv'
    BY <1>1 DEF PipelineInv, TablesInv, Payloads, db, l1
<1>4. HandInv'
    BY <1>1 DEF PipelineInv, HandInv, Covered, Payloads, Running, db, l1
<1>5. ImageInv'
    BY <1>1 DEF PipelineInv, ImageInv, NoStaleProof, Running, db, l1
<1>6. OrderInv'
    BY <1>1 DEF PipelineInv, OrderInv, IsCanon, Covered, Payloads, PostedInOrder, db, l1
<1> QED
    BY <1>2, <1>3, <1>4, <1>5, <1>6 DEF PipelineInv

\* The epoch of the duty is posted.  An earlier one past the accepted epoch is
\* signed, hence posted, and from the running image as this one is.
LEMMA SubmitIntentStep ==
    ASSUME PipelineInv, SubmitIntent
    PROVE  PipelineInv'
<1> DEFINE c == Canonical(duty)
<1>1. /\ Running /\ c # None /\ payload[c] # 0
      /\ posted' = posted \cup {<<c, payload[c]>>} /\ call' = c /\ duty' = 0
      /\ UNCHANGED <<task, proofs, made, summaries, payload, signing, unsigned, verified, image, worker, start>>
    BY DEF SubmitIntent, CallOnly
<1>2. DutyInv'
    BY <1>1 DEF DutyInv
<1>3. IsCanon(c) /\ Epoch(c) = duty /\ c \in Tasks
    BY <1>1, CanonicalFound DEF IsCanon, PipelineInv, TablesInv
<1> HIDE DEF c
<1>4. /\ Epoch(c) \in Nat
      /\ \A e \in 1..Epoch(c) - 1 : e <= verified \/ \E s \in signing : Epoch(s) = e
    BY <1>3 DEF PipelineInv, DutyInv
<1>5. c \in Payloads
    BY <1>1, <1>3 DEF Payloads
<1>6. ASSUME NEW e \in 1..Epoch(c) - 1, ~(e <= verified)
      PROVE  \E q \in posted : Epoch(q[1]) = e /\ q[2] = payload[c]
  <2>1. verified \in Nat /\ Epoch(c) > verified
      BY <1>4, <1>6 DEF PipelineInv, TablesInv
  <2>2. PICK s \in signing : Epoch(s) = e
      BY <1>4, <1>6
  <2>3. s \in Tasks /\ payload[s] # 0 /\ Epoch(s) > verified
      BY <1>6, <2>1, <2>2 DEF PipelineInv, TablesInv, Payloads
  <2>4. payload[s] = image /\ payload[c] = image
      BY <1>1, <1>3, <2>1, <2>3 DEF PipelineInv, ImageInv, NoStaleProof
  <2>5. <<s, payload[s]>> \in posted
      BY <2>2 DEF PipelineInv, OrderInv
  <2> QED
      BY <2>2, <2>4, <2>5
<1>7. PostedInOrder'
  <2> SUFFICES ASSUME NEW p \in posted', NEW e \in 1..Epoch(p[1]) - 1, ~(e <= verified)
               PROVE  \E q \in posted' : Epoch(q[1]) = e /\ q[2] = p[2]
      BY <1>1 DEF PostedInOrder
  <2>1. CASE p \in posted
      BY <1>1, <2>1 DEF PipelineInv, OrderInv, PostedInOrder
  <2>2. CASE p = <<c, payload[c]>>
      BY <1>1, <1>6, <2>2
  <2> QED
      BY <1>1, <2>1, <2>2
<1>8. TablesInv'
    BY <1>1 DEF PipelineInv, TablesInv, Payloads
<1>9. HandInv'
    BY <1>1, <1>5 DEF PipelineInv, HandInv, Covered, Payloads, Running
<1>10. ImageInv'
    BY <1>1 DEF PipelineInv, ImageInv, NoStaleProof, Running
<1>11. \A p \in posted' : IsCanon(p[1])'
    BY <1>1, <1>3 DEF PipelineInv, OrderInv, IsCanon
<1>12. OrderInv'
    BY <1>1, <1>7, <1>11 DEF PipelineInv, OrderInv, Covered, Payloads
<1> QED
    BY <1>2, <1>8, <1>9, <1>10, <1>12 DEF PipelineInv

\* The posted commitment is signed and its epoch leaves the index.
LEMMA RecordSigningStep ==
    ASSUME PipelineInv, RecordSigning
    PROVE  PipelineInv'
<1>1. /\ call \in Payloads /\ <<call, payload[call]>> \in posted
      /\ signing' = signing \cup {call} /\ unsigned' = unsigned \ {Epoch(call)} /\ call' = None
      /\ UNCHANGED <<task, proofs, made, summaries, payload, posted, verified, image, worker, duty, start>>
    BY DEF RecordSigning, CallOnly, PipelineInv, HandInv
<1>2. TablesInv'
    BY <1>1, ZenonT(60) DEF PipelineInv, TablesInv, Payloads
<1>3. HandInv'
    BY <1>1 DEF PipelineInv, HandInv, Covered, Payloads, Running
<1>4. ImageInv'
    BY <1>1 DEF PipelineInv, ImageInv, NoStaleProof, Running
<1>5. OrderInv'
    BY <1>1 DEF PipelineInv, OrderInv, IsCanon, Covered, Payloads, PostedInOrder
<1>6. DutyInv'
    BY <1>1, DutyKept DEF PipelineInv, TablesInv
<1> QED
    BY <1>2, <1>3, <1>4, <1>5, <1>6 DEF PipelineInv

\* The verified epoch only grows.
LEMMA AcceptStep ==
    ASSUME PipelineInv, NEW c \in Tasks, Accept(c)
    PROVE  PipelineInv'
<1>1. /\ verified' = verified + 1 /\ verified \in Nat
      /\ UNCHANGED <<task, proofs, made, summaries, payload, signing, unsigned, posted, image, worker, duty, call, start>>
    BY DEF Accept, db, PipelineInv, TablesInv
<1>2. \A e \in Nat : Covered(e) => Covered(e)'
    BY <1>1 DEF Covered, Payloads
<1>3. TablesInv'
    BY <1>1 DEF PipelineInv, TablesInv, Payloads
<1>4. HandInv'
    BY <1>1, <1>2 DEF PipelineInv, HandInv, Payloads, Running
<1>5. ImageInv'
    BY <1>1, TaskShape DEF PipelineInv, TablesInv, ImageInv, NoStaleProof, Running
<1>6. PostedInOrder'
    BY <1>1 DEF PipelineInv, OrderInv, PostedInOrder
<1>7. \A d \in Payloads : \A e \in 1..Epoch(d) - 1 : Covered(e)'
    BY <1>2 DEF PipelineInv, OrderInv
<1>8. OrderInv'
    BY <1>1, <1>6, <1>7 DEF PipelineInv, OrderInv, IsCanon, Payloads
<1>9. DutyInv'
    BY <1>1, DutyKept
<1> QED
    BY <1>3, <1>4, <1>5, <1>8, <1>9 DEF PipelineInv

-----------------------------------------------------------------------------
(* Crash and startup. *)

LEMMA CrashStep ==
    ASSUME PipelineInv, Crash
    PROVE  PipelineInv'
<1>1. /\ image' \in Nat \ {0} /\ worker' = NoWorker /\ duty' = 0 /\ call' = None
      /\ start' = [pc |-> "payloads", todo |-> {}]
      /\ UNCHANGED <<task, proofs, made, db, l1>>
    BY PipelineAssumption DEF Crash
<1>2. TablesInv'
    BY <1>1 DEF PipelineInv, TablesInv, Payloads, db, l1
<1>3. HandInv'
    BY <1>1 DEF HandInv, NoWorker
<1>4. ImageInv'
    BY <1>1 DEF ImageInv, NoStaleProof, Running
<1>5. OrderInv'
    BY <1>1 DEF PipelineInv, OrderInv, IsCanon, Covered, Payloads, PostedInOrder, db, l1
<1>6. DutyInv'
    BY <1>1 DEF DutyInv
<1> QED
    BY <1>2, <1>3, <1>4, <1>5, <1>6 DEF PipelineInv

\* Payloads past the verified epoch are gone; the others keep their entries.
LEMMA DeletePayloadsStep ==
    ASSUME PipelineInv, DeletePayloads
    PROVE  PipelineInv'
<1> DEFINE gone == Unaccepted(Payloads)
<1>1. /\ payload' = [c \in Tasks |-> IF c \in gone THEN 0 ELSE payload[c]]
      /\ signing' = signing \ gone
      /\ unsigned' = unsigned \ {Epoch(c) : c \in gone \ signing}
      /\ start' = [pc |-> "artifacts", todo |-> Unaccepted(summaries) \cup gone]
      /\ start.pc = "payloads"
      /\ UNCHANGED <<task, proofs, made, summaries, posted, verified, image, worker, duty, call>>
    BY DEF DeletePayloads, l1
<1>2. verified \in Nat /\ \A c \in Tasks : Epoch(c) \in Nat
    BY TaskShape DEF PipelineInv, TablesInv
<1>3. /\ payload' \in [Tasks -> Nat]
      /\ \A c \in Tasks : payload'[c] = IF Epoch(c) > verified THEN 0 ELSE payload[c]
    BY <1>1 DEF PipelineInv, TablesInv, Unaccepted, Payloads
<1>4. Payloads' = {c \in Payloads : Epoch(c) <= verified}
    BY <1>2, <1>3 DEF Payloads
<1>5. \A c \in gone : c \in Tasks /\ Epoch(c) > verified
    BY DEF Unaccepted, Payloads
<1>6. \A c \in signing' : c \in signing /\ c \in Tasks /\ Epoch(c) <= verified
    BY <1>1, <1>2 DEF PipelineInv, TablesInv, Payloads, Unaccepted
<1>7. \A c \in signing : Epoch(c) <= verified => c \in signing'
    BY <1>1, <1>2, <1>5
<1>8. \A e \in unsigned : e <= verified => e \in unsigned'
    BY <1>1, <1>2, <1>5
<1>9. unsigned' \subseteq Nat
    BY <1>1, ZenonT(60) DEF PipelineInv, TablesInv
<1>10. \A c \in Unaccepted(summaries) : c \in start'.todo
    BY <1>1
<1>11. start'.pc = "artifacts" /\ start' = [pc |-> start'.pc, todo |-> start'.todo]
    BY <1>1
<1>12. worker' = NoWorker /\ call' = None /\ duty' = 0
    BY <1>1 DEF PipelineInv, HandInv, DutyInv, Running
<1>13. UNCHANGED <<task, proofs, made, summaries, posted, verified, image>>
    BY <1>1
<1> HIDE DEF gone
<1>14. TablesInv'
  <2>1. signing' \subseteq Payloads'
      BY <1>4, <1>6 DEF PipelineInv, TablesInv
  <2> QED
      BY <1>3, <1>9, <1>13, <2>1 DEF PipelineInv, TablesInv
<1>15. HandInv'
    BY <1>12 DEF HandInv, NoWorker
<1>16. ImageInv'
    BY <1>3, <1>10, <1>11, <1>13 DEF PipelineInv, TablesInv, ImageInv, NoStaleProof, Running, Unaccepted
<1>17. OrderInv'
  <2>1. \A c \in Payloads' : \A e \in 1..Epoch(c) - 1 : Covered(e)'
    <3> SUFFICES ASSUME NEW c \in Payloads', NEW e \in 1..Epoch(c) - 1 PROVE Covered(e)'
        OBVIOUS
    <3>1. Epoch(c) <= verified /\ Epoch(c) \in Nat
        BY <1>2, <1>4 DEF Payloads
    <3>2. e <= verified
        BY <1>2, <3>1
    <3> QED
        BY <1>13, <3>2 DEF Covered
  <2>2. \A c \in Payloads' \ signing' : Epoch(c) \in unsigned' \/ \E s \in signing' : Epoch(s) = Epoch(c)
      BY <1>4, <1>7, <1>8 DEF PipelineInv, OrderInv
  <2>3. \A c \in signing' : <<c, payload'[c]>> \in posted
    <3>1. \A c \in signing' : payload'[c] = payload[c]
        BY <1>2, <1>3, <1>6
    <3> QED
        BY <1>6, <3>1 DEF PipelineInv, OrderInv
  <2>4. \A p \in posted : IsCanon(p[1])'
      BY <1>13 DEF PipelineInv, OrderInv, IsCanon
  <2>5. PostedInOrder'
      BY <1>13 DEF PipelineInv, OrderInv, PostedInOrder
  <2> QED
      BY <1>13, <2>1, <2>2, <2>3, <2>4, <2>5 DEF OrderInv
<1>18. DutyInv'
    BY <1>12 DEF DutyInv
<1> QED
    BY <1>14, <1>15, <1>16, <1>17, <1>18 DEF PipelineInv

\* The proof goes before the task, and the commitment stays on the list until
\* both are gone.
LEMMA DeleteArtifactsStep ==
    ASSUME PipelineInv, DeleteProof \/ DeleteTask
    PROVE  PipelineInv'
<1>1. UNCHANGED <<db, l1, image, worker, duty, call>> /\ start.pc = "artifacts"
    BY DEF DeleteProof, DeleteTask
<1>2. TablesInv'
    BY <1>1 DEF PipelineInv, TablesInv, Payloads, DeleteProof, DeleteTask, TaskStates, db, l1
<1>3. start'.pc = "artifacts"
    BY <1>1 DEF DeleteProof, DeleteTask, PipelineInv, ImageInv
<1>4. HandInv'
    BY <1>1, <1>3 DEF PipelineInv, HandInv, Covered, Payloads, Running, db, l1
<1>5. ImageInv'
  <2>1. start' = [pc |-> start'.pc, todo |-> start'.todo]
      BY DEF DeleteProof, DeleteTask, PipelineInv, ImageInv
  <2>2. \A c \in proofs' : c \in proofs /\ (c \in start.todo => c \in start'.todo)
    <3>1. CASE DeleteProof
        BY <3>1 DEF DeleteProof
    <3>2. CASE DeleteTask
      <4>1. start'.todo = start.todo \ {FirstTodo}
          BY <3>2 DEF DeleteTask, PipelineInv, ImageInv
      <4> QED
          BY <3>2, <4>1 DEF DeleteTask
    <3> QED
        BY <3>1, <3>2
  <2> QED
      BY <1>1, <1>3, <2>1, <2>2 DEF PipelineInv, ImageInv, NoStaleProof, Running, db, l1
<1>6. OrderInv'
    BY <1>1 DEF PipelineInv, OrderInv, IsCanon, Covered, Payloads, PostedInOrder, db, l1
<1>7. DutyInv'
    BY <1>1 DEF PipelineInv, DutyInv, Running
<1> QED
    BY <1>2, <1>4, <1>5, <1>6, <1>7 DEF PipelineInv

\* With nothing left to delete, every proof and payload that is left is of an
\* accepted epoch, and the worker starts behind the last payload.
LEMMA LaunchStep ==
    ASSUME PipelineInv, Launch
    PROVE  PipelineInv'
<1>1. UNCHANGED <<task, proofs, made, db, l1, image, duty, call>> /\ start.pc = "artifacts" /\ start.todo = {}
      /\ start' = [pc |-> "up", todo |-> {}]
    BY DEF Launch
<1>2. TablesInv'
    BY <1>1 DEF PipelineInv, TablesInv, Payloads, db, l1
<1>3. PICK pc, n, t : worker' = [NoWorker EXCEPT !.last = n, !.pc = pc, !.target = t]
                      /\ pc # "proof" /\ (n = 0 \/ \E c \in Payloads : Epoch(c) = n)
    BY ZenonT(60) DEF Launch
<1>4. worker' = [pc |-> pc, last |-> n, target |-> t, c |-> None, msg |-> None]
    BY <1>3, ZenonT(60) DEF NoWorker
<1>5. n \in Nat /\ \A e \in 1..n : Covered(e)
  <2>1. CASE n = 0
      BY <2>1
  <2>2. CASE n # 0
    <3>1. PICK c \in Payloads : Epoch(c) = n
        BY <1>3, <2>2
    <3>2. n \in Nat /\ Covered(n)
        BY <3>1, TaskShape DEF Covered, Payloads
    <3>3. \A e \in 1..n - 1 : Covered(e)
        BY <3>1 DEF PipelineInv, OrderInv
    <3> QED
        BY <3>2, <3>3
  <2> QED
      BY <2>1, <2>2
<1>6. \A e : Covered(e)' <=> Covered(e)
    BY <1>1 DEF Covered, Payloads, db, l1
<1>7. HandInv'
    BY <1>1, <1>3, <1>4, <1>5, <1>6, ZenonT(60) DEF PipelineInv, HandInv, Running
<1>8. ImageInv'
    BY <1>1 DEF PipelineInv, TablesInv, ImageInv, NoStaleProof, Running, db, l1
<1>9. OrderInv'
    BY <1>1 DEF PipelineInv, OrderInv, IsCanon, Covered, Payloads, PostedInOrder, db, l1
<1>10. DutyInv'
    BY <1>1 DEF PipelineInv, DutyInv, Running
<1> QED
    BY <1>2, <1>7, <1>8, <1>9, <1>10 DEF PipelineInv

LEMMA NextPipelineInv == PipelineInv /\ [Next]_vars => PipelineInv'
<1> SUFFICES ASSUME PipelineInv, [Next]_vars PROVE PipelineInv'
    OBVIOUS
<1>1. CASE UNCHANGED vars
    BY <1>1, SameStep DEF vars
<1>2. CASE Next
    BY <1>2, SummarizeStep, ProverStep, AcceptStep, RunnerStep, WorkerCursorStep, WorkerPayloadStep,
       TakeDutyStep, SubmitIntentStep, RefuseDutyStep, RecordSigningStep, DeletePayloadsStep, DeleteArtifactsStep,
       LaunchStep, CrashStep
       DEF Next, Worker, Signer, Startup
<1> QED
    BY <1>1, <1>2

LEMMA PipelineInvHolds == Spec => []PipelineInv
    BY InitPipelineInv, NextPipelineInv, PTL DEF Spec

-----------------------------------------------------------------------------
(* Theorems *)

(* Whenever the node runs, no payload of an epoch that is not accepted holds a
   proof of an older image, wherever the cleanups of earlier startups were
   interrupted: for any number of epochs, images and crashes. *)
THEOREM NoOldProofUsed == Spec => []NoStaleProof
<1>1. PipelineInv => NoStaleProof
    BY DEF PipelineInv, ImageInv
<1> QED
    BY <1>1, PipelineInvHolds, PTL

(* Checkpoints are handed to the L1 writer in the order of their epochs, image
   by image, whatever the restarts make again. *)
THEOREM PostingIsOrdered == Spec => []PostedInOrder
<1>1. PipelineInv => PostedInOrder
    BY DEF PipelineInv, OrderInv
<1> QED
    BY <1>1, PipelineInvHolds, PTL

(* A canonical payload without a signing entry is in the signer's index: the
   two tables never disagree, through replaced epochs, cleanups and crashes
   between the intent and the entry. *)
THEOREM IndexIsComplete == Spec => []UnsignedIsIndexed
<1>1. PipelineInv => UnsignedIsIndexed
  <2> SUFFICES ASSUME PipelineInv, NEW c \in Payloads \ signing, Canonical(Epoch(c)) = c
               PROVE  Epoch(c) \in unsigned
      BY DEF UnsignedIsIndexed
  <2>1. c \in Tasks /\ summaries \subseteq Tasks
      BY DEF PipelineInv, TablesInv, Payloads
  <2>2. IsCanon(c)
      BY <2>1, TaskShape, CanonicalFound
  <2>3. ASSUME NEW s \in signing, Epoch(s) = Epoch(c) PROVE FALSE
    <3>1. IsCanon(s)
        BY ZenonT(60) DEF PipelineInv, OrderInv
    <3> QED
        BY <2>1, <2>2, <2>3, <3>1, CanonicalUnique
  <2> QED
      BY <2>3 DEF PipelineInv, OrderInv
<1> QED
    BY <1>1, PipelineInvHolds, PTL
=============================================================================
