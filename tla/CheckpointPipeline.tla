------------------------- MODULE CheckpointPipeline -------------------------
(***************************************************************************)
(* From an epoch summary to a checkpoint on L1, in a sequencer node with a  *)
(* prover: the runner has every epoch proved in order, the checkpoint       *)
(* worker builds a payload from each proof, the signer has the earliest     *)
(* unsigned payload posted, and the ASM accepts posted checkpoints.  At     *)
(* startup everything past the ASM's verified epoch is deleted and made     *)
(* again, because a restart may rotate the proving image.                   *)
(*                                                                         *)
(* A commitment is a pair of an epoch and the rank of its terminal block in *)
(* the order of the summary table.  The prover is a ProofService.           *)
(***************************************************************************)
EXTENDS ProofService, Integers, FiniteSets, FiniteSetsExt

CONSTANTS
    MaxImages,     \* bound on proving images
    MaxFails,      \* bound on tasks that fail for good though they are not stale
    MaxCrashes

Epoch(c) == c[1]
Epochs == {Epoch(c) : c \in Tasks}
None == <<0, 0>>

ASSUME PipelineAssumption ==
    /\ Tasks \subseteq (Nat \ {0}) \X Nat /\ IsFiniteSet(Tasks)
    /\ MaxImages \in Nat \ {0} /\ MaxFails \in Nat /\ MaxCrashes \in Nat

VARIABLES
    summaries,   \* epoch_summary_tree
    made,        \* the image that made the proof of a task
    payload,     \* payload_tree: the image that made the proof inside, 0 for none
    signing,     \* signing_tree
    unsigned,    \* unsigned_tree: epochs
    posted,      \* checkpoints handed to the L1 writer: <<commitment, image>>
    verified,    \* verified epoch of the canonical ASM state
    image,       \* image of the running node
    runner,      \* checkpoint runner: [pc, next, latest, c, msg, missed]; missed is history:
                 \* a message that would have moved the cursor back was overtaken
    worker,      \* checkpoint worker: [pc, last, target, c, msg]
    duty,        \* the epoch the signer works on, 0 for none
    call,        \* complete_checkpoint_signature after it submitted its intent: the commitment
    start,       \* startup: [pc, todo]
    fails, crashes

db == <<summaries, payload, signing, unsigned>>
l1 == <<posted, verified>>
bounds == <<fails, crashes>>
vars == <<task, proofs, made, db, l1, image, runner, worker, duty, call, start, bounds>>

NoRunner == [pc |-> "wait", next |-> 1, latest |-> 0, c |-> None, msg |-> None, missed |-> FALSE]
NoWorker == [pc |-> "idle", last |-> 0, target |-> 0, c |-> None, msg |-> None]
Running == start.pc = "up"

At(e) == {c \in summaries : Epoch(c) = e}
\* get_canonical_epoch_commitment_at
Canonical(e) == IF At(e) = {} THEN None ELSE CHOOSE c \in At(e) : \A d \in At(e) : c[2] <= d[2]
LastSummarized == Max({0} \cup {Epoch(c) : c \in summaries})
Payloads == {c \in Tasks : payload[c] # 0}
LastPayload == Max({0} \cup {Epoch(c) : c \in Payloads})

TypeOK ==
    /\ task \in [Tasks -> TaskStates] /\ proofs \subseteq Tasks
    /\ summaries \subseteq Tasks
    /\ made \in [Tasks -> 0..MaxImages] /\ payload \in [Tasks -> 0..MaxImages]
    /\ signing \subseteq Payloads /\ unsigned \subseteq Epochs
    /\ posted \subseteq Tasks \X (1..MaxImages)
    /\ verified \in {0} \cup Epochs /\ image \in 1..MaxImages
    /\ runner.pc \in {"wait", "loop", "exec"} /\ runner.next \in 1..Max(Epochs) + 1
    /\ worker.pc \in {"idle", "catchup", "proof"} /\ worker.last \in 0..Max(Epochs)
    /\ duty \in {0} \cup Epochs /\ call \in Tasks \cup {None}
    /\ start.pc \in {"up", "payloads", "artifacts"} /\ start.todo \subseteq Tasks
    /\ fails \in 0..MaxFails /\ crashes \in 0..MaxCrashes

Init ==
    /\ ServiceInit
    /\ summaries = {} /\ signing = {} /\ unsigned = {} /\ posted = {}
    /\ made = [c \in Tasks |-> 0] /\ payload = [c \in Tasks |-> 0]
    /\ verified = 0 /\ image = 1
    /\ runner = NoRunner /\ worker = NoWorker /\ duty = 0 /\ call = None
    /\ start = [pc |-> "up", todo |-> {}]
    /\ fails = 0 /\ crashes = 0

-----------------------------------------------------------------------------
(* The chain worker completes an epoch, or completes the last one again with
   another terminal block (a sequencer replaces only its own rejected tip,
   and none whose checkpoint is posted), and publishes it on a channel that
   keeps the latest value. *)

Summarize(c) ==
    /\ Running /\ c \notin summaries
    /\ Epoch(c) \in {LastSummarized, LastSummarized + 1}
    /\ \A p \in posted : Epoch(p[1]) < Epoch(c)
    /\ summaries' = summaries \cup {c}
    /\ runner' = [runner EXCEPT !.msg = c,
                                !.missed = @ \/ (runner.msg # None /\ Epoch(runner.msg) < Min({runner.next, Epoch(c)}))]
    /\ worker' = [worker EXCEPT !.msg = c]
    /\ UNCHANGED <<task, proofs, made, payload, signing, unsigned, l1, image, duty, call, start, bounds>>

-----------------------------------------------------------------------------
(* The runner. *)

RunnerOnly == UNCHANGED <<made, db, l1, image, worker, duty, call, start, bounds>>

\* Mutant: an epoch that completes again does not rewind the cursor.
RunnerMsgMutant ==
    /\ Running /\ runner.pc = "wait" /\ runner.msg # None
    /\ runner' = [runner EXCEPT !.pc = "loop", !.msg = None, !.latest = Max({@, Epoch(runner.msg)})]
    /\ UNCHANGED <<task, proofs>> /\ RunnerOnly

RunnerMsg ==
    /\ Running /\ runner.pc = "wait" /\ runner.msg # None
    /\ runner' = [runner EXCEPT !.pc = "loop", !.msg = None,
                                !.latest = Max({@, Epoch(runner.msg)}),
                                !.next = Min({@, Epoch(runner.msg)})]
    /\ UNCHANGED <<task, proofs>> /\ RunnerOnly

\* retry_tick; without an epoch to prove it changes nothing.
RunnerTick ==
    /\ Running /\ runner.pc = "wait" /\ runner.next <= runner.latest
    /\ runner' = [runner EXCEPT !.pc = "loop"]
    /\ UNCHANGED <<task, proofs>> /\ RunnerOnly

RunnerIdle ==
    /\ Running /\ runner.pc = "loop"
    /\ runner.next > runner.latest \/ Canonical(runner.next) = None
    /\ runner' = [runner EXCEPT !.pc = "wait"]
    /\ UNCHANGED <<task, proofs>> /\ RunnerOnly

RunnerSkip ==
    /\ Running /\ runner.pc = "loop" /\ runner.next <= runner.latest
    /\ Canonical(runner.next) \in proofs
    /\ runner' = [runner EXCEPT !.next = @ + 1]
    /\ UNCHANGED <<task, proofs>> /\ RunnerOnly

RunnerExecute ==
    LET c == Canonical(runner.next) IN
    /\ Running /\ runner.pc = "loop" /\ runner.next <= runner.latest
    /\ c # None /\ c \notin proofs
    /\ SubmitTask(c)
    /\ runner' = [runner EXCEPT !.pc = "exec", !.c = c]
    /\ RunnerOnly

\* The task is done; the cursor moves unless the epoch changed meanwhile.
RunnerDone ==
    /\ Running /\ runner.pc = "exec" /\ task[runner.c] = "done"
    /\ runner' = [runner EXCEPT !.pc = "loop", !.c = None,
                                !.next = IF Canonical(@) = runner.c THEN @ + 1 ELSE @]
    /\ UNCHANGED <<task, proofs>> /\ RunnerOnly

RunnerFailed ==
    /\ Running /\ runner.pc = "exec" /\ task[runner.c] = "failed"
    /\ runner' = [runner EXCEPT !.pc = "wait", !.c = None]
    /\ UNCHANGED <<task, proofs>> /\ RunnerOnly

-----------------------------------------------------------------------------
(* The prover, by its promise.  A task whose commitment is no longer
   canonical may be rejected. *)

ProverStores(c) ==
    /\ Running /\ task[c] = "open" /\ c \notin proofs
    /\ StoreProof(c)
    /\ made' = [made EXCEPT ![c] = image]
    /\ UNCHANGED <<db, l1, image, runner, worker, duty, call, start, bounds>>

ProverCompletes(c) ==
    /\ Running /\ task[c] = "open"
    /\ SettleTask(c, "done")
    /\ UNCHANGED <<made, db, l1, image, runner, worker, duty, call, start, bounds>>

ProverFails(c) ==
    /\ Running /\ task[c] = "open"
    /\ SettleTask(c, "failed")
    /\ \/ Canonical(Epoch(c)) # c /\ UNCHANGED fails
       \/ fails < MaxFails /\ fails' = fails + 1
    /\ UNCHANGED <<made, db, l1, image, runner, worker, duty, call, start, crashes>>

-----------------------------------------------------------------------------
(* The checkpoint worker. *)

WorkerOnly == UNCHANGED <<task, proofs, made, summaries, l1, image, runner, duty, call, start, bounds>>
NoPayloadChange == UNCHANGED <<payload, signing, unsigned>>

WorkerMsg ==
    /\ Running /\ worker.pc = "idle" /\ worker.msg # None
    /\ worker' = [worker EXCEPT !.pc = "catchup", !.msg = None, !.target = LastSummarized]
    /\ NoPayloadChange /\ WorkerOnly

\* handle_complete_epoch ends: all epochs are done, or one is not there yet.
WorkerIdle ==
    /\ Running /\ worker.pc = "catchup"
    /\ worker.last >= worker.target \/ Canonical(worker.last + 1) = None
    /\ worker' = [worker EXCEPT !.pc = "idle"]
    /\ NoPayloadChange /\ WorkerOnly

\* process_epoch: an epoch with a payload is skipped, otherwise its proof is
\* waited for.
WorkerEpoch ==
    LET c == Canonical(worker.last + 1) IN
    /\ Running /\ worker.pc = "catchup" /\ worker.last < worker.target /\ c # None
    /\ worker' = IF payload[c] # 0 THEN [worker EXCEPT !.last = @ + 1]
                 ELSE [worker EXCEPT !.pc = "proof", !.c = c]
    /\ NoPayloadChange /\ WorkerOnly

\* Mutant: the payload is not entered into the index of unsigned epochs.
WorkerPayloadMutant ==
    LET c == worker.c IN
    /\ Running /\ worker.pc = "proof" /\ c \in proofs
    /\ payload' = [payload EXCEPT ![c] = made[c]]
    /\ UNCHANGED <<signing, unsigned>>
    /\ worker' = [worker EXCEPT !.pc = "catchup", !.last = Epoch(c), !.c = None]
    /\ WorkerOnly

\* get_proof returns, and the payload is stored.
WorkerPayload ==
    LET c == worker.c IN
    /\ Running /\ worker.pc = "proof" /\ c \in proofs
    /\ payload' = [payload EXCEPT ![c] = made[c]]
    /\ unsigned' = IF c \in signing THEN unsigned ELSE unsigned \cup {Epoch(c)}
    /\ UNCHANGED signing
    /\ worker' = [worker EXCEPT !.pc = "catchup", !.last = Epoch(c), !.c = None]
    /\ WorkerOnly

-----------------------------------------------------------------------------
(* The signer asks for the earliest unsigned checkpoint and has it posted,
   which is an intent for the L1 writer and then the signing entry. *)

CallOnly == UNCHANGED <<task, proofs, made, summaries, payload, verified, image, runner, worker, start, bounds>>

\* Mutant: the signer takes the latest unsigned epoch.
TakeDutyMutant ==
    LET c == Canonical(Max(unsigned)) IN
    /\ Running /\ duty = 0 /\ call = None /\ unsigned # {}
    /\ c # None /\ c \notin signing /\ payload[c] # 0
    /\ duty' = Epoch(c)
    /\ UNCHANGED <<signing, unsigned, posted, call>> /\ CallOnly

\* get_earliest_unsigned_checkpoint, and the signer goes to work on the epoch.
TakeDuty ==
    LET c == Canonical(Min(unsigned)) IN
    /\ Running /\ duty = 0 /\ call = None /\ unsigned # {}
    /\ c # None /\ c \notin signing /\ payload[c] # 0
    /\ duty' = Epoch(c)
    /\ UNCHANGED <<signing, unsigned, posted, call>> /\ CallOnly

(* complete_checkpoint_signature(epoch) looks the epoch up again: it may have
   been completed again meanwhile and have no payload yet. *)
SubmitIntent ==
    LET c == Canonical(duty) IN
    /\ Running /\ duty # 0
    /\ c # None /\ c \notin signing /\ payload[c] # 0
    /\ posted' = posted \cup {<<c, payload[c]>>}
    /\ call' = c /\ duty' = 0
    /\ UNCHANGED <<signing, unsigned>> /\ CallOnly

RefuseDuty ==
    LET c == Canonical(duty) IN
    /\ Running /\ duty # 0
    /\ c = None \/ c \in signing \/ payload[c] = 0
    /\ duty' = 0
    /\ UNCHANGED <<signing, unsigned, posted, call>> /\ CallOnly

RecordSigning ==
    /\ Running /\ call # None
    /\ signing' = signing \cup {call}
    /\ unsigned' = unsigned \ {Epoch(call)}
    /\ call' = None
    /\ UNCHANGED <<posted, duty>> /\ CallOnly

\* The ASM accepts the next epoch, proved by the image it expects.
Accept(c) ==
    /\ <<c, image>> \in posted /\ Epoch(c) = verified + 1
    /\ verified' = Epoch(c)
    /\ UNCHANGED <<task, proofs, made, db, posted, image, runner, worker, duty, call, start, bounds>>

-----------------------------------------------------------------------------
(* A crash, with or without a new image, and the startup.  The signer's
   connection breaks, and with it the duty it works on fails. *)

Crash ==
    /\ crashes < MaxCrashes /\ crashes' = crashes + 1
    /\ image' \in {i \in 1..MaxImages : i >= image}
    /\ runner' = NoRunner /\ worker' = NoWorker /\ duty' = 0 /\ call' = None
    /\ start' = [pc |-> "payloads", todo |-> {}]
    /\ UNCHANGED <<task, proofs, made, db, l1, fails>>

Unaccepted(S) == {c \in S : Epoch(c) > verified}

\* Mutant: only the epochs that had a payload are cleaned up.
DeletePayloadsMutant ==
    LET gone == Unaccepted(Payloads) IN
    /\ start.pc = "payloads"
    /\ payload' = [c \in Tasks |-> IF c \in gone THEN 0 ELSE payload[c]]
    /\ signing' = signing \ gone
    /\ unsigned' = unsigned \ {Epoch(c) : c \in gone \ signing}
    /\ start' = [pc |-> "artifacts", todo |-> gone]
    /\ UNCHANGED <<task, proofs, made, summaries, l1, image, runner, worker, duty, call, bounds>>

\* reconcile_unaccepted_checkpoint_artifacts: payloads first, in one
\* transaction, then the proof and the task of each commitment.
DeletePayloads ==
    LET gone == Unaccepted(Payloads) IN
    /\ start.pc = "payloads"
    /\ payload' = [c \in Tasks |-> IF c \in gone THEN 0 ELSE payload[c]]
    /\ signing' = signing \ gone
    /\ unsigned' = unsigned \ {Epoch(c) : c \in gone \ signing}
    /\ start' = [pc |-> "artifacts", todo |-> Unaccepted(summaries) \cup gone]
    /\ UNCHANGED <<task, proofs, made, summaries, l1, image, runner, worker, duty, call, bounds>>

Before(c, d) == Epoch(c) < Epoch(d) \/ (Epoch(c) = Epoch(d) /\ c[2] <= d[2])
FirstTodo == CHOOSE c \in start.todo : \A d \in start.todo : Before(c, d)

DeleteProof ==
    /\ start.pc = "artifacts" /\ start.todo # {} /\ FirstTodo \in proofs
    /\ proofs' = proofs \ {FirstTodo} /\ made' = [made EXCEPT ![FirstTodo] = 0]
    /\ UNCHANGED <<task, db, l1, image, runner, worker, duty, call, start, bounds>>

DeleteTask ==
    /\ start.pc = "artifacts" /\ start.todo # {} /\ FirstTodo \notin proofs
    /\ task' = [task EXCEPT ![FirstTodo] = "none"]
    /\ start' = [start EXCEPT !.todo = @ \ {FirstTodo}]
    /\ UNCHANGED <<proofs, made, db, l1, image, runner, worker, duty, call, bounds>>

\* derive_next_epoch_to_prove for the runner, init_cursor_from_db and the
\* catch-up of on_launch for the worker.
Launch ==
    LET last == {c \in Payloads : Epoch(c) = LastPayload /\ Canonical(Epoch(c)) = c
                                  /\ \A d \in Payloads : Epoch(d) = Epoch(c) => c[2] <= d[2]} IN
    /\ start.pc = "artifacts" /\ start.todo = {}
    /\ start' = [pc |-> "up", todo |-> {}]
    /\ runner' = [NoRunner EXCEPT !.next = LastPayload + 1, !.latest = LastSummarized]
    /\ worker' = [NoWorker EXCEPT !.last = IF last = {} THEN 0 ELSE LastPayload,
                                  !.pc = IF summaries = {} THEN "idle" ELSE "catchup", !.target = LastSummarized]
    /\ UNCHANGED <<task, proofs, made, db, l1, image, duty, call, bounds>>

Runner == RunnerMsg \/ RunnerTick \/ RunnerIdle \/ RunnerSkip \/ RunnerExecute \/ RunnerDone \/ RunnerFailed
Worker == WorkerMsg \/ WorkerIdle \/ WorkerEpoch \/ WorkerPayload
Signer == TakeDuty \/ SubmitIntent \/ RefuseDuty \/ RecordSigning
Startup == DeletePayloads \/ DeleteProof \/ DeleteTask \/ Launch

Next ==
    \/ \E c \in Tasks : Summarize(c) \/ ProverStores(c) \/ ProverCompletes(c) \/ ProverFails(c) \/ Accept(c)
    \/ Runner \/ Worker \/ Signer \/ Startup \/ Crash

Spec == Init /\ [][Next]_vars

\* Every component runs; the prover ends its tasks, and what is posted
\* reaches L1, which L1Writer shows.
FairSpec ==
    /\ Spec
    /\ WF_vars(Runner) /\ WF_vars(Worker) /\ WF_vars(Signer) /\ WF_vars(Startup)
    /\ \A c \in Tasks : WF_vars(ProverStores(c)) /\ WF_vars(ProverCompletes(c)) /\ WF_vars(Accept(c))

-----------------------------------------------------------------------------
(* Properties *)

\* Checkpoints are posted in the order of their epochs, also when a restart
\* with a new image makes them all again: when one is posted, every earlier
\* epoch is accepted or posted with the same image.
PostedInOrder ==
    \A p \in posted : \A e \in 1..Epoch(p[1]) - 1 :
        e <= verified \/ \E q \in posted : Epoch(q[1]) = e /\ q[2] = p[2]

\* After a restart with a new image no proof of the old one is used for an
\* epoch that is not accepted, wherever an earlier startup was interrupted.
NoStaleProof ==
    Running => \A c \in Tasks : payload[c] # 0 /\ Epoch(c) > verified => payload[c] = image

\* A canonical payload that waits for its signature can be found by the
\* signer: the index by epoch agrees with the tables by commitment.
UnsignedIsIndexed ==
    \A c \in Payloads \ signing : Canonical(Epoch(c)) = c => Epoch(c) \in unsigned

\* The worker waits for the proof of a commitment that has been replaced, or
\* is past an epoch whose commitment has been replaced, or the runner never
\* saw that one it had proved was replaced.
Displaced ==
    \/ runner.missed
    \/ worker.pc = "proof" /\ Canonical(Epoch(worker.c)) # worker.c
    \/ \E e \in 1..worker.last : payload[Canonical(e)] = 0

\* Every completed epoch gets its checkpoint onto L1, through crashes at any
\* step and rotations of the image, unless its proof failed for good or its
\* terminal block was replaced behind the worker.
EpochIsAccepted ==
    \A e \in Epochs : At(e) # {} ~> verified >= e \/ Displaced
                                     \/ \E c \in Tasks : task[c] = "failed" /\ Canonical(Epoch(c)) = c
=============================================================================
