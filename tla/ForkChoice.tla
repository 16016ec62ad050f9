---------------------------- MODULE ForkChoice ----------------------------
(***************************************************************************)
(* Block production and fork choice of a sequencer node: the block         *)
(* template cache, the RPC that stores a signed block, the OL block store  *)
(* with its high-watermark and canonical index, the execution of a block   *)
(* by the chain worker with its state indexing and epoch summaries, the    *)
(* fork choice manager (FCM), and the finalized epoch it takes from the    *)
(* client state machine (CSM).  The node may crash between any two writes  *)
(* and restart from what is on disk.                                       *)
(***************************************************************************)
EXTENDS UnfinalizedTracker

CONSTANTS
    Invalid,     \* blocks the state transition function rejects
    Transient,   \* TRUE: a step of the FCM may also fail for a local reason
    SlowRpc,     \* TRUE: a call may store its block after its template is gone
    MaxCrashes   \* bound on crashes

ASSUME ForkChoiceAssumption ==
    /\ Invalid \subseteq Block \ {Genesis}
    /\ Transient \in BOOLEAN
    /\ SlowRpc \in BOOLEAN
    /\ MaxCrashes \in Nat

VARIABLES
    \* on disk
    status,      \* block -> BlockStatus, "none" for a block not stored
    hwm,         \* the block high-watermark, or Null
    rows,        \* blocks with state-indexing rows
    lastApplied, \* epoch -> last_applied_block of its indexing row, or Null
    olStates,    \* blocks with a stored post-state
    summaries,   \* terminal blocks with a stored epoch summary
    canon,       \* slot -> canonical block, or Null
    \* the client state machine and L1
    posted,      \* terminal blocks whose checkpoint was posted to L1
    csmState,    \* finalized terminal block of the published client state
    csmFin,      \* the same in the CSM service's monitor
    csmEvent,    \* an unseen change of the checkpoint-state watch channel
    \* in memory
    tracker, curBest,
    pending,     \* epochs_pending_finalization
    replay,      \* startup_replay_candidates not yet taken
    inbox,       \* the FCM message channel
    published,   \* tip of the published OLSyncStatus, or Null
    tick,        \* the tip a running generation tick resolved, or Null
    tmpl,        \* template_status_by_parent
    rpc,         \* the complete_block_template call of each block
    startup,     \* the producer's treatment of the high-watermark: [pc, blk]
    built,       \* blocks a template was ever made of (ids do not repeat)
    job,         \* what the FCM task is doing: [pc, blk, pass]
    crashes

disk == <<status, hwm, rows, lastApplied, olStates, summaries, canon>>
csm == <<posted, csmState, csmFin, csmEvent>>
choice == <<tracker, curBest, pending, published>>
queues == <<replay, inbox>>
producer == <<tick, tmpl, rpc, startup, built>>
vars == <<disk, csm, choice, queues, producer, job, crashes>>

Statuses == {"none", "Unchecked", "Valid", "Invalid"}
NoTemplate == [kind |-> "None", blk |-> Null]
Templates == [kind : {"Pending", "Completed"}, blk : Block] \cup {NoTemplate}
Unstarted == [pc |-> "check", blk |-> Null]
Idle == [pc |-> "idle", blk |-> Null, pass |-> 1]
At(pc) == job.pc = pc
Goto(pc) == job' = [job EXCEPT !.pc = pc]
Running == ~At("down") /\ ~At("failed")
Up == Running /\ ~At("index")   \* initialised: the other services run too

DiskType ==
    /\ status \in [Block -> Statuses]
    /\ hwm \in Block \cup {Null}
    /\ rows \subseteq Block
    /\ lastApplied \in [Epochs -> Block \cup {Null}]
    /\ olStates \subseteq Block
    /\ summaries \subseteq Terminal
    /\ canon \in [Slots -> Block \cup {Null}]
CsmType ==
    /\ posted \subseteq Terminal
    /\ csmState \in Terminal
    /\ csmFin \in Terminal
    /\ csmEvent \in BOOLEAN
ChoiceType ==
    /\ tracker \in Trackers
    /\ curBest \in Block
    /\ pending \in Seq(Terminal)
    /\ published \in Block \cup {Null}
QueuesType ==
    /\ replay \subseteq Block
    /\ inbox \in Seq(Block)
ProducerType ==
    /\ tick \in Block \cup {Null}
    /\ tmpl \in [Block -> Templates]
    /\ rpc \in [Block -> {"none", "signed", "stored"}]
    /\ startup \in [pc : {"check", "roll", "drop", "clear", "resubmit", "done"},
                    blk : Block \cup {Null}]
    /\ built \subseteq Block
JobType ==
    /\ job \in [pc : {"down", "failed", "index", "idle", "exec", "store", "summary",
                      "valid", "apply", "post", "mark", "drop", "roll", "clear"},
                blk : Block \cup {Null}, pass : 1..2]
    /\ crashes \in 0..MaxCrashes
TypeOK == DiskType /\ CsmType /\ ChoiceType /\ QueuesType /\ ProducerType /\ JobType

Init ==
    /\ status = [b \in Block |-> IF b = Genesis THEN "Valid" ELSE "none"]
    /\ hwm = Null
    /\ rows = {Genesis}
    /\ lastApplied = [e \in Epochs |-> IF e = 0 THEN Genesis ELSE Null]
    /\ olStates = {Genesis}
    /\ summaries = {Genesis}
    /\ canon = [s \in Slots |-> IF s = 0 THEN Genesis ELSE Null]
    /\ posted = {}
    /\ csmState = Genesis
    /\ csmFin = Genesis
    /\ csmEvent = FALSE
    /\ tracker = NewEmpty(Genesis)
    /\ curBest = Genesis
    /\ pending = <<>>
    /\ replay = {}
    /\ inbox = <<>>
    /\ published = Null
    /\ tick = Null
    /\ tmpl = [b \in Block |-> NoTemplate]
    /\ rpc = [b \in Block |-> "none"]
    /\ startup = Unstarted
    /\ built = {Genesis}
    /\ job = Idle
    /\ crashes = 0

-----------------------------------------------------------------------------
(* Block production. *)

\* Mutant: a block may be stored at the high-watermark's own slot.
SlotOfMutant(b) == IF b = Null THEN -1 ELSE Slot[b] - 1

SlotOf(b) == IF b = Null THEN -1 ELSE Slot[b]
CanonTip == LET top == CHOOSE s \in Slots :
                          /\ canon[s] # Null
                          /\ \A r \in Slots : canon[r] # Null => r <= s
            IN  canon[top]

\* resolve_canonical_tip
ProposalTip == IF published # Null THEN published ELSE CanonTip

(* The generation tick, in two steps: resolve the tip and compare it with the
   high-watermark, then ask block assembly for a template. *)
ResolveTip ==
    /\ Up /\ startup.pc = "done" /\ tick = Null
    /\ Slot[ProposalTip] + 1 > SlotOf(hwm)
    /\ tick' = ProposalTip
    /\ UNCHANGED <<disk, csm, choice, queues, tmpl, rpc, startup, built, job, crashes>>

(* generate_block_template.  Tombstones at or below the parent's slot are
   pruned.  A pending template of the parent is returned as it is; a
   completed one is a tombstone that blocks the parent until the block it
   names is found Invalid.  What goes into the block is not modelled: it is
   some new block with that parent. *)
Pruned(p) ==
    [q \in Block |-> IF tmpl[q].kind = "Completed" /\ Slot[tmpl[q].blk] <= Slot[p]
                     THEN NoTemplate ELSE tmpl[q]]

\* Mutant: a tombstone is never released.
GenerateTemplateMutant ==
    LET free == tmpl[tick].kind = "None"
        fresh == {b \in Block \ built : Parent[b] = tick}
    IN  /\ Up /\ tick # Null
        /\ tick' = Null
        /\ IF free /\ fresh # {}
           THEN \E b \in fresh :
                   /\ tmpl' = [Pruned(tick) EXCEPT ![tick] = [kind |-> "Pending", blk |-> b]]
                   /\ built' = built \cup {b}
           ELSE tmpl' = Pruned(tick) /\ UNCHANGED built
        /\ UNCHANGED <<disk, csm, choice, queues, rpc, startup, job, crashes>>

GenerateTemplate ==
    LET free == \/ tmpl[tick].kind = "None"
                \/ tmpl[tick].kind = "Completed" /\ status[tmpl[tick].blk] = "Invalid"
        fresh == {b \in Block \ built : Parent[b] = tick}
    IN  /\ Up /\ tick # Null
        /\ tick' = Null
        /\ IF free /\ fresh # {}
           THEN \E b \in fresh :
                   /\ tmpl' = [Pruned(tick) EXCEPT ![tick] = [kind |-> "Pending", blk |-> b]]
                   /\ built' = built \cup {b}
           ELSE tmpl' = Pruned(tick) /\ UNCHANGED built
        /\ UNCHANGED <<disk, csm, choice, queues, rpc, startup, job, crashes>>

\* A template older than its time to live is dropped at the next command.
ExpireTemplate(p) ==
    /\ Up /\ tmpl[p].kind = "Pending"
    /\ tmpl' = [tmpl EXCEPT ![p] = NoTemplate]
    /\ UNCHANGED <<disk, csm, choice, queues, tick, rpc, startup, built, job, crashes>>

\* get_sequencer_duties offers the template of the tip, unless its slot is at
\* or below the high-watermark, and the signer signs it.
SignBlock ==
    LET b == tmpl[ProposalTip].blk
    IN  /\ Up /\ tmpl[ProposalTip].kind = "Pending"
        /\ Slot[b] > SlotOf(hwm) /\ rpc[b] = "none"
        /\ rpc' = [rpc EXCEPT ![b] = "signed"]
        /\ UNCHANGED <<disk, csm, choice, queues, tick, tmpl, startup, built, job, crashes>>

(* complete_block_template needs the template, which stays pending, and
   put_block_data_with_high_watermark stores the block and makes it the
   high-watermark in one transaction, which refuses a slot that does not
   advance it.  A slow call stores the block after its template is gone. *)
Held(b) == tmpl[Parent[b]] = [kind |-> "Pending", blk |-> b]

StoreBlock(b) ==
    /\ Up /\ rpc[b] = "signed"
    /\ IF (SlowRpc \/ Held(b)) /\ Slot[b] > SlotOf(hwm)
       THEN /\ status' = [status EXCEPT ![b] = IF @ = "none" THEN "Unchecked" ELSE @]
            /\ hwm' = b
            /\ rpc' = [rpc EXCEPT ![b] = "stored"]
       ELSE /\ rpc' = [rpc EXCEPT ![b] = "none"]
            /\ UNCHANGED <<status, hwm>>
    /\ UNCHANGED <<rows, lastApplied, olStates, summaries, canon, csm, choice,
                   queues, tick, tmpl, startup, built, job, crashes>>

\* Mutant: the submission is lost.
SubmitBlockMutant(b) ==
    /\ Up /\ rpc[b] = "stored"
    /\ rpc' = [rpc EXCEPT ![b] = "none"]
    /\ tmpl' = IF Held(b)
               THEN [tmpl EXCEPT ![Parent[b]] = [kind |-> "Completed", blk |-> b]]
               ELSE tmpl
    /\ UNCHANGED <<disk, csm, choice, queues, tick, startup, built, job, crashes>>

\* record_persisted_block, then submission to the FCM.
SubmitBlock(b) ==
    /\ Up /\ rpc[b] = "stored"
    /\ rpc' = [rpc EXCEPT ![b] = "none"]
    /\ tmpl' = IF Held(b)
               THEN [tmpl EXCEPT ![Parent[b]] = [kind |-> "Completed", blk |-> b]]
               ELSE tmpl
    /\ inbox' = Append(inbox, b)
    /\ UNCHANGED <<disk, csm, choice, replay, tick, startup, built, job, crashes>>

(* process_startup_high_watermark_block reads the high-watermark block and
   its status, then acts on what it read; the FCM runs meanwhile. *)
StartupDecide ==
    /\ Up /\ startup.pc = "check"
    /\ startup' = [pc |-> CASE hwm = Null -> "done"
                            [] hwm # Null /\ status[hwm] = "Valid" -> "done"
                            [] hwm # Null /\ status[hwm] = "Invalid" -> "roll"
                            [] OTHER -> "resubmit",
                   blk |-> hwm]
    /\ UNCHANGED <<disk, csm, choice, queues, tick, tmpl, rpc, built, job, crashes>>

StartupResubmit ==
    /\ Up /\ startup.pc = "resubmit"
    /\ inbox' = Append(inbox, startup.blk)
    /\ startup' = [startup EXCEPT !.pc = "done"]
    /\ UNCHANGED <<disk, csm, choice, replay, tick, tmpl, rpc, built, job, crashes>>

-----------------------------------------------------------------------------
(* State indexing. *)

\* Mutant: the cutoff block goes as well.
RetainedMutant(b, cutoff) == Slot[b] < Slot[cutoff]

\* rollback_to_block: rows of the epoch above the cutoff slot, or beside the
\* cutoff block, go, and the last applied block with them.
Retained(b, cutoff) == Slot[b] < Slot[cutoff] \/ b = cutoff
RollbackRows(rs, e, cutoff) ==
    {b \in rs : Epoch[b] = e => Retained(b, cutoff)}
RollbackLast(la, e, cutoff) ==
    [la EXCEPT ![e] = IF @ # Null /\ Retained(@, cutoff) THEN @ ELSE Null]

\* The rollback of a rejected block b, to its parent.
RollbackRejected(b) ==
    /\ rows' = RollbackRows(rows, Epoch[b], Parent[b])
    /\ lastApplied' = RollbackLast(lastApplied, Epoch[b], Parent[b])

\* HighWatermarkBlockAction::Clear, in the order of its writes.
StartupRoll ==
    /\ Up /\ startup.pc = "roll"
    /\ RollbackRejected(startup.blk)
    /\ startup' = [startup EXCEPT !.pc = "drop"]
    /\ UNCHANGED <<status, hwm, olStates, summaries, canon, csm, choice, queues, tick,
                   tmpl, rpc, built, job, crashes>>

StartupDrop ==
    /\ Up /\ startup.pc = "drop"
    /\ summaries' = summaries \ {startup.blk}
    /\ startup' = [startup EXCEPT !.pc = "clear"]
    /\ UNCHANGED <<status, hwm, rows, lastApplied, olStates, canon, csm, choice, queues,
                   tick, tmpl, rpc, built, job, crashes>>

StartupClear ==
    /\ Up /\ startup.pc = "clear"
    /\ hwm' = IF hwm = startup.blk THEN Null ELSE hwm
    /\ startup' = [startup EXCEPT !.pc = "done"]
    /\ UNCHANGED <<status, rows, lastApplied, olStates, summaries, canon, csm, choice,
                   queues, tick, tmpl, rpc, built, job, crashes>>

-----------------------------------------------------------------------------
(* The FCM: one block.  process_fc_message, step by step between writes. *)

\* on_launch replays its candidates before the service takes any input, slot by
\* slot and within a slot in the order of the block store.
TakeReplay ==
    /\ At("idle")
    /\ \E b \in replay :
          /\ \A c \in replay : Slot[b] <= Slot[c]
          /\ job' = [pc |-> "exec", blk |-> b, pass |-> 1]
          /\ replay' = replay \ {b}
    /\ UNCHANGED <<disk, csm, choice, inbox, producer, crashes>>

TakeBlock ==
    /\ At("idle") /\ replay = {} /\ inbox # <<>>
    /\ job' = [pc |-> "exec", blk |-> Head(inbox), pass |-> 1]
    /\ inbox' = Tail(inbox)
    /\ UNCHANGED <<disk, csm, choice, replay, producer, crashes>>

(* exec_block: the STF, then the indexing rows; a block at or below the last
   applied slot conflicts unless it is the last applied block itself. *)
Executable(b) ==
    /\ b \notin Invalid
    /\ Parent[b] \in olStates
    /\ SlotOf(lastApplied[Epoch[b]]) < Slot[b] \/ lastApplied[Epoch[b]] = b

ExecIndex ==
    /\ At("exec") /\ Executable(job.blk)
    /\ rows' = rows \cup {job.blk}
    /\ lastApplied' = [lastApplied EXCEPT ![Epoch[job.blk]] = job.blk]
    /\ Goto("store")
    /\ UNCHANGED <<status, hwm, olStates, summaries, canon, csm, choice, queues,
                   producer, crashes>>

\* Mutant: the state of a terminal block is left to its epoch summary.
ExecStoreMutant ==
    /\ At("store")
    /\ olStates' = olStates \cup ({job.blk} \ Terminal)
    /\ Goto(IF job.blk \in Terminal THEN "summary" ELSE "valid")
    /\ UNCHANGED <<status, hwm, rows, lastApplied, summaries, canon, csm, choice,
                   queues, producer, crashes>>

ExecStore ==
    /\ At("store")
    /\ olStates' = olStates \cup {job.blk}
    /\ Goto(IF job.blk \in Terminal THEN "summary" ELSE "valid")
    /\ UNCHANGED <<status, hwm, rows, lastApplied, summaries, canon, csm, choice,
                   queues, producer, crashes>>

HasSummary(e) == \E t \in summaries : Epoch[t] = e

\* handle_terminal_block_exec_post_ops; the previous epoch must be summarised.
ExecSummary ==
    /\ At("summary") /\ HasSummary(Epoch[job.blk] - 1)
    /\ summaries' = summaries \cup {job.blk}
    /\ Goto("valid")
    /\ UNCHANGED <<status, hwm, rows, lastApplied, olStates, canon, csm, choice,
                   queues, producer, crashes>>

\* try_exec_block fails: for good, or anywhere for a local reason.
ExecFail ==
    /\ job.pc \in {"exec", "store", "summary"}
    /\ At("exec") /\ Executable(job.blk) => Transient
    /\ At("store") => Transient
    /\ At("summary") /\ HasSummary(Epoch[job.blk] - 1) => Transient
    /\ Goto("mark")
    /\ UNCHANGED <<disk, csm, choice, queues, producer, crashes>>

SetValid ==
    /\ At("valid")
    /\ status' = [status EXCEPT ![job.blk] = "Valid"]
    /\ Goto("apply")
    /\ UNCHANGED <<hwm, rows, lastApplied, olStates, summaries, canon, csm, choice,
                   queues, producer, crashes>>

(* pick_best_block: the current tip unless some tip is strictly higher, and
   then any of the highest, in the order the hash set yields them. *)
BestBlocks(cur, tips) ==
    LET higher == {b \in tips : Slot[b] > Slot[cur]}
    IN  IF higher = {} THEN {cur}
        ELSE {b \in higher : \A c \in higher : Slot[c] <= Slot[b]}

\* Mutant: the pivot's own row is replaced as well.
ReplaceSuffixMutant(cn, s, ids) ==
    [r \in Slots |-> IF r < s - 1 THEN cn[r]
                     ELSE IF r - s + 2 \in DOMAIN ids THEN ids[r - s + 2] ELSE Null]

\* replace_canonical_suffix_from: drop from slot s on, then write ids.
ReplaceSuffix(cn, s, ids) ==
    [r \in Slots |-> IF r < s THEN cn[r]
                     ELSE IF r - s + 1 \in DOMAIN ids THEN ids[r - s + 1] ELSE Null]

(* attach_block, pick_best_block, compute_tip_update and the in-memory part of
   apply_tip_update.  ExtendTip moves to the block being processed, the other
   cases to the last block of the path, or to the pivot when it is empty. *)
NewTip(u) ==
    IF u = NoUpdate THEN curBest
    ELSE IF u.down = <<>> /\ Len(u.up) = 1 THEN job.blk
    ELSE IF u.up = <<>> THEN u.pivot ELSE Last(u.up)
\* Mutant: the canonical suffix starts one block too late.
NewSuffixMutant(u) == IF u.up = <<>> THEN <<>> ELSE Tail(u.up)

NewSuffix(u) == IF u.down = <<>> /\ Len(u.up) = 1 THEN <<job.blk>> ELSE u.up

TipUpdates ==
    LET t == AttachBlock(tracker, job.blk)
    IN  {TipUpdate(t, curBest, best) : best \in BestBlocks(curBest, t.tips)}

\* ... and the write of the canonical suffix.
ApplyBlock ==
    /\ At("apply") /\ CanAttach(tracker, job.blk)
    /\ tracker' = AttachBlock(tracker, job.blk)
    /\ \E u \in TipUpdates :
          /\ curBest' = NewTip(u)
          /\ canon' = IF u = NoUpdate THEN canon
                      ELSE ReplaceSuffix(canon, Slot[u.pivot] + 1, NewSuffix(u))
    /\ Goto("post")
    /\ UNCHANGED <<status, hwm, rows, lastApplied, olStates, summaries, csm, pending,
                   published, queues, producer, crashes>>

\* An error of handle_new_block: process_fc_message takes the block for invalid.
Reject == job' = [job EXCEPT !.pc = "mark", !.pass = 2]

\* attach_block misses the parent (AttachMissingParent).
AttachFail ==
    /\ At("apply") /\ ~CanAttach(tracker, job.blk)
    /\ Reject
    /\ UNCHANGED <<disk, csm, choice, queues, producer, crashes>>

\* Where the tip may stand when a read, update_safe_tip or the canonical write
\* fails: it has not moved, or is anywhere on its way.
TipsOnTheWay(u) ==
    {curBest, NewTip(u)}
        \cup IF u = NoUpdate \/ NewSuffix(u) = <<job.blk>> THEN {} ELSE {u.pivot} \cup Range(u.up)

ApplyFail ==
    /\ Transient /\ At("apply") /\ CanAttach(tracker, job.blk)
    /\ tracker' = AttachBlock(tracker, job.blk)
    /\ \E u \in TipUpdates : curBest' \in TipsOnTheWay(u)
    /\ Reject
    /\ UNCHANGED <<disk, csm, pending, published, queues, producer, crashes>>

\* The write of the Valid status fails, or the rejection in handle_new_block.
LocalFail ==
    /\ Transient
    /\ \/ At("valid")
       \/ job.pc \in {"mark", "drop", "roll", "clear"} /\ job.pass = 1
    /\ Reject
    /\ UNCHANGED <<disk, csm, choice, queues, producer, crashes>>

-----------------------------------------------------------------------------
(* Finalization. *)

\* Mutant: the epoch just completed does not count yet.
FinalizableMutant(pend) ==
    LET prev == CurEpochAfter(curBest) - 1
        ok == {i \in DOMAIN pend : Epoch[pend[i]] < prev}
    IN  IF prev = 0 \/ ok = {} THEN Null
        ELSE pend[CHOOSE i \in ok : \A j \in ok : j <= i]

\* find_latest_pending_finalizable_epoch, or Null
Finalizable(pend) ==
    LET prev == CurEpochAfter(curBest) - 1
        ok == {i \in DOMAIN pend : Epoch[pend[i]] <= prev}
    IN  IF prev = 0 \/ ok = {} THEN Null
        ELSE pend[CHOOSE i \in ok : \A j \in ok : j <= i]

\* finalize_epoch succeeds: not older than the CSM's epoch, its state stored
\* (chain worker), and traceable (tracker).
CanFinalize(t, e) ==
    /\ e # Null
    /\ Epoch[e] >= Epoch[csmFin]
    /\ e \in olStates
    /\ Traceable(t, e)

\* clear_pending_epochs: entries are popped up to the first later epoch.
LaterPending(pend, e) ==
    LET later == {i \in DOMAIN pend : Epoch[pend[i]] > Epoch[e]}
        first == CHOOSE i \in later \cup {Len(pend) + 1} : \A j \in later : i <= j
    IN  SubSeq(pend, first, Len(pend))

\* handle_epoch_finalization on the pending queue pend
Finalization(pend) ==
    LET e == Finalizable(pend)
    IN  IF CanFinalize(tracker, e)
        THEN /\ tracker' = UpdateFinalized(tracker, e)
             /\ pending' = LaterPending(pend, e)
        ELSE /\ tracker' = tracker
             /\ pending' = pend

(* The end of process_fc_message for an accepted block: finalization, the
   published sync status, the status row once more.  Publishing needs the
   previous epoch's commitment; without it the service exits. *)
PostBlock ==
    /\ At("post")
    /\ Finalization(pending)
    /\ IF HasSummary(CurEpochAfter(curBest) - 1)
       THEN /\ published' = curBest
            /\ status' = [status EXCEPT ![job.blk] = "Valid"]
            /\ job' = Idle
       ELSE /\ Goto("down")
            /\ UNCHANGED <<published, status>>
    /\ UNCHANGED <<hwm, rows, lastApplied, olStates, summaries, canon, csm, curBest,
                   queues, producer, crashes>>

(* record_observed_finalized_epoch: queue an epoch ahead of the latest one
   observed in both number and slot.  The first one is taken as it is. *)
Observed == IF pending = <<>> THEN tracker.fin ELSE Last(pending)
Recorded ==
    IF /\ csmFin # tracker.fin /\ csmFin # Observed
       /\ \/ Slot[Observed] = 0
          \/ Epoch[csmFin] > Epoch[Observed] /\ Slot[csmFin] > Slot[Observed]
    THEN Append(pending, csmFin) ELSE pending

\* handle_new_state_update
StateUpdate ==
    LET looked == csmFin # tracker.fin /\ (Recorded # pending \/ csmFin = Observed)
        done   == looked /\ CanFinalize(tracker, Finalizable(Recorded))
    IN  /\ At("idle") /\ replay = {} /\ csmEvent
        /\ csmEvent' = FALSE
        /\ IF looked THEN Finalization(Recorded) ELSE UNCHANGED <<tracker, pending>>
        /\ IF done /\ ~HasSummary(CurEpochAfter(curBest) - 1)
           THEN Goto("down") /\ UNCHANGED published
           ELSE /\ published' = IF done THEN curBest ELSE published
                /\ UNCHANGED job
        /\ UNCHANGED <<disk, posted, csmState, csmFin, curBest, queues, producer, crashes>>

(* External: the checkpoint of a summarised canonical epoch is posted, in
   epoch order, and at some later L1 block the CSM declares it final.  The
   CSM publishes its client state while it processes an L1 block and its
   service monitor shows the new status only when that is done. *)
PostCheckpoint(t) ==
    /\ Running
    /\ t \in summaries /\ canon[Slot[t]] = t
    /\ Epoch[t] = Cardinality(posted) + 1
    /\ posted' = posted \cup {t}
    /\ UNCHANGED <<disk, csmState, csmFin, csmEvent, choice, queues, producer, job, crashes>>

CsmPublish ==
    /\ Running /\ csmFin = csmState
    /\ \E t \in posted \cup {csmState} :
          /\ Epoch[t] >= Epoch[csmState]
          /\ csmState' = t
    /\ csmEvent' = TRUE
    /\ UNCHANGED <<disk, posted, csmFin, choice, queues, producer, job, crashes>>

CsmMonitor ==
    /\ Running /\ csmFin # csmState
    /\ csmFin' = csmState
    /\ UNCHANGED <<disk, posted, csmState, csmEvent, choice, queues, producer, job, crashes>>

-----------------------------------------------------------------------------
(* Rejection: set_block_status_and_clear_invalid_high_watermark.  A failed
   execution runs it in handle_new_block and again in process_fc_message. *)

PassDone == job' = IF job.pass = 1 THEN [job EXCEPT !.pc = "mark", !.pass = 2] ELSE Idle

MarkInvalid ==
    /\ At("mark")
    /\ status' = [status EXCEPT ![job.blk] = "Invalid"]
    /\ Goto("drop")
    /\ UNCHANGED <<hwm, rows, lastApplied, olStates, summaries, canon, csm, choice,
                   queues, producer, crashes>>

\* Drop the block's epoch summary; go on only at the high-watermark.
DropSummary ==
    /\ At("drop")
    /\ summaries' = summaries \ {job.blk}
    /\ IF hwm = job.blk THEN Goto("roll") ELSE PassDone
    /\ UNCHANGED <<status, hwm, rows, lastApplied, olStates, canon, csm, choice,
                   queues, producer, crashes>>

RollIndex ==
    /\ At("roll")
    /\ RollbackRejected(job.blk)
    /\ Goto("clear")
    /\ UNCHANGED <<status, hwm, olStates, summaries, canon, csm, choice, queues,
                   producer, crashes>>

ClearHighWatermark ==
    /\ At("clear")
    /\ hwm' = IF hwm = job.blk THEN Null ELSE hwm
    /\ PassDone
    /\ UNCHANGED <<status, rows, lastApplied, olStates, summaries, canon, csm, choice,
                   queues, producer, crashes>>

-----------------------------------------------------------------------------
(* Crash and restart. *)

Crash ==
    /\ Running /\ crashes < MaxCrashes
    /\ crashes' = crashes + 1
    /\ job' = [Idle EXCEPT !.pc = "down"]
    /\ UNCHANGED <<disk, csm, choice, queues, producer>>

\* load_unfinalized_ol_blocks_async: valid blocks whose ancestors down to the
\* finalized tip are valid; unchecked ones are replayed.
Loaded == {b \in Block : /\ csmState \in Ancestors[b]
                         /\ \A a \in Above(csmState, b) : status[a] = "Valid"}
Stored(s) == {b \in Block : Slot[b] = s /\ status[b] # "none"}
\* Mutant: the scan starts one slot too high.
ReplayCandidatesMutant ==
    {b \in Block : /\ status[b] = "Unchecked" /\ Slot[b] > Slot[csmState] + 1
                   /\ \A s \in Slot[csmState] + 1 .. Slot[b] : Stored(s) # {}}

ReplayCandidates ==
    {b \in Block : /\ status[b] = "Unchecked" /\ Slot[b] > Slot[csmState]
                   /\ \A s \in Slot[csmState] + 1 .. Slot[b] : Stored(s) # {}}

\* determine_start_tip: highest slot, the canonical block first, else by id.
StartTips ==
    LET leaves == {b \in Loaded : \A c \in Loaded : Parent[c] # b}
        top == {b \in leaves : \A c \in leaves : Slot[c] <= Slot[b]}
        canonical == {b \in top : canon[Slot[b]] = b}
    IN  IF canonical # {} THEN canonical ELSE top

\* Mutant: the finalized tip itself is not looked at.
PivotsMutant(tip) == {a \in Above(csmState, tip) : canon[Slot[a]] = a}

\* canonical_blocks_from_tip: the highest block of the tip's chain that is
\* canonical already; none down to the finalized tip is an error.
Pivots(tip) == {a \in Above(csmState, tip) \cup {csmState} : canon[Slot[a]] = a}
Pivot(tip) == CHOOSE a \in Pivots(tip) : \A x \in Pivots(tip) : Slot[x] <= Slot[a]
ChainFrom(a, tip) ==
    [i \in 1..(Slot[tip] - Slot[a]) |-> CHOOSE x \in Ancestors[tip] : Slot[x] = Slot[a] + i]

\* reconcile_ol_state_indexing_to_target: the rows of blocks beside the tip's
\* chain in its epoch, of later epochs and above the tip go.
ReconcileRows(rs, tip) ==
    LET e == Epoch[tip]
        beside == {b \in Block : \E x \in Ancestors[tip] :
                      Epoch[x] = e /\ Slot[b] = Slot[x] /\ b # x}
    IN  RollbackRows({b \in rs : b \notin beside /\ Epoch[b] <= e}, e, tip)
ReconcileLast(la, tip) ==
    LET kept == ReconcileRows({la[f] : f \in Epochs} \ {Null}, tip)
    IN  [f \in Epochs |-> IF la[f] \in kept THEN la[f] ELSE Null]

(* init_fcm_service_state.  Everything in memory is lost; the tracker is
   loaded and the canonical index repaired, then the state indexing. *)
Restart ==
    /\ At("down")
    /\ csmFin' = csmState /\ csmEvent' = FALSE
    /\ tracker' = [fin |-> csmState, table |-> Loaded,
                   tips |-> {b \in Loaded : \A c \in Loaded : Parent[c] # b}]
    /\ \E tip \in StartTips :
         /\ curBest' = tip
         /\ IF Pivots(tip) = {}
            THEN Goto("failed") /\ UNCHANGED canon
            ELSE /\ canon' = ReplaceSuffix(canon, Slot[Pivot(tip)] + 1,
                                          ChainFrom(Pivot(tip), tip))
                 /\ Goto(IF tip \in olStates THEN "index" ELSE "failed")
    /\ replay' = ReplayCandidates
    /\ pending' = <<>> /\ inbox' = <<>>
    /\ published' = Null /\ tick' = Null
    /\ tmpl' = [b \in Block |-> NoTemplate]
    /\ rpc' = [b \in Block |-> "none"]
    /\ startup' = Unstarted
    /\ UNCHANGED <<status, hwm, rows, lastApplied, olStates, summaries, posted, csmState,
                   built, crashes>>

ReconcileIndex ==
    /\ At("index")
    /\ rows' = ReconcileRows(rows, curBest)
    /\ lastApplied' = ReconcileLast(lastApplied, curBest)
    /\ job' = Idle
    /\ UNCHANGED <<status, hwm, olStates, summaries, canon, csm, choice, queues, producer,
                   crashes>>

-----------------------------------------------------------------------------
FcmStep ==
    \/ TakeReplay \/ TakeBlock \/ ExecIndex \/ ExecStore \/ ExecSummary \/ ExecFail
    \/ SetValid \/ ApplyBlock \/ AttachFail \/ ApplyFail \/ LocalFail \/ PostBlock \/ StateUpdate
    \/ MarkInvalid \/ DropSummary \/ RollIndex \/ ClearHighWatermark

ProducerStep ==
    \/ ResolveTip \/ GenerateTemplate \/ SignBlock
    \/ \E p \in Block : ExpireTemplate(p)
    \/ \E b \in Block : StoreBlock(b) \/ SubmitBlock(b)
    \/ StartupDecide \/ StartupResubmit \/ StartupRoll \/ StartupDrop \/ StartupClear

CsmStep == CsmPublish \/ CsmMonitor \/ \E t \in Terminal : PostCheckpoint(t)

Next == FcmStep \/ ProducerStep \/ CsmStep \/ Crash \/ Restart \/ ReconcileIndex

Spec == Init /\ [][Next]_vars

(* Fairness.  The FCM task keeps running and its select takes either input;
   the generation tick and the signer's polling recur; an RPC call runs to its
   end; L1 blocks keep coming, each of them a CSM update; a stopped node is
   started again.  Nothing makes a template expire or a checkpoint final. *)
FairSpec ==
    /\ Spec
    /\ WF_vars(TakeReplay) /\ WF_vars(TakeBlock) /\ WF_vars(StateUpdate)
    /\ WF_vars(FcmStep /\ ~At("idle"))
    /\ WF_vars(ResolveTip) /\ WF_vars(GenerateTemplate) /\ WF_vars(SignBlock)
    /\ \A b \in Block : WF_vars(StoreBlock(b)) /\ WF_vars(SubmitBlock(b))
    /\ WF_vars(StartupDecide \/ StartupResubmit \/ StartupRoll \/ StartupDrop \/ StartupClear)
    /\ WF_vars(CsmPublish) /\ WF_vars(CsmMonitor)
    /\ WF_vars(Restart) /\ WF_vars(ReconcileIndex)

-----------------------------------------------------------------------------
(* Properties. *)

\* The block store never holds two blocks of one slot that the node could
\* both build on: the high-watermark check of put_block_data_with_high_watermark
\* admits a second block at a slot only once the first one is Invalid.
OneLiveBlockPerSlot ==
    \A a, b \in Block : a # b /\ Slot[a] = Slot[b] =>
        ~({status[a], status[b]} \subseteq {"Unchecked", "Valid"})

\* The canonical index lists exactly the chain of the FCM's tip: no gap, no
\* row above the tip, no block of an abandoned branch.
CanonicalIsTipChain ==
    Up => \A s \in Slots :
             canon[s] = IF s <= Slot[curBest]
                        THEN CHOOSE x \in Ancestors[curBest] : Slot[x] = s ELSE Null

\* Between two blocks what execution leaves behind, index rows and epoch
\* summaries, is that of the tip's chain: a rejected block leaves nothing, and
\* cleaning up after it removes nothing of another block.
ExecutionMatchesTip ==
    At("idle") /\ replay = {} /\ startup.pc = "done" =>
        /\ rows = Ancestors[curBest]
        /\ summaries = Terminal \cap Ancestors[curBest]

\* The finalized block stays below the tip the FCM builds on, and what the CSM
\* has finalized is canonical, so the node can always start again from it.
FinalizedIsCanonical ==
    /\ canon[Slot[csmState]] = csmState
    /\ Up => tracker.fin \in Ancestors[curBest]

\* Every block stored above the finalized one and not yet decided is on its way: its RPC
\* call still has to submit it, or it waits in the channel or among the replay
\* candidates, or the FCM works on it.
NoBlockForgotten ==
    Up => \A b \in Block : status[b] = "Unchecked" /\ Slot[b] > Slot[tracker.fin] =>
             \/ rpc[b] = "stored" \/ job.blk = b
             \/ \E i \in DOMAIN inbox : inbox[i] = b
             \/ b \in replay

\* A block is marked Valid only with its post-state on disk, which is what
\* init_fcm_service_state and revert_ol_state_to_block read.
ValidHasState ==
    \A b \in Block : status[b] = "Valid" => b \in olStates

\* Nothing that earlier steps left behind makes the FCM fail:
\* init_fcm_service_state starts from whatever is on disk, and attach_block
\* finds the parent of every block that was executed, since finalization,
\* eviction and the blocks loaded at a restart never leave a hole under it.
FcmNeverFails == ~At("failed") /\ (At("apply") => CanAttach(tracker, job.blk))

\* The tip can be traced to the finalized block in the tracker, so the next
\* compute_tip_update finds a path from it; finalization never evicts it.
TipIsTracked ==
    Up => Traceable(tracker, curBest)

\* Every stored block is decided in the end, also when the node crashed between
\* storing it and executing it.
StoredIsDecided ==
    \A b \in Block : status[b] = "Unchecked" ~> status[b] \in {"Valid", "Invalid"}

\* Production does not get stuck behind a tombstone or the high-watermark: in
\* the end a template has been made of every block that could extend the tip.
ProductionContinues ==
    []<>(\A b \in Block : Parent[b] = CanonTip => b \in built)

\* The FCM catches up with what the CSM has finalized, although it may wake up
\* and read the monitor before the monitor shows the new state.
FinalityCatchesUp ==
    \A t \in Terminal : csmState = t ~> Slot[tracker.fin] >= Slot[t]

-----------------------------------------------------------------------------
(* The node implements the abstract chain. *)
Chain == INSTANCE OLChain WITH tip <- CanonTip, fin <- tracker.fin

\* The canonical index and the finalized block of the tracker behave like the
\* abstract OL chain, crashes and restarts included.
ImplementsChain == Chain!Spec
=============================================================================
