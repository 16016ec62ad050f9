# A TLA+ model of the Alpen node

This directory holds a verification development for the Alpen rollup node: TLA+
modules that model its components, TLC configurations that check them on small
instances, and proofs checked by TLAPS.  Every definition is translated from the
Rust sources under `src/`; `PROJECT.json` maps each one to the lines it models.

## The system and its parts

| Part | State | Operations | What makes it hard |
| --- | --- | --- | --- |
| Block production (`bin/strata/src/sequencer`, `ol/block-assembly`, `ol/sequencer`) | template cache, block high-watermark | generation tick, duties, signing RPC, startup treatment of the high-watermark | several calls per block, expiry, crash after the store |
| OL block store and indexes (`db/store-sled/src/ol*`) | blocks with a status, canonical index, state-indexing rows, epoch summaries | conditional writes, suffix replacement, rollback | several tables written one after the other |
| Chain worker (`chain-worker`) | post-states, epoch summaries | execute, finalize, apply a checkpoint | partial writes before an error |
| Fork choice manager, FCM (`consensus-logic/src/fcm`) | unfinalized tracker, best block, epochs pending finalization | new block, state update, startup with replay | failure at each step, duplicates, finality ahead of execution |
| Client state machine, CSM (`csm-worker`) | client state, last checkpoint | ASM status update | L1 reorganisations, restart |
| L1 broadcaster (`btcio/src/broadcaster`) | tracked entries, read cursor | publish, probe, confirm | notification against scan, reorgs, RPC errors |
| L1 writer (`btcio/src/writer`) | intents, payload entries | bundle, sign, watch, rebuild | external signer, dropped commits, crash between writes |
| Chunked envelopes (`btcio/src/writer/chunked_envelope`) | envelope entries, forward frontier | submit, sign, enqueue reveals, confirm | ordering of entries across failures |
| Prover (`prover-core`, `paas`) | task records, in-flight set | submit, tick, recover, run | retries, blocked tasks, restart |
| Checkpoint worker (`ol/checkpoint`) | last processed epoch | new epoch summary | missed notifications |
| Checkpoint sync (`consensus-logic/src/checkpoint_sync`) | last applied epoch | follow L1 checkpoints | reorgs, gaps |
| EE chain tracking (`alpen-ee/exec-chain`) | unfinalized tree, orphans | new block, OL consensus update | orphans, finality of another branch |
| EE sequencer (`alpen-ee/sequencer`) | batches, chunks, OL chain view | seal, post DA, prove, submit | crash between steps, EE reorgs |
| OL tracker of the EE (`alpen-ee/ol-tracker`) | tracked OL state | poll, reorg | fork point search |
| Mempool (`ol/mempool`) | transactions by account | submit, remove, block committed | ordering by sequence number |
| State transition functions, codecs, proofs circuits | pure functions | | out of scope: data, not control |

## How the parts interact

The sequencer node is a set of tasks around a database.  A generation tick builds
a block template on the tip the fork choice manager (FCM) has published; a signer
polls for it and returns a signature; the signing RPC stores the block under the
high-watermark and sends its id to the FCM; the FCM has the chain worker execute
it, attaches it to the tracker, and moves the canonical index.  Checkpoints of
finished epochs go to L1 through the L1 writer (or, for DA blobs, through chunked
envelopes), which build a commit and reveal transactions and hand them to the L1
broadcaster; the broadcaster publishes them and follows their confirmations.  L1
blocks come back through the ASM and the client state machine (CSM), whose
finalized epoch the FCM takes over.  Each arrow in this chain is a channel, a
watch or a database row that another task reads later, and every task may stop
between two writes.

## Modules

| Module | Models |
| --- | --- |
| `OLBlockTree` | the blocks that may ever be built: parents, slots, epochs, terminal blocks |
| `UnfinalizedTracker` | `UnfinalizedBlockTracker` and `compute_tip_update` as operators on a tracker record |
| `BlockTracker` | the tracker as a component of its own: attach and finalize in any order |
| `ForkChoice` | production, storage, execution and fork choice of a sequencer node, with crashes |
| `OLChain` | the abstract chain that `ForkChoice` implements |
| `BroadcastTable` | the broadcaster's rows as its clients see them |
| `L1Broadcaster` | the L1 broadcaster service, its clients and the Bitcoin node |
| `ChunkedEnvelope` | the chunked-envelope watcher |
| `L1Writer` | intent submission, the bundler, the payload watcher and the signing RPC |
| `ProofService` | what a prover promises to the components that use it |
| `Prover` | `prover-core` as `paas` runs it: task store, attempts, retries, recovery, remote jobs |
| `CheckpointPipeline` | checkpoint runner, checkpoint worker, signing call and startup cleanup, on a `ProofService` |
| `L1Reader` | the Bitcoin client, the L1 reader and the ASM worker |
| `CsmWorker` | the client state machine worker on top of the reader |
| `CheckpointSync` | checkpoint sync on top of the CSM worker |
| `L1Follower` | the three of them as one node, with crashes |
| `UnfinalizedTrackerProofs`, `BlockTrackerProofs`, `ForkChoiceProofs`, `EnvelopeProofs`, `L1WriterProofs`, `ProverProofs`, `CheckpointProofs` | theorems and proofs |
| `MCTree` and the other `MC*` modules | instances for TLC |

Definitions whose name ends in `Mutant` are deliberately wrong variants of the
definition that follows them.  No specification uses them; they exist to show
that each property notices a plausible mistake in the code it is about
(`PROJECT.json`, "mutants").

### Blocks, tracker and fork choice

A block id is the hash of its header, so parent, slot, epoch and the terminal
flag are constants of `OLBlockTree`; a node only chooses which blocks of the tree
it builds.  `Invalid` is the set of blocks the state transition function rejects.

`UnfinalizedTracker` keeps the tracker's fields: `table` (pending blocks),
`tips`, `fin`.  `AttachBlock`, `UpdateFinalized` (with `Evicted` and
`FinalizedPath`) and `TipUpdate` translate `attach_block`,
`update_finalized_epoch` and `compute_tip_update`; the search limit of the last
is `ReorgLimit`.

`ForkChoice` divides the state as the process does.  On disk: the status of a
block, the high-watermark, state-indexing rows and the last applied block of an
epoch, post-states, epoch summaries, the canonical index.  In memory: the tracker
and best block, epochs pending finalization, replay candidates, the FCM channel,
the published sync status, the template cache, the running signing calls.  Each
action is one atomic database call or one uninterrupted stretch of code.

| Code | Actions |
| --- | --- |
| generation tick of the sequencer | `ResolveTip`, `GenerateTemplate` |
| signing duty and `complete_block_template` | `SignBlock`, `StoreBlock`, `SubmitBlock` |
| startup treatment of the high-watermark | `StartupDecide`, `StartupRoll`, `StartupDrop`, `StartupClear`, `StartupResubmit` |
| `process_fc_message` for a new block, with the chain worker's execution | the `job.pc` chain `exec`, `store`, `summary`, `valid`, `apply`, `post`, and `mark`, `drop`, `roll`, `clear` for a rejected block; its error paths are `ExecFail`, `LocalFail`, `AttachFail`, `ApplyFail` |
| FCM state updates and finalization | `StateUpdate` |
| CSM | `CsmPublish`, `CsmMonitor`, `PostCheckpoint` (L1, external) |
| process | `Crash`, `Restart`, `ReconcileIndex` |

`Transient` lets any FCM step also fail for a local reason (a database or worker
error): execution and its writes (`ExecFail`), the write of the Valid status or
one of the writes of a rejection (`LocalFail`), and the tip update after the
block was attached, which may leave the best block anywhere on its way
(`ApplyFail`).  A block whose parent the tracker has lost cannot be attached
(`AttachFail`, with or without `Transient`).  The code marks such a block Invalid
like one the state transition function rejects, as its TODO (STR-2141) says, and
an error in the rejection itself rejects once more (`Reject`); the properties
about the canonical chain are not claimed under `Transient`, only those of
`fork_choice_faults`.  An error that leaves the FCM's loop is the state `down`; a
failing initialisation is `failed`.  `SlowRpc` lets a signing call outlive its
template; it is on only in `fork_choice_faults`.

### L1 broadcaster

`db` is the table in index order, `tracked` the list `unfinalized_entries`,
`inbox` the notifications, `pass` the pass under way.  A pass asks the node about
every tracked entry, then writes the new statuses one by one, then scans new
rows; a client's `put_tx_entry` and its notification are separate steps that
interleave with it.  Transactions in `Direct` are the envelope commits, whose
client sends them itself and records the result.  A client may also store the same entry
again (`PutTxEntryAgain`).  `net` is the node: a number of confirmations,
negative (`Side`) for a transaction in conflict with a mined one, `Unknown`, or
`Spent` when moreover its inputs are gone for good.  The Bitcoin node, its mempool policy and
reorgs are external.

### Chunked envelopes and L1 writer

Both work against `BroadcastTable`, the abstraction of the broadcaster: a row is
`None` until stored, then moves through the broadcaster's statuses, back when a
reorg or a lost transaction makes it, and to `InvalidInputs` when refused.  The
attempt number `att` stands for the txids of a row, so a re-signed envelope or a
rebuilt payload has rows of its own.

In `ChunkedEnvelope` one pass of the watcher is the `job.pc` chain: `reconcile`
the active envelopes against the table, `enqueue` reveals one by one, read the
`full` status of commit and reveals row by row, `write` the status, `advance` the
frontier, and for the next unsigned envelope `put`, `send`, `record` and `readback` of its
commit.  `SmallPackage` says whether commit and reveal fit the descendant size
limit; `SameTx` whether signing again may produce the very same transactions.  A
watcher error ends its task and nothing else (`EndWatcher`): the process and its
broadcaster go on, and only a restart of the process (`Recover`) brings the
watcher back.

In `L1Writer` submitting calls (`call`), the bundler (`pending`, `work`), the
watcher (`job`, with the row it has read) and the signing RPC (`signer`, with the
row *it* has read) are separate actors over the payload rows.  The signing call
checks the sighash of the row it has read and writes that whole row back later,
so the signature may belong to another attempt than the reveal it is put into;
`misfit` holds the attempts with such a reveal, and the node refuses them.
`Rotate` is a change of the signing mode, enabled by `Rotates`.

### Prover and checkpoint pipeline

In `Prover` every attempt at a task is an actor of its own (`run`), and attempt 0
is the recovery that the service's first tick does.  An update of the task store
reads the row and writes it back in two steps (`Then`, `Update`), so two attempts
at one task may overwrite each other; `lost` records when that happened.  Remote
jobs and the receipt store outlive the process.  The task store itself does not
fail.  `ProofService` is the abstract specification, and `CheckpointPipeline` is
written against it instead of against `Prover`.

In `CheckpointPipeline` a commitment is a pair of an epoch and the rank of its
terminal block in the summary table, so an epoch can complete a second time with
another block.  `runner` and `worker` are the two services with the message each
has in its channel, `duty` the epoch the signer has taken a duty for, `call` the
signing RPC between its two writes (it reads the canonical commitment of the
duty's epoch again), `start` the
deletion of everything past the ASM's verified epoch at startup.  Only the last
epoch is replaced, and only while no checkpoint of it has been posted.

### Following L1

`L1Reader` keeps the Bitcoin client's tree and best block, the canonical chain
the reader has stored and the queue to the ASM worker; a scan fetches one block
per step, between which the client may reorganise.  `CsmWorker` keeps one client
state row per block, the observations of checkpoints, and the worker's recent
blocks; rewind, gap replay, commit and the replay of stored ASM states at startup
are steps that a crash may separate.  The worker publishes a client state before
its own status names the finalized checkpoint (`ReportStatus`), and checkpoint
sync, woken by the former, reads the latter.  `CheckpointSync` walks back from
the finalized checkpoint to the first applied epoch, one epoch per step, then
applies forward.
`L1Follower` starts them in the order of the node and adds the crash.  The first
start of a fresh node at the L1 genesis block is left out.

## What the runs check

| Run | Question | Properties | Distinct states |
| --- | --- | --- | --- |
| `tracker` | are tips, eviction and tip updates right on a tree with two epochs that compete? | `TipsAreLeaves`, `TipUpdateIsPath`, `FinalizeKeepsDescendants` | 118 |
| `fork_choice` | does the node keep one chain, consistent on disk and in memory, under two crashes? | `OneLiveBlockPerSlot`, `ExecutionMatchesTip`, `FinalizedIsCanonical`, `CanonicalIsTipChain`, `FcmNeverFails`, `ImplementsChain` | 294,446 |
| `fork_choice_faults` | what still holds when steps also fail for a local reason and signing calls come late? | `NoBlockForgotten`, `ValidHasState`, `TipIsTracked` | 388,723 |
| `fork_choice_live` | is every stored block decided, and do production and finality go on? | `StoredIsDecided`, `ProductionContinues`, `FinalityCatchesUp` | 8,566 |
| `broadcaster` | does an unsettled entry slip out of the tracked list; does final mean deep? | `NoEntryForgotten`, `FinalizedIsDeep` | 4,282,403 |
| `broadcaster_live` | does every stored entry settle? | `EntrySettles` | 145,913 |
| `envelope` | are envelopes signed in order, complete when final, and never lost? | `FinalizedIsComplete`, `RevealsWaitForCommit`, `AcceptedIsRecorded`, `SignedInOrder`, `EnvelopeFinalizes` | 135,317 |
| `writer` | are payloads worked off, and intents bundled, in order? | `EarlierAreFinal`, `BundledInOrder` | 1,471,980 |
| `writer_live` | does an intent reach L1, and is a payload final only when its reveal is? | `FinalIsOnL1`, `IntentIsPosted` | 22,068 |
| `prover` | do overlapping attempts keep the promises of the proof service? | `CompletedHasProof`, `RetriesAreEarned`, `TaskSettles`, `WaiterIsAnswered`, `ImplementsProofService` | 128,321 |
| `checkpoints` | does every epoch reach L1, in order, and without a proof of an old image? | `PostedInOrder`, `NoStaleProof`, `UnsignedIsIndexed`, `EpochIsAccepted` | 108,903 |
| `follower` | does the node follow the client through reorgs and crashes, and is what it calls final on the chain? | `KeepsRunning`, `FinalIsOnChain`, `NoCkptSkipped`, `FollowsClient` | 263,969 |

The `TypeOK` of each specification is not a property of a run.  That of
`ForkChoice` and of `BlockTracker` is proved (`TypeCorrect`); in the other
modules with proofs, the types are the first conjuncts of the inductive
invariants.

### Bounds

* Trees (`MCTree`): the tracker's tree has two branches that both end an epoch
  and a fork above one of them, so eviction meets a competing epoch and a sibling.
  The tree of `fork_choice` offers a valid and an invalid block at two slots and
  two epochs in sequence, so a rejection happens at a first block, at a terminal
  block, and before a further epoch.  `fork_choice_faults` drops the second
  choice at slot 2; the live run uses the shortest tree.
* `MaxCrashes` is 2 without faults: the second crash can hit the recovery from
  the first.  It is 1 where faults add their own interruptions.
* `MaxTroubles` bounds RPC faults, drops, reorgs, refusals, mode changes and (in
  the L1 modules) crashes together.  The broadcaster's live run allows four, the
  others one at any point.  What needs more is not covered by the runs; the
  proofs of envelopes, writer and prover have no such bound.
* `Depth` 2 or 3 stands for `l1_reorg_safe_depth`: Confirmed and Finalized are
  distinct, and there is a block in between.
* Envelopes: two, of one reveal each, over the size limit of a package.  The
  safety properties were also checked with a first envelope of two reveals
  (913,824 states) and for small packages (304,168).
* Writer: two intents and two calls, which may carry the same intent, with a
  fixed signing mode; the live run has one of each and lets the mode change.
* Prover: one task, one attempt beside the recovery, natively and with a remote
  prover, with one failure and one crash.
* Checkpoints: two epochs, the first of which can complete twice, two images and
  one crash.  The safety properties were also checked on three epochs (95,121)
  and with two crashes (327,684).
* Follower: five blocks above the root on two branches, one reorg, one crash or
  failed call.  The safety properties were also checked on a tree of seven blocks
  above the root (1,765,201) and with two reorgs and `SafeDepth` 2 (890,842).

### Fairness

Every fairness condition but one is weak and stands for a task that keeps
running: a timer that ticks, a channel that is drained, a call that returns, a
process that is restarted.  The strong condition is on the broadcaster taking a
notification, whose `select` chooses between two ready inputs.  Blocks are mined,
remote jobs end, posted checkpoints are accepted, and the signer polls; nothing
forces a template to expire, a checkpoint to be posted on L1 in `ForkChoice`, a
reorg, or a fault.  In `L1Follower` all steps of the node and the mining share
one weak condition: its actors are event-driven, and each of them stops by
itself when there is nothing to do.

### Assumptions about the environment

* `fork_choice` and `fork_choice_live` assume that no step of the FCM fails for a local
  reason and that no signing call outlives its template (`Transient` and
  `SlowRpc` are false); see Findings for what happens otherwise.
* A checkpoint is posted only for a terminal block with a summary on the canonical
  chain: this is what the checkpoint worker submits.
* Reorgs do not exceed the safe depth.  In the broadcaster, the last of `Depth`
  blocks does not overtake a notification that is still in the channel.
* The node may refuse an unknown transaction by policy.
* `NoEntryForgotten` and `EntrySettles` except an entry whose client was told that
  its transaction is refused, and `EntrySettles` one that stays in conflict; see
  Findings.
* `EnvelopeFinalizes` excepts a watcher that has ended and whose process is not
  started again.
* A signing duty under way when the node stops fails with the signer's
  connection.  A duty that outlived a crash, a new image and the proving of all
  epochs again would violate `PostedInOrder`.
* `FollowsClient` excepts what only the next L1 block makes good: a status that
  the worker gave up because it could not fetch an L1 block, and checkpoint sync
  when it read the worker's status too early.
* `FinalityCatchesUp` assumes that L1 blocks keep coming, so that the CSM goes on
  publishing.
* One process submits envelopes, and there is one signer.  The signing duty is
  offered only for rows without a signature.
* A commit's row is stored before its reveal's, so the broadcaster sends it first.
* An envelope built in process has fresh txids each time.
* `BundledInOrder` is claimed while no intent is stored twice, `EarlierAreFinal`
  without a change of the signing mode, `FinalIsOnChain` while the canonical
  chain is linked, `NoCkptSkipped` while the worker's recent blocks are; the
  prover's liveness excludes tasks that a crash left unscheduled and updates that
  another attempt overwrote.  Each condition is there because the property fails
  without it, as told under Findings.

## Findings

What the models showed when a condition above is dropped.  None of these is a
run; each was found with TLC on the instance named.

* Local failures (`Transient`).  A block that fails for a local reason after it
  was attached stays in the tracker, and may be the tip, though it is marked
  Invalid; a child built on it cannot be attached after a crash.  With two crashes, a
  block rejected so whose checkpoint was posted and finalized makes startup fail.
* Late signing calls (`SlowRpc`).  Clearing the high-watermark resets it to none.
  A signing call that is still under way can then store a block below the
  accepted tip, and the rollback after its rejection removes index rows of
  accepted blocks; the comment in `fcm/service.rs` says those rows "can only be
  its own".
* Broadcaster.  A pass writes the status it computed over `InvalidInputs` that a
  client recorded meanwhile, and the notification then drops the entry from the
  tracked list; the row stays unsettled and unchecked until a restart.  An entry
  whose transaction stays in conflict with a mined one keeps the status Published
  for ever.
* Envelopes.  A comment in `handle.rs` says that "once an entry's commit is
  accepted by bitcoind or known invalid, later entries may be signed" (588-589, and
  likewise 323-325).  In the code a refused commit leaves its envelope at the
  frontier, and no later one is signed until that envelope has been signed again
  and accepted.  `SignedInOrder` states what the code does.
* Prover.  A crash between the two writes of `schedule_retry` leaves a task that
  is never retried, although `task.rs` documents the status as "Temporary
  failure; will be retried after backoff."  A checkpoint task that failed for
  good is never submitted again by the runner, although its log line says "will
  retry".
* Writer.  Two calls that submit one intent at once store it twice; with another
  intent in between, bundling is out of order.  With a change of the signing mode, a
  signing call that read its row before the change may write it back after the
  payload became final, behind the watcher's cursor.
* L1 reader.  When the client reorganises between two fetches of one scan, the
  stored canonical chain is not linked; `find_pivot_block` stops at the highest
  match and does not repair it.  A checkpoint of an abandoned block can then
  become final.  The reader leaves continuity to the ASM ("Chain continuity
  validation happens in the ASM STF's PoW verification").
* CSM worker.  An orphan's ASM state, replayed at a restart or taken from a stale
  status, is committed over the canonical block of its height.  When a checkpoint
  was mined on both branches, its observation then names the orphan, it is never
  finalized, and checkpoint sync ends with `MissingPredecessor`; `KeepsRunning`
  excludes exactly this case (`Displaced`).  When the reader reorganises while the
  worker replays a gap, a canonical block may never be processed.  The comment of
  `commit_block`, "It never skips a height", fails with two reorgs and holds with
  one.
* The documentation of `calculate_pivot_and_reorg` says it errors if the pivot
  lies "at or below the finalized anchor (index 0)"; the code accepts index 0.

## What is proved

TLAPS checks the following for every value of the constants that satisfies the
assumptions of the modules (named `...Assumption` there).  The bounds on crashes,
troubles and attempts are arbitrary numbers in them.

* `UnfinalizedTrackerProofs`: ancestors are reflexive, transitive and totally
  ordered by slot.  With no induction over data available, each lemma takes a
  block of the lowest slot among the counterexamples (`LowestBlock`) and shows
  that its parent is one too.  The walks of `compute_tip_update` are described by
  what they have seen after n steps (`Walked`), two walks that met are cut where
  they join (`Joined`), and the result leads from one block to the other
  (`Leads`).
* `BlockTrackerProofs`: `TipsCorrect`, `FinalizeCorrect`, `TipUpdateCorrect` and
  `TypeCorrect`.  `TipsAreLeaves` is not inductive: eviction works on `table`,
  while the claim is about what can be traced to `fin`.  The inductive invariant
  `IInv` adds `Connected`: a tracked block that has `fin` among its ancestors has
  its whole chain down to `fin` in the table, and so being live is the same as
  descending from `fin` (`LiveOfConnected`).
* `ForkChoiceProofs`, whatever `Transient`, `SlowRpc` and the number of crashes:
  `ValidStateStored`, `StoredBlockPursued` and `TypeCorrect`.  A status is written
  after the state, but in another step; `StateInv` adds that the FCM holds a block
  in one of the steps `PastExecution` only when its state is on disk.
  `NoBlockForgotten` needs `KnownInv`, one group per part of the state: every
  block that the node refers to (canonical index, queues, job, tips, templates,
  running calls, start of the producer) is in the store, and so is its parent.  `Pursued` then
  extends the claim to the time between a restart and the reconciled index.
* `EnvelopeProofs`: `SigningIsOrdered`, `FinalEnvelopeIsComplete`,
  `RevealsFollowCommit` and `AcceptedCommitIsRecorded`.  `EnvelopeInv` says where
  the frontier is; `TrackInv` adds what the watcher has already read or written
  in the pass under way, since each row is read in a step of its own.
* `L1WriterProofs`: `BundlingIsOrdered`, `FinalPayloadIsOnL1`, and
  `EarlierPayloadsAreFinal` when the signing mode does not change.  `WriterInv`
  follows every index to the bundler, `PayloadInv` relates rows, the watcher's copy,
  the signer's copy and the table, and `OrderInv` says that a signing call holds
  a row only while that row is open.  Intents and callers are finite sets.
* `ProverProofs`: `CompletedIsProved`, the refinement `ProverImplementsService`,
  and `RetryBudgetIsKept`.  `ProofInv` constrains what an attempt may still write
  (`MayWrite`); `RetryInv` bounds the counters in rows, in attempts, and in the
  list of the recovery.
* `CheckpointProofs`: `NoOldProofUsed`, `PostingIsOrdered` and `IndexIsComplete`,
  from `PipelineInv`: the tables agree with each other, what a service has in hand
  was summarized, a proof or payload past the verified epoch is of the current image
  once startup has cleaned up, and every epoch below a payload is covered.

Each inductive invariant was checked with TLC on instances like those of the runs
before its proof.

Only model-checked:

* all liveness properties, which are out of the prover's reach;
* `NoEntryForgotten` and `FinalizedIsDeep` of `L1Broadcaster`, whose pass rewrites
  the tracked list as a sequence, element by element, and filters it;
* the properties of `L1Follower`, which speak of chains as recursively defined
  sequences: what they say of every chain needs an induction over data;
* the properties of `fork_choice`, its refinement of `OLChain` included, and
  `TipIsTracked`: they describe the whole state of the node by its last valid
  block, and an invariant for that has a case for every step of every task.

## What is not modelled

State transition functions, codecs, proof circuits and RPC formats are data, not
control.  Fee estimation, coin selection and transaction building are reduced to
whether an attempt yields new transactions.  `PROJECT.json` gives, for each part
of the repository without a module, the reason, and the hazards seen in it.  The
main ones are the execution environment (chain tracking with its orphans, batch
and chunk builders, batch lifecycle, OL tracker), the mempool and the MMR index.
The CSM of `ForkChoice` is external there; `L1Follower` models the CSM of a node
that follows L1, and the two are not composed.  The number of published payloads
that the writer reports (`update_l1_status`) is not modelled.
