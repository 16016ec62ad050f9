----------------------------- MODULE L1Follower -----------------------------
(***************************************************************************)
(* A node that follows Bitcoin: the reader, the ASM worker, the client     *)
(* state machine worker and checkpoint sync, started in the order of       *)
(* start_strata_services, with crashes of the node.                        *)
(***************************************************************************)
EXTENDS CheckpointSync

vars == <<readerVars, csmVars, cssVars>>

Init == ReaderInit /\ CsmInit /\ CssInit

\* A crash loses all but the database.
Crash ==
    /\ faults < MaxFaults
    /\ csm.pc # "off"
    /\ faults' = faults + 1
    /\ reader' = ReaderOff /\ asmq' = <<>> /\ status' = None
    /\ csm' = CsmOff /\ backlog' = <<>> /\ monitor' = None /\ csmNews' = FALSE
    /\ css' = CssOff /\ worker' = None
    /\ UNCHANGED <<clientVars, canon, asm, rows, obs, applied>>

ReaderStep ==
    \/ csm.pc \notin {"off", "starting", "failed"} /\ ReaderStart
    \/ ResubmitTip \/ DetectReorg \/ StartScan \/ FetchBlock \/ FetchFails
    \/ HandleRevert \/ HandleBlock \/ SubmitBlock

AsmStep == AsmStore \/ AsmReport

CsmStep ==
    \/ CsmStart \/ DeleteOrphanAtStart \/ CsmStarted
    \/ CsmInput \/ CsmStatus \/ CsmPivot \/ DeleteOrphan \/ CsmRewound
    \/ ReplayBlock \/ ReplayFails \/ L1FetchFails \/ CommitBlock \/ ReportStatus

CssStep == CssStart \/ CssInput \/ ScanEpoch \/ CssApply \/ CssFinalize

NodeStep ==
    \/ (ReaderStep \/ AsmStep) /\ UNCHANGED <<csmVars, cssVars>>
    \/ CsmStep /\ UNCHANGED cssVars
    \/ CssStep

Next ==
    \/ NodeStep
    \/ (MineBlock \/ ClientReorg \/ ClientFallsBack) /\ UNCHANGED <<csmVars, cssVars>>
    \/ Crash

Spec == Init /\ [][Next]_vars

(* Fairness: the node does not rest while one of its tasks has something to
   do, and the client does not rest on a block that has children.  Nothing is
   assumed of reorgs, of crashes, or of which task is scheduled first. *)
FairSpec ==
    /\ Spec
    /\ WF_vars(NodeStep \/ (MineBlock /\ UNCHANGED <<csmVars, cssVars>>))

-----------------------------------------------------------------------------
\* Each block of a sequence is the parent of the next.
Linked(seq) == \A i \in DOMAIN seq : i > 1 => Chain[seq[i]] = Append(Chain[seq[i-1]], seq[i])

\* The reader, the two workers and checkpoint sync stay within their types.
TypeOK == ReaderTypeOK /\ CsmTypeOK /\ CssTypeOK

\* The checkpoints of canonical blocks that are recorded under an orphan.
Displaced ==
    {c \in DOMAIN obs : /\ ~ IsCanonical(obs[c])
                        /\ \E b \in Range(canon) : c \in Range(Logs[b])}

(* No reorg, crash or failed call makes the reader or the client state machine
   worker give up: the canonical chain takes the reader's next event, and the
   worker finds a pivot among its recent blocks and, at a restart, a client
   state to resume from.  Recent blocks, client state rows and canonical
   blocks are pruned, deleted and reverted by different parts, each with a
   floor of its own.  Checkpoint sync ends for one reason only, a checkpoint
   whose record names an orphan although a canonical block carries it: it
   never meets two survivors of an epoch, a finalized epoch without an
   observed predecessor otherwise, or an epoch whose predecessor has no
   summary. *)
KeepsRunning ==
    /\ reader.pc # "failed" /\ csm.pc \notin {"halted", "failed"}
    /\ css.pc = "failed" => Displaced # {}

(* While the canonical chain is a chain, what the node calls final is final:
   the finalized checkpoint was seen in a block that the client still has,
   and each epoch that checkpoint sync has applied is on the client's chain.
   The depth of a checkpoint is measured by reload_client_state against the
   worker's block and by the scan against the canonical tip, both of which
   trail the client and may be orphans when they are read. *)
FinalIsOnChain ==
    Linked(canon) =>
        /\ csm.st.fin # NoRef => csm.st.fin.blk \in Ancestors(client)
        /\ \A c \in applied : \E b \in Ancestors(client) : c \in Range(Logs[b])

(* A worker that has caught up, and whose recent blocks are a chain, has
   recorded each checkpoint of these blocks: gaps between statuses, rewinds,
   a crash between the observation and the client state, and the orphans
   replayed at the start lose none. *)
NoCkptSkipped ==
    (csm.pc = "idle" /\ backlog = <<>> /\ Linked(csm.recent)) =>
        \A b \in Range(csm.recent) : Range(Logs[b]) \subseteq DOMAIN obs

(* When the client has settled, the node follows it: the client's best block
   is canonical, the client state machine worker stands on the canonical tip,
   and, unless checkpoint sync has ended, the checkpoint it calls final is the
   one that the chain worker was told of last.  On the way a status that comes
   too early is given up, one that is overtaken is never seen, and a crash
   loses those that were under way.  Two things stay behind until the next L1
   block: a worker that gave up the last status because it could not fetch an
   L1 block, and checkpoint sync when the client state that woke it was
   published before the worker's status named the new checkpoint. *)
FollowsClient ==
    <>[](/\ IsCanonical(client)
         /\ csm.pc = "idle" /\ (csm.missed \/ Last(csm.recent) = Last(canon))
         /\ monitor = csm.st.fin.ckpt
         /\ css.pc = "failed" \/ (css.pc = "idle" /\ (css.early \/ worker = monitor)))

=============================================================================
