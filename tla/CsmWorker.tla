------------------------------ MODULE CsmWorker -----------------------------
(***************************************************************************)
(* The client state machine worker (csm-worker/src): it follows the ASM    *)
(* worker along the canonical L1 chain, records the checkpoints that the   *)
(* blocks carry, and derives from them the finalized and the confirmed     *)
(* checkpoint, of which it stores one row for each block.                  *)
(*                                                                         *)
(* A status may skip blocks, repeat one, or follow a reorg.  The canonical *)
(* chain that the worker reads is the reader's, which may change it        *)
(* between any two steps of the worker.                                    *)
(*                                                                         *)
(* Checkpoints are integers, ordered as epoch commitments are.             *)
(***************************************************************************)
EXTENDS L1Reader

CONSTANTS
    EpochOf,        \* function from checkpoints to their epochs
    Logs            \* function from blocks to the checkpoints they carry

Ckpts == DOMAIN EpochOf

\* The checkpoints along a chain, in order.
Carried(b) == FlattenSeq([h \in DOMAIN Chain[b] |-> Logs[Chain[b][h]]])

\* The ASM worker accepts the checkpoints of a chain one epoch at a time.
ASSUME CkptAssumption ==
    /\ Ckpts \subseteq Nat
    /\ \A c, d \in Ckpts : c < d => EpochOf[c] <= EpochOf[d]
    /\ DOMAIN Logs = Blocks /\ Logs[Root] = <<>>
    /\ \A b \in Blocks : \A i \in DOMAIN Carried(b) : EpochOf[Carried(b)[i]] = i

VARIABLES
    rows,       \* durable: client state of each block that has one
    obs,        \* durable: L1 block of each checkpoint observed
    backlog,    \* stored ASM states to replay at the start
    csm,        \* the worker; missed: it gave up the last status for want of an L1 block
    monitor,    \* finalized checkpoint in the worker's published status
    csmNews     \* a client state was published since checkpoint sync looked

csmVars == <<rows, obs, backlog, csm, monitor, csmNews>>

\* A checkpoint in a client state, with the L1 block it was seen in.
NoRef == [ckpt |-> None, blk |-> None]
DefaultState == [fin |-> NoRef, conf |-> NoRef]
CkptRefs == {NoRef} \union [ckpt : Ckpts, blk : Blocks]
ClientStates == [fin : CkptRefs, conf : CkptRefs]

CsmOff == [pc |-> "off", recent |-> <<>>, st |-> DefaultState, target |-> None,
           blk |-> None, orphans |-> <<>>, new |-> DefaultState, changed |-> FALSE,
           missed |-> FALSE]

CsmTypeOK ==
    /\ DOMAIN rows \subseteq Blocks /\ Range(rows) \subseteq ClientStates
    /\ DOMAIN obs \subseteq Ckpts /\ Range(obs) \subseteq Blocks
    /\ Range(backlog) \subseteq Blocks
    /\ monitor \in Ckpts \union {None} /\ csmNews \in BOOLEAN
    /\ csm.pc \in {"off", "starting", "idle", "status", "pivot", "rewind", "replay",
                   "commit", "report", "halted", "failed"}
    /\ Range(csm.recent) \subseteq Blocks
    /\ csm.st \in ClientStates /\ csm.new \in ClientStates

CsmInit ==
    /\ rows = [b \in {Root} |-> DefaultState] /\ obs = << >> /\ backlog = <<>> /\ csm = CsmOff
    /\ monitor = None /\ csmNews = FALSE

-----------------------------------------------------------------------------
\* Mutant: the observing block itself is counted twice.
IsReorgSafeMutant(observed, tip) == observed <= tip /\ tip - observed + 2 >= SafeDepth

\* is_l1_reorg_safe
IsReorgSafe(observed, tip) == observed <= tip /\ tip - observed + 1 >= SafeDepth

Ref(c) == [ckpt |-> c, blk |-> obs[c]]

\* load_observed_checkpoints: observations of blocks above the tip, and of
\* blocks that are not canonical, are passed over.
Observed(start, tip) ==
    {c \in DOMAIN obs : /\ EpochOf[c] >= start
                        /\ Height(obs[c]) <= tip
                        /\ IsCanonical(obs[c])}

\* reload_client_state
ReloadClientState(b, st) ==
    LET start == IF st.fin = NoRef THEN 0 ELSE EpochOf[st.fin.ckpt] + 1
        seen == Observed(start, Height(b))
        safe == {c \in seen : IsReorgSafe(Height(obs[c]), Height(b))}
        fin == IF safe # {} THEN Ref(Max(safe)) ELSE st.fin
    IN  [fin |-> fin, conf |-> IF seen # {} THEN Ref(Max(seen)) ELSE fin]

\* compute_reorg_floor_height
ReorgFloor(st, tip) ==
    Max({1, tip - (SafeDepth - 1),
         IF st.fin = NoRef THEN 1 ELSE Height(st.fin.blk)})

\* The order of the stored rows: by height, then by block id.
RowBefore(a, b) == Height(a) < Height(b) \/ (Height(a) = Height(b) /\ a < b)

\* The rows of some blocks, lowest first.
InRowOrder(S) == SetToSortSeq(S, RowBefore)

PutRow(b, st) == (b :> st) @@ rows

\* A client state was put into the status channel.
Publish == csmNews' = TRUE

-----------------------------------------------------------------------------
(***************************************************************************)
(* Startup: init_from_context, and the stored ASM states above the block   *)
(* it resumes from, which the listener replays before the live statuses.   *)
(***************************************************************************)

LatestRow == Last(InRowOrder(DOMAIN rows))

\* resolve_canonical_tip: the canonical blocks with a row below an orphan.
Resolvable(b, st) ==
    {a \in DOMAIN rows : /\ Height(a) \in ReorgFloor(st, Height(b))..(Height(b) - 1)
                         /\ IsCanonical(a)}

CsmStart ==
    LET loaded == LatestRow
        st == rows[loaded]
        kept == Height(loaded) <= ReorgFloor(st, Height(loaded)) \/ IsCanonical(loaded)
        down == Last(InRowOrder(Resolvable(loaded, st)))
        from(b, orphans) == [CsmOff EXCEPT !.pc = "starting", !.recent = <<b>>,
                                           !.st = rows[b], !.orphans = orphans]
    IN  /\ csm.pc = "off"
        /\ csm' = IF kept THEN from(loaded, <<>>)
                  ELSE IF Resolvable(loaded, st) = {} THEN [csm EXCEPT !.pc = "failed"]
                  ELSE from(down, InRowOrder({b \in DOMAIN rows : RowBefore(down, b)}))
        /\ UNCHANGED <<readerVars, rows, obs, backlog, monitor, csmNews>>

\* delete_orphan_rows_above, one row at a time.
DeleteOrphanAtStart ==
    /\ csm.pc = "starting" /\ csm.orphans # <<>>
    /\ rows' = [b \in DOMAIN rows \ {Head(csm.orphans)} |-> rows[b]]
    /\ csm' = [csm EXCEPT !.orphans = Tail(@)]
    /\ UNCHANGED <<readerVars, obs, backlog, monitor, csmNews>>

\* load_recent_asm_blocks needs each canonical block from the floor on.
CsmStarted ==
    LET tip == Last(csm.recent)
        new == ReloadClientState(tip, csm.st)
        floor == ReorgFloor(new, Height(tip))
    IN  /\ csm.pc = "starting" /\ csm.orphans = <<>>
        /\ IF new # csm.st
           THEN rows' = PutRow(tip, new) /\ Publish
           ELSE UNCHANGED <<rows, csmNews>>
        /\ IF Height(tip) - 1 <= Len(canon) \/ floor = Height(tip)
           THEN /\ csm' = [CsmOff EXCEPT !.pc = "idle", !.st = new,
                             !.recent = Append(SubSeq(canon, floor, Height(tip) - 1), tip)]
                /\ backlog' = InRowOrder({b \in asm : Height(b) > Height(tip)})
                /\ monitor' = new.fin.ckpt
           ELSE csm' = [csm EXCEPT !.pc = "failed"] /\ UNCHANGED <<backlog, monitor>>
        /\ UNCHANGED <<readerVars, obs>>

-----------------------------------------------------------------------------
(***************************************************************************)
(* One ASM status: process_asm_block.                                      *)
(***************************************************************************)

\* process_asm_block has returned.
Return(c) == [c EXCEPT !.pc = "report", !.target = None, !.blk = None,
                       !.orphans = <<>>, !.new = DefaultState, !.changed = FALSE]

\* get_status, after each input: checkpoint sync may have been woken long before.
ReportStatus ==
    /\ csm.pc = "report"
    /\ monitor' = csm.st.fin.ckpt
    /\ csm' = [csm EXCEPT !.pc = "idle"]
    /\ UNCHANGED <<readerVars, rows, obs, backlog, csmNews>>

TakeStatus(b) ==
    IF backlog # <<>>
    THEN b = Head(backlog) /\ backlog' = Tail(backlog) /\ UNCHANGED status
    ELSE status # None /\ b = status /\ status' = None /\ UNCHANGED backlog

CsmInput ==
    /\ csm.pc = "idle"
    /\ \E b \in Blocks :
        /\ TakeStatus(b)
        /\ csm' = [csm EXCEPT !.pc = "status", !.target = b, !.missed = FALSE]
    /\ UNCHANGED <<clientVars, faults, canon, asm, asmq, reader, rows, obs, monitor, csmNews>>

\* An unknown, repeated or stale block is skipped, one that extends the
\* canonical chain is replayed up to, any other one calls for a pivot.
CsmStatus ==
    LET last == Last(csm.recent)
        b == csm.target
        canonical == IsCanonical(last)
    IN  /\ csm.pc = "status"
        /\ csm' = IF b \notin asm \/ b = last \/ (canonical /\ Height(b) < Height(last))
                  THEN Return(csm)
                  ELSE [csm EXCEPT !.pc = IF canonical /\ Height(b) > Height(last)
                                          THEN "replay" ELSE "pivot"]
        /\ UNCHANGED <<readerVars, rows, obs, backlog, monitor, csmNews>>

\* find_pivot_index
PivotIndices == {i \in DOMAIN csm.recent : IsCanonical(csm.recent[i])}

\* calculate_pivot_and_reorg, up to the pivot's row.  A reorg below the
\* oldest recent block ends the worker; a missing row gives the status up.
CsmPivot ==
    LET i == Max(PivotIndices)
        pivot == csm.recent[i]
        new == ReloadClientState(pivot, rows[pivot])
    IN  /\ csm.pc = "pivot"
        /\ IF PivotIndices = {}
           THEN csm' = [csm EXCEPT !.pc = "halted"] /\ UNCHANGED rows
           ELSE IF pivot \notin DOMAIN rows
           THEN csm' = Return(csm) /\ UNCHANGED rows
           ELSE /\ rows' = PutRow(pivot, new)
                /\ csm' = [csm EXCEPT !.pc = "rewind", !.blk = pivot, !.new = new,
                             !.changed = (new # rows[pivot]),
                             !.orphans = SubSeq(csm.recent, i + 1, Len(csm.recent))]
        /\ UNCHANGED <<readerVars, obs, backlog, monitor, csmNews>>

DeleteOrphan ==
    /\ csm.pc = "rewind" /\ csm.orphans # <<>>
    /\ rows' = [b \in DOMAIN rows \ {Head(csm.orphans)} |-> rows[b]]
    /\ csm' = [csm EXCEPT !.orphans = Tail(@)]
    /\ UNCHANGED <<readerVars, obs, backlog, monitor, csmNews>>

\* The pivot is the tip now.  It may be the block of the status itself.
CsmRewound ==
    LET keep == Max({i \in DOMAIN csm.recent : csm.recent[i] = csm.blk})
        rewound == [csm EXCEPT !.recent = SubSeq(@, 1, keep), !.st = csm.new]
    IN  /\ csm.pc = "rewind" /\ csm.orphans = <<>>
        /\ csmNews' = (csmNews \/ csm.changed)
        /\ IF csm.blk = csm.target
           THEN csm' = Return(rewound)
           ELSE csm' = [rewound EXCEPT !.pc = "replay"]
        /\ UNCHANGED <<readerVars, rows, obs, backlog, monitor>>

\* The next block to process: the canonical one at each height below the
\* status's block, and then that block itself.
NextBlocks ==
    LET h == Height(Last(csm.recent)) + 1
    IN  IF h < Height(csm.target)
        THEN {canon[i] : i \in {h} \intersect DOMAIN canon}
        ELSE {csm.target}

\* Mutant: the logs of a block skipped by the status channel are not read.
ReplayBlockMutant ==
    /\ csm.pc = "replay"
    /\ \E b \in NextBlocks \intersect asm :
        /\ obs' = IF b = csm.target THEN [c \in Range(Logs[b]) |-> b] @@ obs ELSE obs
        /\ csm' = [csm EXCEPT !.pc = "commit", !.blk = b]
    /\ UNCHANGED <<readerVars, rows, backlog, monitor, csmNews>>

\* process_asm_logs: the checkpoints of the block are recorded, each under
\* its commitment.
ReplayBlock ==
    /\ csm.pc = "replay"
    /\ \E b \in NextBlocks \intersect asm :
        /\ obs' = [c \in Range(Logs[b]) |-> b] @@ obs
        /\ csm' = [csm EXCEPT !.pc = "commit", !.blk = b]
    /\ UNCHANGED <<readerVars, rows, backlog, monitor, csmNews>>

\* The canonical chain has become too short, or holds a block the ASM worker
\* has not processed: the rest of the status is given up.
ReplayFails ==
    /\ csm.pc = "replay"
    /\ NextBlocks \intersect asm = {}
    /\ csm' = Return(csm)
    /\ UNCHANGED <<readerVars, rows, obs, backlog, monitor, csmNews>>

\* get_l1_block fails, after its retries, for a block that carries a checkpoint.
L1FetchFails ==
    /\ csm.pc = "replay" /\ faults < MaxFaults
    /\ \E b \in NextBlocks \intersect asm : Logs[b] # <<>>
    /\ csm' = [Return(csm) EXCEPT !.missed = TRUE]
    /\ faults' = faults + 1
    /\ UNCHANGED <<clientVars, canon, asm, asmq, status, reader, rows, obs, backlog, monitor,
                   csmNews>>

\* Mutant: only the tip is kept.
PrunedMutant(recent, st) == <<Last(recent)>>

\* prune_below_reorg_floor: from the first block at or above the floor on.
Pruned(recent, st) ==
    LET floor == ReorgFloor(st, Height(Last(recent)))
        kept == {i \in DOMAIN recent : Height(recent[i]) >= floor}
    IN  SubSeq(recent, Min(kept \union {Len(recent)}), Len(recent))

CommitBlock ==
    LET next == IF Logs[csm.blk] = <<>> THEN csm.st
                ELSE [csm.st EXCEPT !.conf = [ckpt |-> Last(Logs[csm.blk]), blk |-> csm.blk]]
        st == ReloadClientState(csm.blk, next)
        grown == [csm EXCEPT !.recent = Pruned(Append(@, csm.blk), st), !.st = st]
    IN  /\ csm.pc = "commit"
        /\ rows' = PutRow(csm.blk, st)
        /\ Publish
        /\ IF csm.blk = csm.target
           THEN csm' = Return(grown)
           ELSE csm' = [grown EXCEPT !.pc = "replay", !.blk = None]
        /\ UNCHANGED <<readerVars, obs, backlog, monitor>>

=============================================================================
