--------------------------- MODULE CheckpointSync ---------------------------
(***************************************************************************)
(* Checkpoint sync (consensus-logic/src/checkpoint_sync): a node that does *)
(* not execute blocks applies each epoch that the client state machine     *)
(* worker has finalized, oldest first, and tells the chain worker that it  *)
(* is final.  An epoch counts as applied when its summary is stored.       *)
(***************************************************************************)
EXTENDS CsmWorker

VARIABLES
    applied,    \* durable: checkpoints whose epoch summary is stored
    worker,     \* checkpoint the chain worker has finalized last
    css         \* the service; early: the worker was at work when it looked at the monitor

cssVars == <<applied, worker, css>>

CssOff == [pc |-> "off", last |-> None, todo |-> <<>>, at |-> None, tip |-> 0,
           starting |-> FALSE, early |-> FALSE]

CssTypeOK ==
    /\ applied \subseteq Ckpts
    /\ worker \in Ckpts \union {None}
    /\ css.pc \in {"off", "idle", "scan", "apply", "finalize", "failed"}
    /\ {css.last, css.at} \subseteq Ckpts \union {None}
    /\ Range(css.todo) \subseteq Ckpts

CssInit == applied = {} /\ worker = None /\ css = CssOff

-----------------------------------------------------------------------------
\* The monitor is read, and the scan begins at the checkpoint it calls final,
\* unless that one is applied.  The canonical tip is read once.
Look(starting) ==
    /\ csmNews' = FALSE
    /\ LET c == monitor
           looked == [css EXCEPT !.pc = "idle", !.early = (csm.pc # "idle")]
       IN  css' = IF c \in {None, css.last} THEN looked
                  ELSE [looked EXCEPT !.pc = "scan", !.at = c, !.tip = Len(canon),
                                      !.starting = starting]
    /\ UNCHANGED <<readerVars, rows, obs, backlog, csm, monitor, applied, worker>>

\* initialize_css_inner_state
CssStart ==
    /\ css.pc = "off" /\ csm.pc # "off" /\ csm.pc # "starting"
    /\ reader.pc # "off"
    /\ Look(TRUE)

\* handle_new_client_state, on a client state published since the last one.
CssInput == css.pc = "idle" /\ csmNews /\ Look(FALSE)

\* get_observed_checkpoint_for_epoch: those with a canonical L1 block.
Candidates(e) == {c \in DOMAIN obs : EpochOf[c] = e /\ IsCanonical(obs[c])}

\* Mutant: an epoch that is applied already is not finalized again.
ScannedMutant(last, todo) ==
    [css EXCEPT !.todo = todo, !.at = None, !.tip = 0, !.starting = FALSE,
                !.last = IF todo = <<>> THEN last ELSE @,
                !.pc = IF todo = <<>> THEN "idle" ELSE "apply"]

\* The walk has found what is left to apply, oldest first, above the applied
\* epoch last.  At the start an epoch that is applied is finalized again.
Scanned(last, todo) ==
    [css EXCEPT !.todo = IF todo = <<>> /\ css.starting THEN <<last>> ELSE todo,
                !.at = None, !.tip = 0, !.starting = FALSE,
                !.last = IF todo = <<>> /\ ~ css.starting THEN last ELSE @,
                !.pc = IF todo # <<>> THEN "apply"
                       ELSE IF css.starting THEN "finalize" ELSE "idle"]

\* One epoch of scan_unapplied_epochs.  A checkpoint that is not deep enough
\* ends the scan until the next client state; no predecessor, or several, ends
\* the service.
ScanEpoch ==
    LET c == css.at
        todo == <<c>> \o css.todo
        before == Candidates(EpochOf[c] - 1)
    IN  /\ css.pc = "scan"
        /\ css' = IF ~ IsReorgSafe(Height(obs[c]), css.tip)
                  THEN [CssOff EXCEPT !.pc = "idle", !.last = css.last, !.early = css.early]
                  ELSE IF c \in applied THEN Scanned(c, css.todo)
                  ELSE IF EpochOf[c] = 1 THEN Scanned(None, todo)
                  ELSE IF Cardinality(before) # 1 THEN [css EXCEPT !.pc = "failed"]
                  ELSE [css EXCEPT !.todo = todo, !.at = CHOOSE d \in before : TRUE]
        /\ UNCHANGED <<readerVars, csmVars, applied, worker>>

\* apply_checkpoint needs the summary of the epoch before.
CssApply ==
    LET c == Head(css.todo)
    IN  /\ css.pc = "apply"
        /\ IF EpochOf[c] = 1 \/ \E d \in applied : EpochOf[d] = EpochOf[c] - 1
           THEN applied' = applied \union {c} /\ css' = [css EXCEPT !.pc = "finalize"]
           ELSE css' = [css EXCEPT !.pc = "failed"] /\ UNCHANGED applied
        /\ UNCHANGED <<readerVars, csmVars, worker>>

\* finalize_and_publish.
CssFinalize ==
    LET c == Head(css.todo)
    IN  /\ css.pc = "finalize"
        /\ worker' = c
        /\ css' = IF Len(css.todo) > 1
                  THEN [css EXCEPT !.todo = Tail(@), !.pc = "apply"]
                  ELSE [css EXCEPT !.todo = <<>>, !.last = c, !.pc = "idle"]
        /\ UNCHANGED <<readerVars, csmVars, applied>>

=============================================================================
