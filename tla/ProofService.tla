---------------------------- MODULE ProofService ----------------------------
(***************************************************************************)
(* What a prover promises to the components that use it.  A submitted task  *)
(* is never forgotten, and it is done only when its proof is stored.  A     *)
(* task that is done or failed may be opened again by an attempt that was   *)
(* running beside the one that ended it.                                    *)
(***************************************************************************)
CONSTANT Tasks

VARIABLES
    task,    \* where each task is
    proofs   \* tasks whose proof the receipt hook has stored

TaskStates == {"none", "open", "done", "failed"}

ServiceInit == task = [t \in Tasks |-> "none"] /\ proofs = {}

\* submit is idempotent.
SubmitTask(t) ==
    /\ task' = [task EXCEPT ![t] = IF @ = "none" THEN "open" ELSE @]
    /\ UNCHANGED proofs

StoreProof(t) ==
    /\ task[t] # "none"
    /\ proofs' = proofs \cup {t}
    /\ UNCHANGED task

SettleTask(t, s) ==
    /\ task[t] # "none" /\ s \in TaskStates \ {"none"}
    /\ s = "done" => t \in proofs
    /\ task' = [task EXCEPT ![t] = s]
    /\ UNCHANGED proofs

ServiceNext ==
    \E t \in Tasks : SubmitTask(t) \/ StoreProof(t) \/ \E s \in TaskStates : SettleTask(t, s)

ServiceSpec == ServiceInit /\ [][ServiceNext]_<<task, proofs>>
=============================================================================
