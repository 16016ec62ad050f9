------------------------------ MODULE L1Writer ------------------------------
(***************************************************************************)
(* The L1 writer of btcio: intents are stored by RPC calls, bundled into    *)
(* payloads in order, and each payload becomes a commit and a reveal        *)
(* transaction.  With an external signer the reveal waits for a signature   *)
(* that another RPC call writes into the payload's row; the envelope itself *)
(* is only cached in memory.  The watcher works on one payload at a time    *)
(* and hands the transactions to the L1 broadcaster.                        *)
(***************************************************************************)
EXTENDS BroadcastTable, Integers, Sequences, FiniteSets, FiniteSetsExt

CONSTANTS
    Intents,       \* intents, by commitment
    Callers,       \* RPC calls that submit intents
    Keys,          \* external signing keys
    InProcess,     \* the signing mode without an external signer
    MaxAttempts,   \* bound on envelopes built for a payload
    Rotates,       \* the signing mode may change
    MaxTroubles    \* bound on failing transactions, changes of the signing mode and crashes

ASSUME WriterAssumption ==
    /\ IsFiniteSet(Intents) /\ IsFiniteSet(Callers)
    /\ InProcess \notin Keys /\ Keys # {}
    /\ MaxAttempts \in Nat \ {0} /\ Rotates \in BOOLEAN
    /\ MaxTroubles \in Nat

VARIABLES
    ids,      \* intent_idx_tree: the intent of each index
    intent,   \* intent_tree: the status of an intent
    call,     \* submitting calls: [pc, id, idx]
    inbox,    \* indexes sent to the bundler
    pending,  \* the bundler's unbundled indexes
    work,     \* the ones of the tick under way
    pay,      \* payload rows: [id, status, att, sig]; att stands for txids and sighash
    curr,     \* curr_payloadidx
    cache,    \* envelope_cache: the attempt kept for a payload, 0 for none
    made,     \* the signing mode an attempt was built for
    job,      \* the watcher's step, with the row it has read
    signer,   \* the signing RPC, with the row it has read
    mode,     \* the envelope signing mode
    bdb,      \* the broadcaster's rows: commit (0) and reveal (1) of an attempt
    sent,     \* attempts whose commit has spent its coins at the node
    misfit,   \* attempts whose stored reveal carries the signature of another one
    troubles

front == <<ids, intent, call, inbox, pending, work>>
vars == <<front, pay, curr, cache, made, job, signer, mode, bdb, sent, misfit, troubles>>

MaxPayloads == Cardinality(Callers)
Attempts == (1..MaxPayloads) \X (1..MaxAttempts)
PayStatuses == {"Unsigned", "NeedsResign", "PendingRevealTxSign", "Unpublished", "Published",
                "Confirmed", "Finalized"}
Rows == [id : Intents, status : PayStatuses, att : 0..MaxAttempts, sig : 0..MaxAttempts]
Modes == Keys \cup {InProcess}
Waiting == [pc |-> "idle"]

TypeOK ==
    /\ ids \in Seq(Intents)
    /\ intent \in [Intents -> {"None", "Unbundled", "Bundled"}]
    /\ call \in [Callers -> [pc : {"new", "checked", "stored", "done"}, id : Intents, idx : 0..Len(ids)]]
    /\ inbox \in Seq(1..Len(ids)) /\ {pending, work} \subseteq SUBSET (1..Len(ids))
    /\ pay \in Seq(Rows) /\ curr \in 1..Len(pay) + 1
    /\ cache \in [1..MaxPayloads -> 0..MaxAttempts]
    /\ made \in [Attempts -> Modes \cup {"none"}]
    /\ job.pc \in {"idle", "have", "store", "commit", "reveal", "signed", "status", "down"}
    /\ signer.pc \in {"idle", "have"}
    /\ mode \in Modes
    /\ bdb \in [Attempts -> [{0, 1} -> TxStatuses]]
    /\ sent \subseteq Attempts /\ misfit \subseteq Attempts
    /\ troubles \in 0..MaxTroubles

Init ==
    /\ ids = <<>>
    /\ intent = [i \in Intents |-> "None"]
    /\ call \in [Callers -> {[pc |-> "new", id |-> i, idx |-> 0] : i \in Intents}]
    /\ inbox = <<>> /\ pending = {} /\ work = {}
    /\ pay = <<>> /\ curr = 1
    /\ cache = [p \in 1..MaxPayloads |-> 0]
    /\ made = [a \in Attempts |-> "none"]
    /\ job = Waiting /\ signer = Waiting
    /\ mode \in Modes
    /\ bdb = [a \in Attempts |-> [k \in {0, 1} |-> "None"]]
    /\ sent = {} /\ misfit = {}
    /\ troubles = 0

Up == job.pc # "down"

-----------------------------------------------------------------------------
(* submit_intent_async_with_idx: the check, the row, the message. *)

CheckIntent(c) ==
    /\ Up /\ call[c].pc = "new"
    /\ call' = [call EXCEPT ![c].pc = IF intent[call[c].id] = "None" THEN "checked" ELSE "done"]
    /\ UNCHANGED <<ids, intent, inbox, pending, work, pay, curr, cache, made, job, signer, mode, bdb, sent,
                   misfit, troubles>>

PutIntent(c) ==
    /\ Up /\ call[c].pc = "checked"
    /\ ids' = Append(ids, call[c].id)
    /\ intent' = [intent EXCEPT ![call[c].id] = "Unbundled"]
    /\ call' = [call EXCEPT ![c].pc = "stored", ![c].idx = Len(ids) + 1]
    /\ UNCHANGED <<inbox, pending, work, pay, curr, cache, made, job, signer, mode, bdb, sent,
                   misfit, troubles>>

SendIntent(c) ==
    /\ Up /\ call[c].pc = "stored"
    /\ inbox' = Append(inbox, call[c].idx)
    /\ call' = [call EXCEPT ![c].pc = "done"]
    /\ UNCHANGED <<ids, intent, pending, work, pay, curr, cache, made, job, signer, mode, bdb, sent,
                   misfit, troubles>>

(* BundlerService: messages are collected, a tick works them off in order. *)
TakeIntent ==
    /\ Up /\ work = {} /\ inbox # <<>>
    /\ pending' = pending \cup {Head(inbox)}
    /\ inbox' = Tail(inbox)
    /\ UNCHANGED <<ids, intent, call, work, pay, curr, cache, made, job, signer, mode, bdb, sent,
                   misfit, troubles>>

BundlerTick ==
    /\ Up /\ work = {} /\ pending # {}
    /\ work' = pending /\ pending' = {}
    /\ UNCHANGED <<ids, intent, call, inbox, pay, curr, cache, made, job, signer, mode, bdb, sent,
                   misfit, troubles>>

\* process_unbundled_entries: the predecessor first.
WorkPredecessor ==
    /\ Up /\ work # {}
    /\ LET i == Min(work) IN i > 1 /\ intent[ids[i - 1]] = "Unbundled" /\ work' = work \cup {i - 1}
    /\ UNCHANGED <<ids, intent, call, inbox, pending, pay, curr, cache, made, job, signer, mode, bdb, sent,
                   misfit, troubles>>

\* Mutant of BundleIntent: the predecessor is not looked at.
BundleIntentMutant ==
    /\ Up /\ work # {}
    /\ LET i == Min(work) IN
       /\ IF intent[ids[i]] = "Unbundled"
          THEN /\ pay' = Append(pay, [id |-> ids[i], status |-> "Unsigned", att |-> 0, sig |-> 0])
               /\ intent' = [intent EXCEPT ![ids[i]] = "Bundled"]
          ELSE UNCHANGED <<pay, intent>>
       /\ work' = work \ {i}
    /\ UNCHANGED <<ids, call, inbox, pending, curr, cache, made, job, signer, mode, bdb, sent,
                   misfit, troubles>>

\* bundle_unbundled_intent: payload and status in one transaction.
BundleIntent ==
    /\ Up /\ work # {}
    /\ LET i == Min(work) IN
       /\ i > 1 => intent[ids[i - 1]] = "Bundled"
       /\ IF intent[ids[i]] = "Unbundled"
          THEN /\ pay' = Append(pay, [id |-> ids[i], status |-> "Unsigned", att |-> 0, sig |-> 0])
               /\ intent' = [intent EXCEPT ![ids[i]] = "Bundled"]
          ELSE UNCHANGED <<pay, intent>>
       /\ work' = work \ {i}
    /\ UNCHANGED <<ids, call, inbox, pending, curr, cache, made, job, signer, mode, bdb, sent,
                   misfit, troubles>>

-----------------------------------------------------------------------------
(* The watcher.  A tick reads the current row; every write puts back that row
   with its changes, whatever happened to the stored one meanwhile. *)

Tick ==
    /\ job.pc = "idle" /\ curr <= Len(pay)
    /\ IF pay[curr].status = "Finalized"
       THEN curr' = curr + 1 /\ UNCHANGED job
       ELSE job' = [pc |-> "have", row |-> pay[curr]] /\ UNCHANGED curr
    /\ UNCHANGED <<front, pay, cache, made, signer, mode, bdb, sent, misfit, troubles>>

Have(s) == job.pc = "have" /\ job.row.status = s
Write(row) == pay' = [pay EXCEPT ![curr] = row] /\ job' = Waiting
Reset == Write([job.row EXCEPT !.status = "Unsigned", !.sig = 0])

NoPayload == job.pc = "idle" /\ curr > Len(pay) /\ UNCHANGED vars

\* The envelope that is built: a new one, or with an external key an earlier
\* one again while its commit has not spent the coins the wallet offers.  In
\* process every envelope has a key of its own.
Fresh(a) == made[<<curr, a>>] = "none" /\ \A b \in 1..a - 1 : made[<<curr, b>>] # "none"
Again(a) == mode \in Keys /\ made[<<curr, a>>] = mode /\ <<curr, a>> \notin sent
Unsigned == Have("Unsigned") \/ Have("NeedsResign")

\* handle_unsigned_or_needs_resign: with an external signer the row and the
\* cache follow; in process (sign_and_broadcast) the transactions come first.
BuildEnvelope ==
    /\ Unsigned
    /\ \E a \in 1..MaxAttempts :
       /\ Fresh(a) \/ Again(a)
       /\ made' = [made EXCEPT ![<<curr, a>>] = mode]
       /\ job' = IF mode = InProcess
                 THEN [pc |-> "commit", row |-> [job.row EXCEPT !.att = a], att |-> a]
                 ELSE [pc |-> "store", row |-> job.row, att |-> a]
    /\ UNCHANGED <<front, pay, curr, cache, signer, mode, bdb, sent, misfit, troubles>>

StoreEnvelope ==
    /\ job.pc = "store"
    /\ Write([job.row EXCEPT !.att = job.att, !.sig = 0, !.status = "PendingRevealTxSign"])
    /\ cache' = [cache EXCEPT ![curr] = job.att]
    /\ UNCHANGED <<front, curr, made, signer, mode, bdb, sent, misfit, troubles>>

\* No coins, no node, or no signing mode: the next tick tries again.
Defer ==
    /\ Unsigned /\ troubles < MaxTroubles
    /\ troubles' = troubles + 1 /\ job' = Waiting
    /\ UNCHANGED <<front, pay, curr, cache, made, signer, mode, bdb, sent, misfit>>

\* handle_pending_reveal_tx_sign
Pending == Have("PendingRevealTxSign")
Current == cache[curr] # 0 /\ made[<<curr, cache[curr]>>] = mode

AwaitSignature ==
    /\ Pending /\ job.row.sig = 0 /\ Current
    /\ job' = Waiting
    /\ UNCHANGED <<front, pay, curr, cache, made, signer, mode, bdb, sent, misfit, troubles>>

ResetPending ==
    /\ Pending /\ ~Current
    /\ Reset
    /\ cache' = [cache EXCEPT ![curr] = 0]
    /\ UNCHANGED <<front, curr, made, signer, mode, bdb, sent, misfit, troubles>>

CompleteReveal ==
    /\ Pending /\ job.row.sig # 0 /\ Current
    /\ job' = [pc |-> "commit", row |-> job.row, att |-> cache[curr]]
    /\ cache' = [cache EXCEPT ![curr] = 0]
    /\ UNCHANGED <<front, pay, curr, made, signer, mode, bdb, sent, misfit, troubles>>

(* put_tx_entry of commit and reveal.  A row that exists is overwritten and is
   an error that is only logged: the envelope is out of the cache by now.  In
   process the envelope is new and has no row. *)
PutTx(k, next) ==
    LET a == <<curr, job.att>> IN
    /\ bdb' = [bdb EXCEPT ![a][k] = "Unpublished"]
    /\ job' = IF bdb[a][k] = "None" THEN [job EXCEPT !.pc = next]
              ELSE Waiting
    /\ UNCHANGED <<front, pay, curr, cache, made, signer, mode, sent, troubles>>

PutCommit == job.pc = "commit" /\ PutTx(0, "reveal") /\ UNCHANGED misfit

\* The reveal carries the signature of the row that was read, whichever
\* envelope that row was for.
PutReveal ==
    LET a == <<curr, job.att>> IN
    /\ job.pc = "reveal" /\ PutTx(1, "signed")
    /\ misfit' = IF made[a] = InProcess \/ job.row.sig = job.att THEN misfit \ {a} ELSE misfit \cup {a}

StoreSigned ==
    /\ job.pc = "signed"
    /\ Write([job.row EXCEPT !.status = "Unpublished"])
    /\ UNCHANGED <<front, curr, cache, made, signer, mode, bdb, sent, misfit, troubles>>

\* Mutant of NextStatus: the commit decides before the reveal.
NextStatusCommitMutant(commit, reveal) ==
    CASE Accepted(commit) -> commit
      [] commit = "InvalidInputs" -> "NeedsResign"
      [] OTHER -> "Unpublished"

\* determine_payload_next_status
NextStatus(commit, reveal) ==
    CASE Accepted(reveal) -> reveal
      [] commit = "InvalidInputs" -> "NeedsResign"
      [] commit = "Unpublished" \/ reveal = "Unpublished" -> "Unpublished"
      [] OTHER -> "NeedsResign"

\* handle_broadcast_status: commit, then reveal, then the row.
ReadCommit ==
    /\ Have("Unpublished") \/ Have("Published") \/ Have("Confirmed")
    /\ job' = [pc |-> "status", row |-> job.row, commit |-> bdb[<<curr, job.row.att>>][0]]
    /\ UNCHANGED <<front, pay, curr, cache, made, signer, mode, bdb, sent, misfit, troubles>>

WriteBroadcastStatus ==
    /\ job.pc = "status"
    /\ LET reveal == bdb[<<curr, job.row.att>>][1]
           next == NextStatus(job.commit, reveal)
       IN  IF "None" \in {job.commit, reveal}
           THEN Reset /\ UNCHANGED curr
           ELSE /\ Write([job.row EXCEPT !.status = next])
                /\ curr' = IF next = "Finalized" THEN curr + 1 ELSE curr
    /\ UNCHANGED <<front, cache, made, signer, mode, bdb, sent, misfit, troubles>>

-----------------------------------------------------------------------------
(* complete_payload_signature: the row is read and checked, then written back
   with the signature of the sighash it had. *)
ReadForSignature(p) ==
    /\ Up /\ signer.pc = "idle" /\ mode \in Keys
    /\ pay[p].status = "PendingRevealTxSign" /\ pay[p].sig = 0
    /\ signer' = [pc |-> "have", idx |-> p, row |-> pay[p]]
    /\ UNCHANGED <<front, pay, curr, cache, made, job, mode, bdb, sent, misfit, troubles>>

WriteSignature ==
    /\ Up /\ signer.pc = "have"
    /\ pay' = [pay EXCEPT ![signer.idx] = [signer.row EXCEPT !.sig = signer.row.att]]
    /\ signer' = Waiting
    /\ UNCHANGED <<front, curr, cache, made, job, mode, bdb, sent, misfit, troubles>>

Rotate ==
    /\ Up /\ Rotates /\ troubles < MaxTroubles
    /\ \E k \in Modes \ {mode} : mode' = k
    /\ troubles' = troubles + 1
    /\ UNCHANGED <<front, pay, curr, cache, made, job, signer, bdb, sent, misfit>>

\* The broadcaster and the node.  The commit is stored, and so sent, first; a
\* reveal with the signature of another envelope is refused.
Refused(a, k) == k = 1 /\ a \in misfit
Broadcast(a, k) ==
    /\ Up
    /\ \E s \in Following(k = 0, bdb[a][0], bdb[a][k]) :
       /\ s = "InvalidInputs" => bdb[a][0] = "InvalidInputs" \/ Refused(a, k)
       /\ bdb' = [bdb EXCEPT ![a][k] = IF Refused(a, k) THEN "InvalidInputs" ELSE s]
       /\ sent' = IF k = 0 THEN sent \cup {a} ELSE sent
    /\ UNCHANGED <<front, pay, curr, cache, made, job, signer, mode, misfit, troubles>>

Fault(a, k) ==
    /\ Up /\ troubles < MaxTroubles
    /\ \E s \in {"InvalidInputs", "Unpublished"} :
       /\ bdb[a][k] \in (IF s = "InvalidInputs" THEN {"Unpublished", "Published"}
                         ELSE {"Published", "Confirmed"})
       /\ bdb' = [bdb EXCEPT ![a][k] = s]
       /\ sent' = IF k = 0 /\ s = "InvalidInputs" THEN sent \ {a} ELSE sent
    /\ troubles' = troubles + 1
    /\ UNCHANGED <<front, pay, curr, cache, made, job, signer, mode, misfit>>

Crash ==
    /\ Up /\ troubles < MaxTroubles
    /\ job' = [pc |-> "down"]
    /\ troubles' = troubles + 1
    /\ UNCHANGED <<front, pay, curr, cache, made, signer, mode, bdb, sent, misfit>>

LastWhere(S) == IF S = {} THEN 0 ELSE Max(S)
\* Mutants of Restart: the bundler starts empty; the watcher goes on after the
\* last payload that was begun.
RestartUnsentMutant ==
    /\ job.pc = "down"
    /\ pending' = {}
    /\ curr' = LastWhere({p \in DOMAIN pay : pay[p].status = "Finalized"}) + 1
    /\ inbox' = <<>> /\ work' = {}
    /\ call' = [c \in Callers |-> IF call[c].pc = "done" THEN call[c] ELSE [call[c] EXCEPT !.pc = "new"]]
    /\ cache' = [p \in 1..MaxPayloads |-> 0]
    /\ job' = Waiting /\ signer' = Waiting
    /\ UNCHANGED <<ids, intent, pay, made, mode, bdb, sent, misfit, troubles>>

RestartAheadMutant ==
    /\ job.pc = "down"
    /\ pending' = {i \in DOMAIN ids : i > LastWhere({j \in DOMAIN ids : intent[ids[j]] = "Bundled"})}
    /\ curr' = LastWhere({p \in DOMAIN pay : pay[p].status # "Unsigned"}) + 1
    /\ inbox' = <<>> /\ work' = {}
    /\ call' = [c \in Callers |-> IF call[c].pc = "done" THEN call[c] ELSE [call[c] EXCEPT !.pc = "new"]]
    /\ cache' = [p \in 1..MaxPayloads |-> 0]
    /\ job' = Waiting /\ signer' = Waiting
    /\ UNCHANGED <<ids, intent, pay, made, mode, bdb, sent, misfit, troubles>>

\* get_initial_unbundled_entries and get_next_payloadidx_to_watch: back from
\* the end to the first bundled intent and to the first final payload.
Restart ==
    /\ job.pc = "down"
    /\ pending' = {i \in DOMAIN ids : i > LastWhere({j \in DOMAIN ids : intent[ids[j]] = "Bundled"})}
    /\ curr' = LastWhere({p \in DOMAIN pay : pay[p].status = "Finalized"}) + 1
    /\ inbox' = <<>> /\ work' = {}
    /\ call' = [c \in Callers |-> IF call[c].pc = "done" THEN call[c] ELSE [call[c] EXCEPT !.pc = "new"]]
    /\ cache' = [p \in 1..MaxPayloads |-> 0]
    /\ job' = Waiting /\ signer' = Waiting
    /\ UNCHANGED <<ids, intent, pay, made, mode, bdb, sent, misfit, troubles>>

-----------------------------------------------------------------------------
WatcherStep ==
    \/ Tick \/ NoPayload \/ BuildEnvelope \/ StoreEnvelope \/ Defer
    \/ AwaitSignature \/ ResetPending \/ CompleteReveal \/ PutCommit \/ PutReveal \/ StoreSigned
    \/ ReadCommit \/ WriteBroadcastStatus

BundlerStep == TakeIntent \/ BundlerTick \/ WorkPredecessor \/ BundleIntent
CallStep(c) == CheckIntent(c) \/ PutIntent(c) \/ SendIntent(c)
SignerStep == WriteSignature \/ \E p \in DOMAIN pay : ReadForSignature(p)

Next ==
    \/ WatcherStep \/ BundlerStep \/ SignerStep \/ Rotate \/ Crash \/ Restart
    \/ \E c \in Callers : CallStep(c)
    \/ \E a \in Attempts, k \in {0, 1} : Broadcast(a, k) \/ Fault(a, k)

Spec == Init /\ [][Next]_vars

(* Fairness.  The bundler and the watcher tick and finish what they began, the
   signer answers, calls end, the process is started again, and the
   broadcaster goes on. *)
FairSpec ==
    /\ Spec
    /\ WF_vars(WatcherStep) /\ WF_vars(BundlerStep) /\ WF_vars(SignerStep) /\ WF_vars(Restart)
    /\ \A c \in Callers : WF_vars(CallStep(c))
    /\ WF_vars(\E a \in Attempts, k \in {0, 1} : Broadcast(a, k))

-----------------------------------------------------------------------------
(* Properties. *)

\* Payloads are worked off in order: every payload before the current one is
\* final, also when a restart finds the current one again.
EarlierAreFinal == \A p \in 1..curr - 1 : pay[p].status = "Finalized"

\* A payload counts as final only when the reveal its row names is final.
FinalIsOnL1 ==
    \A p \in DOMAIN pay : pay[p].status = "Finalized" => bdb[<<p, pay[p].att>>][1] = "Finalized"

\* No intent has been stored twice, which two calls that submit it at once can do.
Distinct == \A i, j \in DOMAIN ids : i # j => ids[i] # ids[j]

\* "Ensures previous intents are bundled before bundling a new one": whatever
\* the order in which messages reach the bundler, and also after a restart.
BundledInOrder ==
    Distinct => \A i, j \in DOMAIN ids :
                    i < j /\ intent[ids[j]] = "Bundled" => intent[ids[i]] = "Bundled"

\* Every intent whose submission has begun reaches L1: a reveal that carries it
\* becomes final, whatever is lost on the way.
IntentIsPosted ==
    \A i \in Intents :
        (intent[i] # "None") ~> (\E p \in DOMAIN pay, a \in 1..MaxAttempts :
                                    pay[p].id = i /\ bdb[<<p, a>>][1] = "Finalized")
=============================================================================
