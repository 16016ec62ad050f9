-------------------------- MODULE ChunkedEnvelope --------------------------
(***************************************************************************)
(* The chunked-envelope watcher of btcio.  An envelope is one commit        *)
(* transaction and the reveals that spend it; the watcher signs envelopes   *)
(* in order, sends each commit itself, hands commit and reveals to the L1   *)
(* broadcaster, and follows their statuses until all are final.  A refused  *)
(* commit is signed again.  The broadcaster appears through the table it    *)
(* shares with the watcher, which changes between any two reads.            *)
(***************************************************************************)
EXTENDS BroadcastTable, Integers, Sequences, FiniteSets, FiniteSetsExt

CONSTANTS
    MaxEnvelopes,  \* bound on submitted envelopes
    Reveals,       \* the number of reveals of each envelope
    SmallPackage,  \* commit and reveal fit the descendant size limit
    SameTx,        \* signing again may build the transactions of the last attempt
    MaxTroubles    \* bound on refused, dropped and reorganised transactions and on crashes

ASSUME EnvelopeAssumption ==
    /\ MaxEnvelopes \in Nat \ {0}
    /\ Reveals \in [1..MaxEnvelopes -> Nat \ {0}]
    /\ {SmallPackage, SameTx} \subseteq BOOLEAN
    /\ MaxTroubles \in Nat

VARIABLES
    env,       \* the envelope rows: [status, att]; att numbers the signed attempt
    bdb,       \* the broadcaster's rows of an attempt: status of 0 (commit) and reveals
    nextDb,    \* next_db_idx, as the number of rows ingested
    frontier,  \* forward_frontier
    active,    \* active_envelopes
    job,       \* where the watcher is
    seen,      \* commits the node has accepted, and those it has mined
    troubles

watcher == <<nextDb, frontier, active, job>>
vars == <<env, bdb, watcher, seen, troubles>>

MaxAttempts == MaxTroubles + 1
Txs(a) == 0..Reveals[a[1]]
Attempts == (1..MaxEnvelopes) \X (1..MaxAttempts)
Statuses == {"Unsigned", "Unpublished", "CommitPublished", "Published", "Confirmed",
             "Finalized", "NeedsResign"}
Waiting == [pc |-> "idle", todo |-> {}, idx |-> 0, k |-> 0, safe |-> FALSE, status |-> "Unsigned"]

TypeOK ==
    /\ env \in Seq([status : Statuses, att : 0..MaxAttempts])
    /\ DOMAIN bdb = Attempts /\ \A a \in Attempts : bdb[a] \in [Txs(a) -> TxStatuses]
    /\ nextDb \in 0..Len(env)
    /\ frontier \in 1..nextDb + 1
    /\ active \subseteq 1..nextDb
    /\ job \in [pc : {"idle", "reconcile", "enqueue", "full", "write", "advance", "put", "send",
                      "record", "readback", "ended", "down"},
                todo : SUBSET (1..MaxEnvelopes), idx : 0..MaxEnvelopes, k : Nat,
                safe : BOOLEAN, status : Statuses \cup TxStatuses]
    /\ job.pc \in {"enqueue", "full"} => job.k \in 1..Reveals[job.idx]
    /\ seen \in [accepted : SUBSET Attempts, mined : SUBSET Attempts]
    /\ troubles \in 0..MaxTroubles

Init ==
    /\ env = <<>>
    /\ bdb = [a \in Attempts |-> [k \in Txs(a) |-> "None"]]
    /\ nextDb = 0
    /\ frontier = 1
    /\ active = {}
    /\ job = Waiting
    /\ seen = [accepted |-> {}, mined |-> {}]
    /\ troubles = 0

Attempt(i) == <<i, env[i].att>>

\* entry_unlocks_successor
Unlocks(s) == s \in {"CommitPublished", "Published", "Confirmed", "Finalized"}
Unsigned(s) == s \in {"Unsigned", "NeedsResign"}

-----------------------------------------------------------------------------
(* Producer and broadcaster. *)

\* submit_entry
Submit ==
    /\ job.pc # "down" /\ Len(env) < MaxEnvelopes
    /\ env' = Append(env, [status |-> "Unsigned", att |-> 0])
    /\ UNCHANGED <<bdb, watcher, seen, troubles>>

\* A commit is seen by the node with status s.
Seen(a, k, s) ==
    seen' = [accepted |-> IF k = 0 /\ Accepted(s) THEN seen.accepted \cup {a} ELSE seen.accepted,
             mined |-> IF k = 0 /\ s = "Confirmed" THEN seen.mined \cup {a} ELSE seen.mined]

\* The broadcaster moves a row on.
Broadcast(a, k) ==
    /\ job.pc # "down"
    /\ \E s \in Following(k = 0, bdb[a][0], bdb[a][k]) : bdb' = [bdb EXCEPT ![a][k] = s] /\ Seen(a, k, s)
    /\ UNCHANGED <<env, watcher, troubles>>

\* A transaction is refused, or dropped and in conflict.
Refuse(a, k) ==
    /\ job.pc # "down" /\ troubles < MaxTroubles /\ bdb[a][k] \in {"Unpublished", "Published"}
    /\ bdb' = [bdb EXCEPT ![a][k] = "InvalidInputs"]
    /\ troubles' = troubles + 1
    /\ UNCHANGED <<env, watcher, seen>>

\* A reorg, or a pass that writes an older status.
Regress(a, k) ==
    /\ job.pc # "down" /\ troubles < MaxTroubles /\ bdb[a][k] \in {"Published", "Confirmed"}
    /\ bdb' = [bdb EXCEPT ![a][k] = "Unpublished"]
    /\ troubles' = troubles + 1
    /\ UNCHANGED <<env, watcher, seen>>

-----------------------------------------------------------------------------
(* Reconciliation of the active envelopes. *)

\* A tick: ingest_new_entries, then the envelopes that were active are visited.
Tick ==
    /\ job.pc = "idle"
    /\ nextDb' = Len(env)
    /\ active' = active \cup {i \in nextDb + 1..Len(env) : env[i].status # "Finalized"}
    /\ job' = [Waiting EXCEPT !.pc = "reconcile", !.todo = active']
    /\ UNCHANGED <<env, bdb, frontier, seen, troubles>>

\* Mutant: any number of reveals may follow an unconfirmed commit.
PolicySafeMutant(i, commit) == Accepted(commit)

\* reveal_enqueue_is_policy_safe
PolicySafe(i, commit) == \/ commit \in {"Confirmed", "Finalized"}
                         \/ commit = "Published" /\ Reveals[i] = 1 /\ SmallPackage

Visiting(i) == job.pc = "reconcile" /\ job.todo # {} /\ i = Min(job.todo)
Goto(p, i, s) == job' = [job EXCEPT !.pc = p, !.idx = i, !.k = 1, !.status = s]

\* Nothing to ask: a final envelope leaves the active set, an unsigned one
\* holds the frontier.
VisitResting(i) ==
    /\ Visiting(i) /\ (env[i].status = "Finalized" \/ Unsigned(env[i].status))
    /\ active' = IF env[i].status = "Finalized" THEN active \ {i} ELSE active
    /\ frontier' = IF Unsigned(env[i].status) THEN Min({frontier, i}) ELSE frontier
    /\ job' = [job EXCEPT !.todo = @ \ {i}]
    /\ UNCHANGED <<env, bdb, nextDb, seen, troubles>>

\* check_commit_and_enqueue_reveals
VisitUnpublished(i) ==
    /\ Visiting(i) /\ env[i].status = "Unpublished"
    /\ LET commit == bdb[Attempt(i)][0] IN
       \/ commit = "None" /\ Goto("write", i, "Unsigned")
       \/ commit = "InvalidInputs" /\ Goto("write", i, "NeedsResign")
       \/ commit = "Unpublished" /\ Goto("write", i, "Unpublished")
       \/ /\ Accepted(commit)
          /\ Goto(IF PolicySafe(i, commit) THEN "enqueue" ELSE "write", i, "CommitPublished")
    /\ UNCHANGED <<env, bdb, nextDb, frontier, active, seen, troubles>>

\* try_enqueue_reveals_if_policy_safe, one ensure_reveal_tx_entry after the other
Ensure(a, k) == bdb' = [bdb EXCEPT ![a][k] = IF @ = "None" THEN "Unpublished" ELSE @]

EnqueueReveal ==
    /\ job.pc = "enqueue"
    /\ Ensure(Attempt(job.idx), job.k)
    /\ job' = [job EXCEPT !.k = @ + 1, !.pc = IF job.k = Reveals[job.idx] THEN "write" ELSE @]
    /\ UNCHANGED <<env, nextDb, frontier, active, seen, troubles>>

\* check_full_broadcast_status: the commit first, then the reveals one by one.
\* A missing commit is an error; AcceptedIsRecorded shows that there is none.
VisitPublished(i) ==
    /\ Visiting(i) /\ env[i].status \in {"CommitPublished", "Published", "Confirmed"}
    /\ LET commit == bdb[Attempt(i)][0] IN
       \/ commit = "InvalidInputs" /\ Goto("write", i, "NeedsResign")
       \/ /\ commit \notin {"None", "InvalidInputs"}
          /\ job' = [job EXCEPT !.pc = "full", !.idx = i, !.k = 1, !.status = commit,
                                !.safe = PolicySafe(i, commit)]
    /\ UNCHANGED <<env, bdb, nextDb, frontier, active, seen, troubles>>

Ordinal(s) == CASE s = "Unpublished" -> 0 [] s = "Published" -> 1
                [] s = "Confirmed" -> 2 [] s = "Finalized" -> 3
\* Mutant: the commit decides.
LeastMutant(s, t) == t

Least(s, t) == IF Ordinal(s) < Ordinal(t) THEN s ELSE t

\* to_envelope_status
EnvelopeStatus(s) == IF s = "Unpublished" THEN "CommitPublished" ELSE s

\* The aggregate s after k reveals; the last reveal turns it into a status.
Fold(s) ==
    job' = IF job.k = Reveals[job.idx] THEN [job EXCEPT !.pc = "write", !.status = EnvelopeStatus(s)]
           ELSE [job EXCEPT !.k = @ + 1, !.status = s]

CheckReveal ==
    /\ job.pc = "full"
    /\ LET reveal == bdb[Attempt(job.idx)][job.k] IN
       \/ /\ reveal = "None" /\ ~job.safe
          /\ Goto("write", job.idx, "CommitPublished") /\ UNCHANGED bdb
       \/ /\ reveal = "None" /\ job.safe
          /\ Ensure(Attempt(job.idx), job.k) /\ Fold("Unpublished")
       \/ /\ reveal = "InvalidInputs"
          /\ Goto("write", job.idx, "NeedsResign") /\ UNCHANGED bdb
       \/ /\ reveal \notin {"None", "InvalidInputs"}
          /\ Fold(Least(reveal, job.status)) /\ UNCHANGED bdb
    /\ UNCHANGED <<env, nextDb, frontier, active, seen, troubles>>

\* Mutant: the frontier is not pulled back.
WriteStatusMutant ==
    /\ job.pc = "write"
    /\ env' = [env EXCEPT ![job.idx].status = job.status]
    /\ active' = IF job.status = "Finalized" THEN active \ {job.idx} ELSE active \cup {job.idx}
    /\ \/ /\ job.idx \in job.todo
          /\ frontier' = frontier
          /\ job' = [job EXCEPT !.pc = "reconcile", !.todo = @ \ {job.idx}]
       \/ /\ job.idx \notin job.todo
          /\ frontier' = IF Unlocks(job.status) THEN frontier + 1 ELSE frontier
          /\ job' = IF Unlocks(job.status) THEN [Waiting EXCEPT !.pc = "advance"] ELSE Waiting
    /\ UNCHANGED <<bdb, nextDb, seen, troubles>>

\* The new status is written, and the frontier pulled back to an envelope that
\* must be signed again.  A signing that ends here moves the frontier on.
WriteStatus ==
    /\ job.pc = "write"
    /\ env' = [env EXCEPT ![job.idx].status = job.status]
    /\ active' = IF job.status = "Finalized" THEN active \ {job.idx} ELSE active \cup {job.idx}
    /\ \/ /\ job.idx \in job.todo
          /\ frontier' = IF Unsigned(job.status) /\ env[job.idx].status # job.status
                         THEN Min({frontier, job.idx}) ELSE frontier
          /\ job' = [job EXCEPT !.pc = "reconcile", !.todo = @ \ {job.idx}]
       \/ /\ job.idx \notin job.todo
          /\ frontier' = IF Unlocks(job.status) THEN frontier + 1 ELSE frontier
          /\ job' = IF Unlocks(job.status) THEN [Waiting EXCEPT !.pc = "advance"] ELSE Waiting
    /\ UNCHANGED <<bdb, nextDb, seen, troubles>>

EndReconcile ==
    /\ job.pc = "reconcile" /\ job.todo = {}
    /\ job' = [Waiting EXCEPT !.pc = "advance"]
    /\ UNCHANGED <<env, bdb, nextDb, frontier, active, seen, troubles>>

-----------------------------------------------------------------------------
(* advance_forward_frontier *)

AtFrontier == job.pc = "advance" /\ frontier <= nextDb
NextUnlocks == AtFrontier /\ Unlocks(env[frontier].status)
NextUnsigned == AtFrontier /\ Unsigned(env[frontier].status)

SkipUnlocked ==
    /\ NextUnlocks
    /\ frontier' = frontier + 1
    /\ UNCHANGED <<env, bdb, nextDb, active, job, seen, troubles>>

\* No envelope left, the next one blocked, or no funds or node to sign it.
EndAdvance ==
    /\ job.pc = "advance" /\ ~NextUnlocks
    /\ NextUnsigned => troubles < MaxTroubles
    /\ troubles' = IF NextUnsigned THEN troubles + 1 ELSE troubles
    /\ job' = Waiting
    /\ UNCHANGED <<env, bdb, nextDb, frontier, active, seen>>

\* Mutant: the commit is sent before its row is stored.
SignMutant ==
    /\ NextUnsigned
    /\ env[frontier].att < MaxAttempts
    /\ env' = [env EXCEPT ![frontier] = [status |-> "Unpublished", att |-> @.att + 1]]
    /\ Goto("send", frontier, "Unpublished")
    /\ UNCHANGED <<bdb, nextDb, frontier, active, seen, troubles>>

(* sign_chunked_envelope and the first write of the signed row.  The wallet's
   coins and the fee decide the transactions: when both are as they were, which
   needs a commit that the node does not hold, they are those of the last attempt. *)
Sign ==
    /\ NextUnsigned
    /\ \E a \in {env[frontier].att, env[frontier].att + 1} :
          /\ a \in 1..MaxAttempts
          /\ a = env[frontier].att => SameTx /\ ~Accepted(bdb[<<frontier, a>>][0])
          /\ env' = [env EXCEPT ![frontier] = [status |-> "Unpublished", att |-> a]]
    /\ Goto("put", frontier, "Unpublished")
    /\ UNCHANGED <<bdb, nextDb, frontier, active, seen, troubles>>

\* put_tx_entry of the commit; a row that exists is overwritten and is an error,
\* with which the watcher ends.
PutCommit ==
    /\ job.pc = "put"
    /\ bdb' = [bdb EXCEPT ![Attempt(job.idx)][0] = "Unpublished"]
    /\ job' = [job EXCEPT !.pc = IF bdb[Attempt(job.idx)][0] = "None" THEN "send" ELSE "ended"]
    /\ UNCHANGED <<env, nextDb, frontier, active, seen, troubles>>

\* publish_commit_immediately
SendCommit ==
    /\ job.pc = "send"
    /\ \/ /\ Goto("record", job.idx, "Published")
          /\ Seen(Attempt(job.idx), 0, "Published")
          /\ UNCHANGED <<active, troubles>>
       \/ /\ troubles < MaxTroubles /\ Attempt(job.idx) \notin seen.accepted
          /\ troubles' = troubles + 1
          /\ Goto("record", job.idx, "InvalidInputs")
          /\ UNCHANGED <<active, seen>>
       \/ /\ troubles < MaxTroubles  \* deferred
          /\ troubles' = troubles + 1
          /\ active' = active \cup {job.idx}
          /\ job' = Waiting
          /\ UNCHANGED seen
    /\ UNCHANGED <<env, bdb, nextDb, frontier>>

\* put_tx_entry_by_idx of the answer
RecordCommit ==
    /\ job.pc = "record"
    /\ bdb' = [bdb EXCEPT ![Attempt(job.idx)][0] = job.status]
    /\ IF job.status = "Published" THEN Goto("readback", job.idx, "CommitPublished")
       ELSE Goto("write", job.idx, "NeedsResign")
    /\ UNCHANGED <<env, nextDb, frontier, active, seen, troubles>>

\* The row is read again before the reveals are enqueued.
ReadBack ==
    /\ job.pc = "readback"
    /\ job' = [job EXCEPT !.pc = IF PolicySafe(job.idx, bdb[Attempt(job.idx)][0]) THEN "enqueue"
                                 ELSE "write"]
    /\ UNCHANGED <<env, bdb, nextDb, frontier, active, seen, troubles>>

-----------------------------------------------------------------------------
\* Signing or sending fails with an error that is not retried: it is logged and
\* the watcher ends, while the process and its broadcaster go on.
EndWatcher ==
    /\ NextUnsigned \/ job.pc = "send"
    /\ troubles < MaxTroubles
    /\ job' = [Waiting EXCEPT !.pc = "ended"]
    /\ troubles' = troubles + 1
    /\ UNCHANGED <<env, bdb, nextDb, frontier, active, seen>>

\* The process stops, in a crash or, once the watcher has ended, for a restart.
Crash ==
    /\ job.pc # "down"
    /\ \/ job.pc = "ended" /\ UNCHANGED troubles
       \/ troubles < MaxTroubles /\ troubles' = troubles + 1
    /\ job' = [Waiting EXCEPT !.pc = "down"]
    /\ UNCHANGED <<env, bdb, nextDb, frontier, active, seen>>

\* Mutant: only the envelopes from the frontier on are active again.
RecoverMutant ==
    LET blocked == {i \in DOMAIN env : ~Unlocks(env[i].status)} IN
    /\ job.pc = "down"
    /\ nextDb' = Len(env)
    /\ frontier' = IF blocked = {} THEN Len(env) + 1 ELSE Min(blocked)
    /\ active' = {i \in DOMAIN env : i >= frontier'}
    /\ job' = Waiting
    /\ UNCHANGED <<env, bdb, seen, troubles>>

\* ChunkedEnvelopeWatcherState::recover
Recover ==
    LET blocked == {i \in DOMAIN env : ~Unlocks(env[i].status)} IN
    /\ job.pc = "down"
    /\ nextDb' = Len(env)
    /\ active' = {i \in DOMAIN env : env[i].status # "Finalized"}
    /\ frontier' = IF blocked = {} THEN Len(env) + 1 ELSE Min(blocked)
    /\ job' = Waiting
    /\ UNCHANGED <<env, bdb, seen, troubles>>

WatcherStep ==
    \/ Tick \/ EnqueueReveal \/ CheckReveal \/ WriteStatus \/ EndReconcile
    \/ \E i \in DOMAIN env : VisitResting(i) \/ VisitUnpublished(i) \/ VisitPublished(i)
    \/ SkipUnlocked \/ EndAdvance \/ Sign \/ PutCommit \/ SendCommit \/ RecordCommit \/ ReadBack

Next ==
    \/ WatcherStep \/ EndWatcher \/ Submit \/ Crash \/ Recover
    \/ \E a \in Attempts : \E k \in Txs(a) : Broadcast(a, k) \/ Refuse(a, k) \/ Regress(a, k)

Spec == Init /\ [][Next]_vars

(* Fairness.  The poll interval ticks and a pass runs to its end, a process that
   stopped is started again, and the broadcaster goes on with the rows it tracks.
   Nothing starts a watcher that ended while its process runs. *)
FairSpec ==
    /\ Spec
    /\ WF_vars(WatcherStep)
    /\ WF_vars(Recover)
    /\ \A a \in Attempts : \A k \in Txs(a) : WF_vars(Broadcast(a, k))

-----------------------------------------------------------------------------
(* Properties. *)

\* An envelope counts as final only when its commit and all its reveals do.
FinalizedIsComplete ==
    \A i \in DOMAIN env :
        env[i].status = "Finalized" => \A k \in Txs(Attempt(i)) : bdb[Attempt(i)][k] = "Finalized"

\* "successors are not allowed to outpace their predecessor dependency": when
\* an envelope is signed or signed again, the commits of all envelopes before it
\* are accepted.  A refused commit is not enough: its envelope holds the frontier.
SignedInOrder ==
    [][\A i \in DOMAIN env : Unsigned(env[i].status) /\ ~Unsigned(env'[i].status) =>
           \A j \in 1..i - 1 : Unlocks(env[j].status)]_vars

\* A reveal reaches the broadcaster only after the node has accepted its
\* commit, and mined it unless the two fit the mempool policy as a package.
RevealsWaitForCommit ==
    \A a \in Attempts : \A k \in Txs(a) \ {0} : bdb[a][k] # "None" =>
        a \in IF Reveals[a[1]] = 1 /\ SmallPackage THEN seen.accepted ELSE seen.mined

\* "recovery still has the reveal metadata needed": a commit that the node has
\* accepted is in the broadcaster's table, and its attempt was written before.
\* Nor does a published envelope lose the row of its commit, so that
\* CommitMissingAfterRevealTracking does not happen.
AcceptedIsRecorded ==
    /\ \A a \in seen.accepted : bdb[a][0] # "None" /\ env[a[1]].att >= a[2]
    /\ \A i \in DOMAIN env :
          env[i].status \in {"CommitPublished", "Published", "Confirmed"}
              => bdb[Attempt(i)][0] # "None"

\* Every envelope that is submitted becomes final, unless the watcher ends with
\* an error and the process is not started again.
EnvelopeFinalizes ==
    \A i \in 1..MaxEnvelopes :
        (i \in DOMAIN env) ~> \/ i \in DOMAIN env /\ env[i].status = "Finalized"
                              \/ [](job.pc = "ended")
=============================================================================
