--------------------------- MODULE L1Broadcaster ---------------------------
(***************************************************************************)
(* The L1 broadcaster of btcio: its database of transaction entries, the   *)
(* entries it tracks in memory, the clients that store entries and notify  *)
(* it, and the Bitcoin node it talks to.  An entry is stored by a client's *)
(* task; the service learns of it from the notification or from the scan   *)
(* at the end of a pass, whichever comes first.  A pass asks the node      *)
(* about every tracked entry, then writes the new statuses, then scans.    *)
(***************************************************************************)
EXTENDS Integers, Sequences, SequencesExt, FiniteSets

CONSTANTS
    Tx,         \* transactions that clients store
    Direct,     \* those the client also publishes itself (envelope commits)
    Depth,      \* l1_reorg_safe_depth
    MaxTroubles \* bound on RPC faults, drops, reorgs and crashes

ASSUME BroadcasterAssumption ==
    /\ Direct \subseteq Tx
    /\ Depth \in Nat \ {0}
    /\ MaxTroubles \in Nat

VARIABLES
    db,       \* the stored entries in index order: [tx, status]
    tracked,  \* unfinalized_entries: [idx, status]
    nextIdx,  \* entries up to this index have been scanned
    inbox,    \* NotifyNewEntry messages: [idx, status]
    pass,     \* the pass under way: [pc, i, updated]
    client,   \* where the client of a transaction is: [pc, res]; res is the last answer it got
    net,      \* the node's view of a transaction
    troubles

mine == <<tracked, nextIdx, inbox, pass>>
vars == <<db, mine, client, net, troubles>>

Statuses == {"Unpublished", "Published", "Confirmed", "Finalized", "InvalidInputs"}
Entries == [idx : Nat \ {0}, status : Statuses]
Waiting == [pc |-> "idle", i |-> 1, updated |-> <<>>]

\* The confirmations of a transaction, negative (Side) when it is known and a
\* mined one is in conflict with it; Unknown when the node does not know it,
\* Spent when moreover another transaction has spent its inputs for good.
Side == -1
Unknown == -2
Spent == -3
NetStates == {Side, Unknown, Spent} \cup 0..Depth

TypeOK ==
    /\ db \in Seq([tx : Tx, status : Statuses])
    /\ tracked \in Seq(Entries)
    /\ nextIdx \in 0..Len(db)
    /\ inbox \in Seq(Entries)
    /\ pass \in [pc : {"idle", "ask", "write", "down"}, i : Nat \ {0}, updated : Seq(Entries)]
    /\ client \in [Tx -> [pc : {"new", "stored", "publish", "record", "notify", "done"},
                          res : Statuses]]
    /\ net \in [Tx -> NetStates]
    /\ troubles \in 0..MaxTroubles

Init ==
    /\ db = <<>>
    /\ tracked = <<>>
    /\ nextIdx = 0
    /\ inbox = <<>>
    /\ pass = Waiting
    /\ client = [t \in Tx |-> [pc |-> "new", res |-> "Unpublished"]]
    /\ net = [t \in Tx |-> Unknown]
    /\ troubles = 0

Up == pass.pc # "down"
IdxOf(t) == CHOOSE k \in DOMAIN db : db[k].tx = t
Settled(s) == s \in {"Finalized", "InvalidInputs"}
Stored(t) == \E k \in DOMAIN db : db[k].tx = t

-----------------------------------------------------------------------------
(* The node (external). *)

\* gettransaction: a confirmation count, or Unknown for a miss.
Lookup(t) == IF net[t] = Spent THEN Unknown ELSE net[t]

\* What sendrawtransaction may answer; an unknown transaction may be refused
\* by policy.  Sent(t, r) is its effect.
Sends(t) == CASE net[t] \in {Side, Spent} -> {"InvalidInputs"}
              [] net[t] = Unknown -> {"Published", "InvalidInputs"}
              [] OTHER -> {"Published"}
Sent(t, r) == net' = [net EXCEPT ![t] = IF @ = Unknown /\ r = "Published" THEN 0 ELSE @]

\* A notification of the entry is still on its way.
InFlight(t) == \/ client[t].pc \in {"stored", "notify"}
               \/ \E k \in DOMAIN inbox : db[inbox[k].idx].tx = t

\* Blocks arrive.  The last of Depth blocks does not overtake a notification.
Mine(t) ==
    /\ net[t] \in 0..Depth - 1
    /\ net[t] = Depth - 1 => ~InFlight(t)
    /\ net' = [net EXCEPT ![t] = @ + 1]
    /\ UNCHANGED <<db, mine, client, troubles>>

\* A drop from the mempool, or a reorg above the safe depth.
Unmine(t) ==
    /\ troubles < MaxTroubles /\ net[t] \in Side..Depth - 1
    /\ \E c \in {Unknown, 0} : c # net[t] /\ net' = [net EXCEPT ![t] = c]
    /\ troubles' = troubles + 1
    /\ UNCHANGED <<db, mine, client>>

\* A conflicting transaction is mined, after a reorg where this one was too.
Conflict(t) ==
    /\ troubles < MaxTroubles /\ Stored(t) /\ net[t] \in {Unknown} \cup 0..Depth - 1
    /\ net' = [net EXCEPT ![t] = IF @ = Unknown THEN Spent ELSE Side]
    /\ troubles' = troubles + 1
    /\ UNCHANGED <<db, mine, client>>

-----------------------------------------------------------------------------
(* Clients. *)

\* L1BroadcastHandle::put_tx_entry: the row first, the notification next.
PutTxEntry(t) ==
    /\ Up /\ client[t].pc = "new"
    /\ db' = Append(db, [tx |-> t, status |-> "Unpublished"])
    /\ client' = [client EXCEPT ![t].pc = "stored"]
    /\ UNCHANGED <<mine, net, troubles>>

\* A row that exists is overwritten and the call fails before the notification:
\* an envelope that is signed again may come out as the refused one.
PutTxEntryAgain(t) ==
    /\ Up /\ client[t].pc = "done" /\ t \in Direct /\ troubles < MaxTroubles
    /\ db[IdxOf(t)].status \in {"Unpublished", "InvalidInputs"}
    /\ db' = [db EXCEPT ![IdxOf(t)].status = "Unpublished"]
    /\ client' = [client EXCEPT ![t].res = "InvalidInputs"]
    /\ troubles' = troubles + 1
    /\ UNCHANGED <<mine, net>>

NotifyStored(t) ==
    /\ Up /\ client[t].pc = "stored"
    /\ inbox' = Append(inbox, [idx |-> IdxOf(t), status |-> "Unpublished"])
    /\ client' = [client EXCEPT ![t].pc = IF t \in Direct THEN "publish" ELSE "done"]
    /\ UNCHANGED <<db, tracked, nextIdx, pass, net, troubles>>

(* publish_commit_immediately; its answer is written by index and notified.
   A deferred commit is left to the broadcaster. *)
PublishCommit(t) ==
    /\ Up /\ client[t].pc = "publish"
    /\ \E r \in Sends(t) : Sent(t, r) /\ client' = [client EXCEPT ![t] = [pc |-> "record", res |-> r]]
    /\ UNCHANGED <<db, mine, troubles>>

DeferCommit(t) ==
    /\ Up /\ client[t].pc = "publish" /\ troubles < MaxTroubles
    /\ client' = [client EXCEPT ![t].pc = "done"]
    /\ troubles' = troubles + 1
    /\ UNCHANGED <<db, mine, net>>

RecordCommit(t) ==
    /\ Up /\ client[t].pc = "record"
    /\ db' = [db EXCEPT ![IdxOf(t)].status = client[t].res]
    /\ client' = [client EXCEPT ![t].pc = "notify"]
    /\ UNCHANGED <<mine, net, troubles>>

NotifyCommit(t) ==
    /\ Up /\ client[t].pc = "notify"
    /\ inbox' = Append(inbox, [idx |-> IdxOf(t), status |-> client[t].res])
    /\ client' = [client EXCEPT ![t].pc = "done"]
    /\ UNCHANGED <<db, tracked, nextIdx, pass, net, troubles>>

-----------------------------------------------------------------------------
(* The service. *)

\* process_input on a tick.
Tick ==
    /\ pass.pc = "idle"
    /\ pass' = [Waiting EXCEPT !.pc = "ask"]
    /\ UNCHANGED <<db, tracked, nextIdx, inbox, client, net, troubles>>

\* handle_notify_new_entry: replace the first entry of that index, or add one.
Insert(es, e) ==
    LET at == {k \in DOMAIN es : es[k].idx = e.idx}
    IN  IF at = {} THEN Append(es, e)
        ELSE [es EXCEPT ![CHOOSE k \in at : \A j \in at : k <= j] = e]

TakeNotify ==
    /\ pass.pc = "idle" /\ inbox # <<>>
    /\ tracked' = Insert(tracked, Head(inbox))
    /\ inbox' = Tail(inbox)
    /\ pass' = [Waiting EXCEPT !.pc = "ask"]
    /\ UNCHANGED <<db, nextIdx, client, net, troubles>>

\* Mutant: final one block too early.
ConfirmationStatusMutant(c) ==
    IF c <= 0 THEN "Published" ELSE IF c + 1 >= Depth THEN "Finalized" ELSE "Confirmed"

\* confirmation_status
ConfirmationStatus(c) ==
    IF c <= 0 THEN "Published" ELSE IF c >= Depth THEN "Finalized" ELSE "Confirmed"

\* process_tx_entry, one tracked entry at a time.
Asking(s) == pass.pc = "ask" /\ pass.i <= Len(tracked) /\ tracked[pass.i].status = s
AskedTx == db[tracked[pass.i].idx].tx
Answer(s) ==
    pass' = [pass EXCEPT !.i = @ + 1,
                         !.updated = Append(@, [idx |-> tracked[pass.i].idx, status |-> s])]

PublishEntry ==
    /\ Asking("Unpublished")
    /\ \E r \in Sends(AskedTx) : Sent(AskedTx, r) /\ Answer(r)
    /\ UNCHANGED <<db, tracked, nextIdx, inbox, client, troubles>>

ProbePublished ==
    /\ Asking("Published")
    /\ \/ /\ Lookup(AskedTx) # Unknown
          /\ Answer(ConfirmationStatus(Lookup(AskedTx)))
          /\ UNCHANGED net
       \/ /\ Lookup(AskedTx) = Unknown
          /\ \E r \in Sends(AskedTx) : Sent(AskedTx, r) /\ Answer(r)
    /\ UNCHANGED <<db, tracked, nextIdx, inbox, client, troubles>>

\* Mutant: a confirmed transaction that disappears is not published again.
CheckConfirmationsMutant ==
    /\ Asking("Confirmed")
    /\ Answer(IF Lookup(AskedTx) \in {0, Unknown} THEN "Confirmed"
              ELSE ConfirmationStatus(Lookup(AskedTx)))
    /\ UNCHANGED <<db, tracked, nextIdx, inbox, client, net, troubles>>

CheckConfirmations ==
    /\ Asking("Confirmed")
    /\ Answer(IF Lookup(AskedTx) \in {0, Unknown} THEN "Unpublished"
              ELSE ConfirmationStatus(Lookup(AskedTx)))
    /\ UNCHANGED <<db, tracked, nextIdx, inbox, client, net, troubles>>

\* RetryLater keeps the status; so does a wallet that misses a transaction in
\* the mempool, which the node then reports as already known.
Retry ==
    /\ troubles < MaxTroubles
    /\ \E s \in {"Unpublished", "Published", "Confirmed"} : Asking(s) /\ Answer(s)
    /\ troubles' = troubles + 1
    /\ UNCHANGED <<db, tracked, nextIdx, inbox, client, net>>

\* Settled entries yield no update.
SkipEntry ==
    /\ pass.pc = "ask" /\ pass.i <= Len(tracked) /\ Settled(tracked[pass.i].status)
    /\ pass' = [pass EXCEPT !.i = @ + 1]
    /\ UNCHANGED <<db, tracked, nextIdx, inbox, client, net, troubles>>

\* Any other RPC error ends the service, and the node with it.
RpcError ==
    /\ troubles < MaxTroubles
    /\ Asking("Unpublished") \/ Asking("Published") \/ Asking("Confirmed")
    /\ troubles' = troubles + 1
    /\ pass' = [Waiting EXCEPT !.pc = "down"]
    /\ UNCHANGED <<db, tracked, nextIdx, inbox, client, net>>

\* The updated entries are written by index, one by one.
EndAsk ==
    /\ pass.pc = "ask" /\ pass.i > Len(tracked)
    /\ pass' = [pass EXCEPT !.pc = "write", !.i = 1]
    /\ UNCHANGED <<db, tracked, nextIdx, inbox, client, net, troubles>>

WriteEntry ==
    /\ pass.pc = "write" /\ pass.i <= Len(pass.updated)
    /\ LET e == pass.updated[pass.i]
       IN  db' = [db EXCEPT ![e.idx].status = e.status]
    /\ pass' = [pass EXCEPT !.i = @ + 1]
    /\ UNCHANGED <<tracked, nextIdx, inbox, client, net, troubles>>

\* fetch_unfinalized_entries, from index lo + 1 on
Fetch(lo) ==
    SelectSeq([k \in 1..(Len(db) - lo) |-> [idx |-> lo + k, status |-> db[lo + k].status]],
              LAMBDA e : ~Settled(e.status))

\* Mutant: the new rows replace the entries that are still tracked.
UpdateStateMutant ==
    /\ pass.pc = "write" /\ pass.i > Len(pass.updated)
    /\ tracked' = Fetch(nextIdx)
    /\ nextIdx' = Len(db)
    /\ pass' = Waiting
    /\ UNCHANGED <<db, inbox, client, net, troubles>>

\* update_state
UpdateState ==
    /\ pass.pc = "write" /\ pass.i > Len(pass.updated)
    /\ tracked' = SelectSeq(pass.updated, LAMBDA e : ~Settled(e.status)) \o Fetch(nextIdx)
    /\ nextIdx' = Len(db)
    /\ pass' = Waiting
    /\ UNCHANGED <<db, inbox, client, net, troubles>>

Crash ==
    /\ Up /\ troubles < MaxTroubles
    /\ pass' = [Waiting EXCEPT !.pc = "down"]
    /\ troubles' = troubles + 1
    /\ UNCHANGED <<db, tracked, nextIdx, inbox, client, net>>

\* BroadcasterServiceState::try_new; the clients lose what they were doing.
Restart ==
    /\ pass.pc = "down"
    /\ tracked' = Fetch(0)
    /\ nextIdx' = Len(db)
    /\ inbox' = <<>>
    /\ pass' = Waiting
    /\ client' = [t \in Tx |-> IF client[t].pc = "new" THEN client[t]
                               ELSE [client[t] EXCEPT !.pc = "done"]]
    /\ UNCHANGED <<db, net, troubles>>

-----------------------------------------------------------------------------
ServiceStep ==
    \/ Tick \/ TakeNotify \/ PublishEntry \/ ProbePublished \/ CheckConfirmations
    \/ Retry \/ SkipEntry \/ RpcError \/ EndAsk \/ WriteEntry \/ UpdateState

ClientStep(t) ==
    \/ PutTxEntry(t) \/ PutTxEntryAgain(t) \/ NotifyStored(t) \/ PublishCommit(t) \/ DeferCommit(t)
    \/ RecordCommit(t) \/ NotifyCommit(t)

NodeStep(t) == Mine(t) \/ Unmine(t) \/ Conflict(t)

Next == ServiceStep \/ Crash \/ Restart \/ \E t \in Tx : ClientStep(t) \/ NodeStep(t)

Spec == Init /\ [][Next]_vars

(* Fairness.  The poll interval ticks, the service takes its messages, a pass
   and a client's call run to their end, the service is restarted, and a
   transaction that stays in the mempool is mined. *)
FairSpec ==
    /\ Spec
    /\ WF_vars(Tick \/ TakeNotify) /\ SF_vars(TakeNotify)
    /\ WF_vars(ServiceStep /\ pass.pc # "idle")
    /\ WF_vars(Restart)
    /\ \A t \in Tx : /\ WF_vars(NotifyStored(t) \/ PublishCommit(t) \/ RecordCommit(t)
                                \/ NotifyCommit(t))
                     /\ WF_vars(Mine(t))

-----------------------------------------------------------------------------
(* Properties. *)

Tracks(es, k) == \E j \in DOMAIN es : es[j].idx = k

\* A stored entry that is not settled is tracked, is still to be scanned or is
\* about to be notified.
Watched(k) == ~Settled(db[k].status) => Tracks(tracked, k) \/ InFlight(db[k].tx)

\* No unsettled entry slips out of the tracked list: neither the order of
\* notification and scan, nor a pass that rewrites the list over what a client
\* recorded meanwhile, nor a crash does it.  The one exception is an entry whose
\* client was told that its transaction is refused and recorded that.
NoEntryForgotten ==
    Up => \A k \in 1..nextIdx : Watched(k) \/ client[db[k].tx].res = "InvalidInputs"

\* An entry is reported as final only when its transaction is beyond the reorg
\* depth, whatever stale statuses notifications and duplicates carry.
FinalizedIsDeep ==
    \A k \in DOMAIN db : db[k].status = "Finalized" => net[db[k].tx] = Depth

\* Every stored entry ends up final or refused, and stays that way, unless its
\* client was told that it is refused or the node reports it in conflict for
\* ever: confirmation_status keeps such an entry at Published.
EntrySettles ==
    \A t \in Tx :
        Stored(t) ~> \/ [](\E k \in DOMAIN db : db[k].tx = t /\ Settled(db[k].status))
                     \/ [](net[t] = Side)
                     \/ [](client[t].res = "InvalidInputs")
=============================================================================
