------------------------------- MODULE Prover -------------------------------
(***************************************************************************)
(* The prover of prover-core, as paas runs it: clients submit proof tasks   *)
(* and wait for them, every attempt at a task is a spawned run_task, and    *)
(* the service's tick recovers unfinished tasks once and then spawns those  *)
(* whose backoff has elapsed.  Attempts share nothing but the task store,   *)
(* whose updates read a row and write it back, so that two attempts at one  *)
(* task may overwrite each other.  Remote jobs outlive the process.         *)
(***************************************************************************)
EXTENDS Integers, Sequences

CONSTANTS
    Tasks,
    Runs,          \* bound on attempts that are alive at once, as their names
    Kinds,         \* provers that are built: [remote, kept], kept if a receipt store is configured
    MaxRetries, MaxResubmits, MaxRechecks,  \* RetryConfig
    MaxJobs,       \* bound on remote jobs
    MaxTroubles,   \* bound on failures
    MaxCrashes

ASSUME ProverAssumption ==
    /\ Runs \subseteq Nat \ {0} /\ Kinds \subseteq [remote : BOOLEAN, kept : BOOLEAN]
    /\ {MaxRetries, MaxResubmits, MaxRechecks, MaxJobs, MaxTroubles, MaxCrashes} \subseteq Nat

VARIABLES
    kind,      \* this prover, one of Kinds
    row,       \* the task store
    run,       \* the attempts; number 0 is the service's own recovery
    svc,       \* the service: [pc, list], list being what its tick works off
    recovered, \* Prover::recovered
    client,    \* where the client of a task is
    ready,     \* tasks whose dependencies are there
    jobs,      \* remote jobs: [task, state]
    receipts,  \* the receipt store
    proofs,    \* what the receipt hook has stored
    lost,      \* history: tasks with an update overwritten by an attempt that had read the row before
    troubles, crashes

vars == <<kind, row, run, svc, recovered, client, ready, jobs, receipts, proofs, lost, troubles, crashes>>

Working == {"Proving", "Blocked", "TransientFailure"}
Terminal == {"Completed", "PermanentFailure"}
Statuses == {"None", "Pending"} \cup Working \cup Terminal
Zero == [retry |-> 0, resubmit |-> 0, recheck |-> 0]
NoRow == [status |-> "None", counts |-> Zero, due |-> "unset", meta |-> 0]
NewRow == [NoRow EXCEPT !.status = "Pending"]
Free == [pc |-> "free", task |-> "none", counts |-> Zero, todo |-> <<>>, got |-> NoRow,
         next |-> "end", job |-> 0]
Resting == [pc |-> "idle", list |-> [t \in {} |-> NoRow]]

TypeOK ==
    /\ kind \in Kinds
    /\ DOMAIN row = Tasks
    /\ \A t \in Tasks :
          /\ row[t].status \in Statuses
          /\ row[t].counts.retry \in 0..MaxRetries - 1 /\ row[t].counts.resubmit \in 0..MaxResubmits - 1
          /\ row[t].counts.recheck \in 0..MaxRechecks
          /\ row[t].status \notin Working => row[t].counts = Zero
          /\ row[t].due \in {"unset", "later", "now"} /\ row[t].meta \in 0..Len(jobs)
    /\ \A r \in Runs \cup {0} :
          run[r].pc \in {"free", "begin", "modify", "resolve", "prove", "poll", "keep", "hook",
                         "rehook", "Completed", "Failed"}
    /\ svc.pc \in {"idle", "recover", "scan"}
    /\ recovered \in BOOLEAN
    /\ client \in [Tasks -> {"idle", "submitted", "waiting", "Completed", "Failed"}]
    /\ {ready, receipts, proofs, lost} \subseteq SUBSET Tasks
    /\ jobs \in Seq([task : Tasks, state : {"running", "done", "dead"}])
    /\ troubles \in 0..MaxTroubles /\ crashes \in 0..MaxCrashes

Init ==
    /\ kind \in Kinds
    /\ row = [t \in Tasks |-> NoRow]
    /\ run = [r \in Runs \cup {0} |-> Free]
    /\ svc = Resting
    /\ recovered = FALSE
    /\ client = [t \in Tasks |-> "idle"]
    /\ ready \in SUBSET Tasks
    /\ jobs = <<>> /\ receipts = {} /\ proofs = {} /\ lost = {}
    /\ troubles = 0 /\ crashes = 0

Trouble == troubles < MaxTroubles /\ troubles' = troubles + 1
Calm == UNCHANGED troubles

-----------------------------------------------------------------------------
(* Clients. *)

\* The attempts after a spawn of run_task for t.
Spawn(t, new) ==
    \E r \in Runs : /\ run[r].pc = "free" /\ \A q \in Runs : q < r => run[q].pc # "free"
                    /\ new = [run EXCEPT ![r] = [Free EXCEPT !.pc = "begin", !.task = t]]

\* submit, by a command of the service
Submit(t) ==
    /\ svc.pc = "idle" /\ client[t] = "idle"
    /\ client' = [client EXCEPT ![t] = "submitted"]
    /\ IF row[t].status = "None"
       THEN row' = [row EXCEPT ![t] = NewRow] /\ Spawn(t, run')
       ELSE UNCHANGED <<row, run>>
    /\ UNCHANGED <<kind, svc, recovered, ready, jobs, receipts, proofs, lost, troubles, crashes>>

Result(s) == IF s = "Completed" THEN "Completed" ELSE "Failed"

\* Mutant: the waiter subscribes without a look at the store.
WaitForTaskMutant(t) ==
    /\ client[t] = "submitted"
    /\ client' = [client EXCEPT ![t] = "waiting"]
    /\ UNCHANGED <<kind, row, run, svc, recovered, ready, jobs, receipts, proofs, lost, troubles, crashes>>

\* wait_for_tasks: store check and subscription under the watchers lock
WaitForTask(t) ==
    /\ client[t] = "submitted"
    /\ client' = [client EXCEPT ![t] = IF row[t].status \in Terminal THEN Result(row[t].status)
                                       ELSE "waiting"]
    /\ UNCHANGED <<kind, row, run, svc, recovered, ready, jobs, receipts, proofs, lost, troubles, crashes>>

-----------------------------------------------------------------------------
(* Updates of the task store.  An attempt has a list of them to do; each one
   reads the row and writes it back.  The first read is part of the step that
   decides on the list, whose other reads nobody else can disturb. *)

SetStatus(s, c) == [field |-> "status", status |-> s, counts |-> c, id |-> 0]
SetRetryAfter == [field |-> "due", status |-> "None", counts |-> Zero, id |-> 0]
SetMetadata(j) == [field |-> "meta", status |-> "None", counts |-> Zero, id |-> j]

Apply(m, old) == CASE m.field = "status" -> [old EXCEPT !.status = m.status, !.counts = m.counts]
                   [] m.field = "due" -> [old EXCEPT !.due = "later"]
                   [] m.field = "meta" -> [old EXCEPT !.meta = m.id]

\* The attempt a after the decision to do these updates, and then next.
Then(a, todo, next) == [a EXCEPT !.pc = "modify", !.todo = todo, !.next = next, !.got = row[a.task]]
Does(r, todo, next) == run' = [run EXCEPT ![r] = Then(@, todo, next)]

ReadRow(r) ==
    /\ run[r].pc = "modify" /\ run[r].got = NoRow
    /\ run' = [run EXCEPT ![r].got = row[run[r].task]]
    /\ UNCHANGED <<kind, row, svc, recovered, client, ready, jobs, receipts, proofs, lost, troubles, crashes>>

WriteRow(r) ==
    /\ run[r].pc = "modify" /\ run[r].got # NoRow
    /\ row' = [row EXCEPT ![run[r].task] = Apply(Head(run[r].todo), run[r].got)]
    /\ lost' = IF row[run[r].task] = run[r].got THEN lost ELSE lost \cup {run[r].task}
    /\ LET a == run[r] IN
       run' = [run EXCEPT ![r] = IF Len(a.todo) > 1 THEN [a EXCEPT !.todo = Tail(@), !.got = NoRow]
                                 ELSE IF a.next = "end" THEN Free
                                 ELSE [a EXCEPT !.pc = a.next, !.todo = <<>>, !.got = NoRow, !.next = "end"]]
    /\ UNCHANGED <<kind, svc, recovered, client, ready, jobs, receipts, proofs, troubles, crashes>>

\* Mutant: a task that is given up is forgotten.
GiveUpMutant(a) == Then(a, <<SetStatus("None", Zero)>>, "Failed")

GiveUp(a) == Then(a, <<SetStatus("PermanentFailure", Zero)>>, "Failed")

\* Mutant: a retry is counted twice.
ScheduleRetryMutant(a, fresh) ==
    LET c == IF fresh THEN [a.counts EXCEPT !.resubmit = @ + 1] ELSE [a.counts EXCEPT !.retry = @ + 2] IN
    IF IF fresh THEN c.resubmit < MaxResubmits ELSE c.retry < MaxRetries
    THEN Then(a, (IF fresh THEN <<SetMetadata(0)>> ELSE <<>>)
                 \o <<SetStatus("TransientFailure", c), SetRetryAfter>>, "end")
    ELSE GiveUp(a)

\* schedule_retry; a task that is parked again is not notified.
ScheduleRetry(a, fresh) ==
    LET c == IF fresh THEN [a.counts EXCEPT !.resubmit = @ + 1] ELSE [a.counts EXCEPT !.retry = @ + 1] IN
    IF IF fresh THEN c.resubmit < MaxResubmits ELSE c.retry < MaxRetries
    THEN Then(a, (IF fresh THEN <<SetMetadata(0)>> ELSE <<>>)
                 \o <<SetStatus("TransientFailure", c), SetRetryAfter>>, "end")
    ELSE GiveUp(a)

\* handle_error, for an error to retry or a permanent one
HandleError(r, a) == \E new \in {ScheduleRetry(a, FALSE), GiveUp(a)} : run' = [run EXCEPT ![r] = new]

\* park_blocked
ParkBlocked(a) ==
    LET c == [a.counts EXCEPT !.recheck = @ + 1] IN
    IF c.recheck > MaxRechecks THEN GiveUp(a)
    ELSE Then(a, <<SetStatus("Blocked", c), SetRetryAfter>>, "end")

-----------------------------------------------------------------------------
(* run_task *)

At(r, p) == run[r].pc = p
Goto(r, p) == run' = [run EXCEPT ![r].pc = p]
Counted(r) == [run[r] EXCEPT !.counts = row[run[r].task].counts]

\* The receipt of an earlier attempt skips the proof; otherwise the counters
\* are read and the row becomes Proving.
BeginRun(r) ==
    /\ At(r, "begin")
    /\ LET t == run[r].task IN
       \/ /\ kind.kept /\ t \in receipts /\ Calm
          /\ Goto(r, "rehook")
       \/ /\ kind.kept /\ Trouble
          /\ HandleError(r, Counted(r))
       \/ /\ ~(kind.kept /\ t \in receipts) /\ Calm
          /\ run' = [run EXCEPT ![r] = Then(Counted(r), <<SetStatus("Proving", row[t].counts)>>, "resolve")]
    /\ UNCHANGED <<kind, row, svc, recovered, client, ready, jobs, receipts, proofs, lost, crashes>>

\* resolve_input: ready, blocked, rejected or an error
ResolveInput(r) ==
    /\ At(r, "resolve")
    /\ LET a == run[r] IN
       \/ a.task \in ready /\ Calm /\ Goto(r, "prove")
       \/ a.task \notin ready /\ Calm /\ run' = [run EXCEPT ![r] = ParkBlocked(a)]
       \/ Trouble /\ HandleError(r, a)
    /\ UNCHANGED <<kind, row, svc, recovered, client, ready, jobs, receipts, proofs, lost, crashes>>

\* NativeStrategy: a proof, an error, or a panic
ProveNative(r) ==
    /\ At(r, "prove") /\ ~kind.remote
    /\ \/ Calm /\ Goto(r, "keep")
       \/ Trouble /\ HandleError(r, run[r])
    /\ UNCHANGED <<kind, row, svc, recovered, client, ready, jobs, receipts, proofs, lost, crashes>>

\* RemoteStrategy: the saved job, or a new one whose id is saved once the
\* service has answered.
ResumeJob(r) ==
    /\ At(r, "prove") /\ kind.remote /\ row[run[r].task].meta # 0
    /\ run' = [run EXCEPT ![r].pc = "poll", ![r].job = row[run[r].task].meta]
    /\ UNCHANGED <<kind, row, svc, recovered, client, ready, jobs, receipts, proofs, lost, troubles, crashes>>

SubmitJob(r) ==
    /\ At(r, "prove") /\ kind.remote /\ row[run[r].task].meta = 0
    /\ \/ /\ Len(jobs) < MaxJobs /\ Calm
          /\ jobs' = Append(jobs, [task |-> run[r].task, state |-> "running"])
          /\ run' = [run EXCEPT ![r] = Then([@ EXCEPT !.job = Len(jobs')], <<SetMetadata(Len(jobs'))>>, "poll")]
       \/ Trouble /\ HandleError(r, run[r]) /\ UNCHANGED jobs
    /\ UNCHANGED <<kind, row, svc, recovered, client, ready, receipts, proofs, lost, crashes>>

\* poll_until_done: a dead job is submitted afresh, or is the end.
PollJob(r) ==
    /\ At(r, "poll")
    /\ LET a == run[r]  s == jobs[a.job].state IN
       \/ s = "done" /\ Calm /\ Goto(r, "keep")
       \/ s = "dead" /\ Calm /\ \E new \in {ScheduleRetry(a, TRUE), GiveUp(a)} : run' = [run EXCEPT ![r] = new]
       \/ Trouble /\ HandleError(r, a)
    /\ UNCHANGED <<kind, row, svc, recovered, client, ready, jobs, receipts, proofs, lost, crashes>>

KeepReceipt(r) ==
    /\ At(r, "keep")
    /\ \/ /\ Calm /\ Goto(r, "hook")
          /\ receipts' = IF kind.kept THEN receipts \cup {run[r].task} ELSE receipts
       \/ Trouble /\ kind.kept /\ HandleError(r, run[r]) /\ UNCHANGED receipts
    /\ UNCHANGED <<kind, row, svc, recovered, client, ready, jobs, proofs, lost, crashes>>

Complete(r) == Does(r, <<SetStatus("Completed", Zero)>>, "Completed")

\* Mutant: the task is completed even when the hook fails.
ReceiptHookMutant(r) ==
    /\ run[r].pc \in {"hook", "rehook"}
    /\ \/ Calm /\ proofs' = proofs \cup {run[r].task} /\ Complete(r)
       \/ Trouble /\ UNCHANGED proofs /\ Complete(r)
    /\ UNCHANGED <<kind, row, svc, recovered, client, ready, jobs, receipts, lost, crashes>>

\* on_receipt, then the final status.  With a kept receipt the counters are
\* read only now.
ReceiptHook(r) ==
    /\ run[r].pc \in {"hook", "rehook"}
    /\ \/ Calm /\ proofs' = proofs \cup {run[r].task} /\ Complete(r)
       \/ /\ Trouble /\ UNCHANGED proofs
          /\ HandleError(r, IF run[r].pc = "rehook" THEN Counted(r) ELSE run[r])
    /\ UNCHANGED <<kind, row, svc, recovered, client, ready, jobs, receipts, lost, crashes>>

\* notify: every waiter gets the result.
Notify(r) ==
    /\ run[r].pc \in {"Completed", "Failed"}
    /\ LET t == run[r].task
       IN  client' = [client EXCEPT ![t] = IF @ = "waiting" THEN run[r].pc ELSE @]
    /\ run' = [run EXCEPT ![r] = Free]
    /\ UNCHANGED <<kind, row, svc, recovered, ready, jobs, receipts, proofs, lost, troubles, crashes>>

-----------------------------------------------------------------------------
(* The service's tick. *)

Retriable == {t \in Tasks : row[t].status \in {"Blocked", "TransientFailure"} /\ row[t].due = "now"}
Unfinished == {t \in Tasks : row[t].status \in {"Pending", "Proving"}}
Rows(S) == [t \in S |-> row[t]]
Rest(t) == [u \in DOMAIN svc.list \ {t} |-> svc.list[u]]

\* tick; one that is not the first and finds nothing changes nothing.
Tick ==
    /\ svc.pc = "idle"
    /\ IF recovered THEN Retriable # {} /\ svc' = [pc |-> "scan", list |-> Rows(Retriable)]
       ELSE svc' = [pc |-> "recover", list |-> Rows(Unfinished)]
    /\ recovered' = TRUE
    /\ UNCHANGED <<kind, row, run, client, ready, jobs, receipts, proofs, lost, troubles, crashes>>

\* Mutant: only tasks in progress are recovered.
RecoverTaskMutant(t) ==
    /\ svc.pc = "recover" /\ t \in DOMAIN svc.list /\ run[0].pc = "free"
    /\ svc' = [svc EXCEPT !.list = Rest(t)]
    /\ IF svc.list[t].status = "Proving"
       THEN run' = [run EXCEPT ![0] =
                      ScheduleRetry([Free EXCEPT !.task = t, !.counts = svc.list[t].counts], FALSE)]
       ELSE UNCHANGED run
    /\ UNCHANGED <<kind, row, recovered, client, ready, jobs, receipts, proofs, lost, troubles, crashes>>

\* recover, one listed task: a dead attempt counts as a failure, a pending
\* task is spawned.
RecoverTask(t) ==
    /\ svc.pc = "recover" /\ t \in DOMAIN svc.list /\ run[0].pc = "free"
    /\ svc' = [svc EXCEPT !.list = Rest(t)]
    /\ IF svc.list[t].status = "Proving"
       THEN run' = [run EXCEPT ![0] =
                      ScheduleRetry([Free EXCEPT !.task = t, !.counts = svc.list[t].counts], FALSE)]
       ELSE Spawn(t, run')
    /\ UNCHANGED <<kind, row, recovered, client, ready, jobs, receipts, proofs, lost, troubles, crashes>>

\* The scan of the tick that recovered
Scan ==
    /\ svc.pc = "recover" /\ DOMAIN svc.list = {} /\ run[0].pc = "free"
    /\ svc' = [pc |-> "scan", list |-> Rows(Retriable)]
    /\ UNCHANGED <<kind, row, run, recovered, client, ready, jobs, receipts, proofs, lost, troubles, crashes>>

SpawnRetriable(t) ==
    /\ svc.pc = "scan" /\ t \in DOMAIN svc.list
    /\ svc' = [svc EXCEPT !.list = Rest(t)]
    /\ Spawn(t, run')
    /\ UNCHANGED <<kind, row, recovered, client, ready, jobs, receipts, proofs, lost, troubles, crashes>>

EndTick ==
    /\ svc.pc = "scan" /\ DOMAIN svc.list = {}
    /\ svc' = Resting
    /\ UNCHANGED <<kind, row, run, recovered, client, ready, jobs, receipts, proofs, lost, troubles, crashes>>

-----------------------------------------------------------------------------
(* The environment. *)

\* retry_after passes, in the row and in what an attempt has read of it.
Elapse(t) ==
    /\ row[t].due = "later"
    /\ row' = [row EXCEPT ![t].due = "now"]
    /\ run' = [r \in Runs \cup {0} |-> IF run[r].task = t /\ run[r].got.due = "later"
                                      THEN [run[r] EXCEPT !.got.due = "now"] ELSE run[r]]
    /\ UNCHANGED <<kind, svc, recovered, client, ready, jobs, receipts, proofs, lost, troubles, crashes>>

DependencyReady(t) ==
    /\ t \notin ready
    /\ ready' = ready \cup {t}
    /\ UNCHANGED <<kind, row, run, svc, recovered, client, jobs, receipts, proofs, lost, troubles, crashes>>

JobEnds(j) ==
    /\ jobs[j].state = "running"
    /\ \/ Calm /\ jobs' = [jobs EXCEPT ![j].state = "done"]
       \/ Trouble /\ jobs' = [jobs EXCEPT ![j].state = "dead"]
    /\ UNCHANGED <<kind, row, run, svc, recovered, client, ready, receipts, proofs, lost, crashes>>

\* The process dies and is started again; stores and remote jobs remain.
Crash ==
    /\ crashes < MaxCrashes /\ crashes' = crashes + 1
    /\ run' = [r \in Runs \cup {0} |-> Free]
    /\ svc' = Resting /\ recovered' = FALSE
    /\ client' = [t \in Tasks |-> "idle"]
    /\ UNCHANGED <<kind, row, ready, jobs, receipts, proofs, lost, troubles>>

RunTask(r) ==
    \/ BeginRun(r) \/ ResolveInput(r) \/ ProveNative(r) \/ ResumeJob(r) \/ SubmitJob(r)
    \/ PollJob(r) \/ KeepReceipt(r) \/ ReceiptHook(r)
Update(r) == ReadRow(r) \/ WriteRow(r) \/ Notify(r)

Next ==
    \/ \E t \in Tasks : \/ Submit(t) \/ WaitForTask(t) \/ RecoverTask(t)
                         \/ SpawnRetriable(t) \/ Elapse(t) \/ DependencyReady(t)
    \/ \E r \in Runs : RunTask(r)
    \/ \E r \in Runs \cup {0} : Update(r)
    \/ Tick \/ Scan \/ EndTick \/ Crash
    \/ \E j \in 1..Len(jobs) : JobEnds(j)

Spec == Init /\ [][Next]_vars

\* The runtime runs every spawned attempt and every waiter, the service its
\* ticks; backoffs pass and remote jobs end.
Fairness ==
    /\ \A t \in Tasks : WF_vars(WaitForTask(t)) /\ WF_vars(Elapse(t))
                      /\ WF_vars(RecoverTask(t)) /\ WF_vars(SpawnRetriable(t))
    /\ \A r \in Runs : WF_vars(RunTask(r))
    /\ \A r \in Runs \cup {0} : WF_vars(Update(r))
    /\ WF_vars(Tick) /\ WF_vars(Scan) /\ WF_vars(EndTick)
    /\ \A j \in 1..MaxJobs : WF_vars(j \in DOMAIN jobs /\ JobEnds(j))

FairSpec == Spec /\ Fairness

-----------------------------------------------------------------------------
(* Properties *)

\* Whatever the interleaving of attempts, a task is reported completed, in
\* the store or to its client, only with its proof stored by the hook.
CompletedHasProof ==
    \A t \in Tasks : row[t].status = "Completed" \/ client[t] = "Completed" => t \in proofs

\* Lost updates and recoveries of attempts that are alive never cost a task
\* more of its retry budget than it met failures and recoveries: an attempt
\* that fails is counted once.
RetriesAreEarned ==
    \A t \in Tasks : row[t].counts.retry <= troubles + crashes + (IF recovered THEN 1 ELSE 0)

\* A row that waits for a rescan nobody has scheduled: the process died
\* between the two updates of schedule_retry or park_blocked.
Unscheduled(t) == row[t].status \in {"Blocked", "TransientFailure"} /\ row[t].due = "unset"

\* Every submitted task ends, completed or failed, through crashes, failures
\* and concurrent attempts, unless a crash left it unscheduled or one attempt
\* overwrote the other's update.
TaskSettles ==
    \A t \in Tasks : row[t].status # "None" ~> row[t].status \in Terminal \/ Unscheduled(t) \/ t \in lost

\* No waiter hangs, however the end of its task and its subscription are
\* interleaved, with the same exceptions.
WaiterIsAnswered ==
    \A t \in Tasks : client[t] = "waiting" ~> client[t] # "waiting" \/ Unscheduled(t) \/ t \in lost

TaskState(t) == CASE row[t].status = "None" -> "none"
                  [] row[t].status = "Completed" -> "done"
                  [] row[t].status = "PermanentFailure" -> "failed"
                  [] OTHER -> "open"

Service == INSTANCE ProofService WITH task <- [t \in Tasks |-> TaskState(t)]

\* The checkpoint pipeline relies on the prover only for what ProofService
\* says: with attempts, recoveries and crashes interleaved, a submitted task
\* is never forgotten and is done only when the hook has stored its proof.
ImplementsProofService == Service!ServiceSpec
=============================================================================
