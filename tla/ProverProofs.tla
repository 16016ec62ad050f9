---------------------------- MODULE ProverProofs ----------------------------
(***************************************************************************)
(* For any number of tasks and concurrent attempts, with any failures and   *)
(* crashes: a task is completed only with its proof stored, the prover      *)
(* implements ProofService, and no task is charged a retry that it did not  *)
(* earn.                                                                    *)
(***************************************************************************)
EXTENDS Prover, TLAPS

\* The back ends a leaf is tried with, in this order.
USE SMT, Z3, ZenonT(60)

Counts == [retry : Int, resubmit : Int, recheck : Int]
RowType == [status : Statuses, counts : Counts, due : {"unset", "later", "now"}, meta : Nat]
Mods == [field : {"status", "due", "meta"}, status : Statuses, counts : Counts, id : Nat]

\* An update an attempt at t may still have to write: it does not erase the
\* row, and it completes the task only if the proof is there.
MayWrite(t, m) == m.field = "status" => m.status # "None" /\ (m.status = "Completed" => t \in proofs)

\* What holds of an attempt.  What it has read of the row may be stale, but
\* the row was there, and if it was completed the proof was stored.
AttemptOK(a) ==
    a.pc # "free" =>
        /\ a.task \in Tasks /\ row[a.task].status # "None"
        /\ a.got = NoRow \/ a.got.status # "None"
        /\ a.got.status = "Completed" => a.task \in proofs
        /\ \A i \in 1..Len(a.todo) : MayWrite(a.task, a.todo[i])
        /\ a.pc = "modify" => Len(a.todo) > 0
        /\ "Completed" \in {a.pc, a.next} => a.task \in proofs

Places == {"free", "begin", "modify", "resolve", "prove", "poll", "keep", "hook", "rehook",
           "Completed", "Failed"}
Nexts == {"resolve", "poll", "Completed", "Failed", "end"}
AttemptType ==
    [pc : Places, task : Tasks \cup {"none"}, counts : Counts, todo : Seq(Mods), got : RowType,
     next : Nexts, job : Nat]

\* What the tick lists has been submitted.
ListOK ==
    /\ svc = [pc |-> svc.pc, list |-> svc.list]
    /\ svc.list \in [DOMAIN svc.list -> RowType]
    /\ \A t \in DOMAIN svc.list : t \in Tasks /\ row[t].status # "None"

ProofInv ==
    /\ row \in [Tasks -> RowType]
    /\ run \in [Runs \cup {0} -> AttemptType]
    /\ client \in [Tasks -> {"idle", "submitted", "waiting", "Completed", "Failed"}]
    /\ jobs \in Seq([task : Tasks, state : {"running", "done", "dead"}])
    /\ proofs \subseteq Tasks
    /\ ListOK
    /\ \A r \in Runs \cup {0} : AttemptOK(run[r])
    /\ CompletedHasProof

-----------------------------------------------------------------------------
(* What the decisions of an attempt leave behind. *)

\* Deciding on a list of harmless updates reads the row.
LEMMA ThenOK ==
    ASSUME ProofInv, NEW a \in AttemptType, a.task \in Tasks, row[a.task].status # "None",
           NEW todo \in Seq(Mods), Len(todo) > 0,
           \A i \in 1..Len(todo) : MayWrite(a.task, todo[i]),
           NEW next \in Nexts, next = "Completed" => a.task \in proofs
    PROVE  Then(a, todo, next) \in AttemptType /\ AttemptOK(Then(a, todo, next))
<1>1. row[a.task] \in RowType
    BY DEF ProofInv
<1>2. Then(a, todo, next) \in AttemptType
    BY <1>1, ZenonT(60) DEF Then, AttemptType, Places
<1>3. row[a.task].status = "Completed" => a.task \in proofs
    BY DEF ProofInv, CompletedHasProof
<1>4. AttemptOK(Then(a, todo, next))
    BY <1>3 DEF Then, AttemptOK, AttemptType
<1> QED
    BY <1>2, <1>4

\* The updates themselves.
LEMMA ModsOK ==
    /\ \A s \in Statuses, c \in Counts : SetStatus(s, c) \in Mods
    /\ SetRetryAfter \in Mods
    /\ \A j \in Nat : SetMetadata(j) \in Mods
    /\ Zero \in Counts
BY DEF SetStatus, SetRetryAfter, SetMetadata, Mods, Counts, Zero, Statuses, Working, Terminal

LEMMA GiveUpOK ==
    ASSUME ProofInv, NEW a \in AttemptType, a.task \in Tasks, row[a.task].status # "None"
    PROVE  GiveUp(a) \in AttemptType /\ AttemptOK(GiveUp(a))
<1> DEFINE todo == <<SetStatus("PermanentFailure", Zero)>>
<1>1. todo \in Seq(Mods) /\ Len(todo) > 0
    BY ModsOK DEF Statuses, Terminal
<1>2. \A i \in 1..Len(todo) : MayWrite(a.task, todo[i])
    BY DEF MayWrite, SetStatus
<1> QED
    BY <1>1, <1>2, ThenOK, ZenonT(60) DEF GiveUp, Nexts

\* Parking a task: a status other than None and Completed, then the time.
LEMMA ParkOK ==
    ASSUME ProofInv, NEW a \in AttemptType, a.task \in Tasks, row[a.task].status # "None",
           NEW c \in Counts, NEW s \in Working, NEW fresh \in BOOLEAN
    PROVE  LET new == Then(a, (IF fresh THEN <<SetMetadata(0)>> ELSE <<>>)
                              \o <<SetStatus(s, c), SetRetryAfter>>, "end")
           IN  new \in AttemptType /\ AttemptOK(new)
<1> DEFINE todo == (IF fresh THEN <<SetMetadata(0)>> ELSE <<>>) \o <<SetStatus(s, c), SetRetryAfter>>
<1>1. s \in Statuses
    BY DEF Statuses
<1>2. todo \in Seq(Mods) /\ Len(todo) > 0
    BY <1>1, ModsOK
<1>3. \A i \in 1..Len(todo) : todo[i] \in {SetMetadata(0), SetStatus(s, c), SetRetryAfter}
    OBVIOUS
<1>4. \A i \in 1..Len(todo) : MayWrite(a.task, todo[i])
    BY <1>3 DEF MayWrite, SetStatus, SetMetadata, SetRetryAfter, Working
<1> HIDE DEF todo
<1>5. Then(a, todo, "end") \in AttemptType /\ AttemptOK(Then(a, todo, "end"))
    BY <1>2, <1>4, ThenOK DEF Nexts
<1> QED
    BY <1>5 DEF todo

LEMMA ScheduleRetryOK ==
    ASSUME ProofInv, NEW a \in AttemptType, a.task \in Tasks, row[a.task].status # "None",
           NEW fresh \in BOOLEAN
    PROVE  ScheduleRetry(a, fresh) \in AttemptType /\ AttemptOK(ScheduleRetry(a, fresh))
<1> DEFINE c == IF fresh THEN [a.counts EXCEPT !.resubmit = @ + 1] ELSE [a.counts EXCEPT !.retry = @ + 1]
<1>1. c \in Counts
    BY DEF AttemptType, Counts
<1>2. "TransientFailure" \in Working
    BY DEF Working
<1> QED
    BY <1>1, <1>2, ParkOK, GiveUpOK DEF ScheduleRetry

LEMMA ParkBlockedOK ==
    ASSUME ProofInv, NEW a \in AttemptType, a.task \in Tasks, row[a.task].status # "None"
    PROVE  ParkBlocked(a) \in AttemptType /\ AttemptOK(ParkBlocked(a))
<1> DEFINE c == [a.counts EXCEPT !.recheck = @ + 1]
           todo == <<SetStatus("Blocked", c), SetRetryAfter>>
<1>1. c \in Counts
    BY DEF AttemptType, Counts
<1>2. todo \in Seq(Mods) /\ Len(todo) > 0
    BY <1>1, ModsOK DEF Statuses, Working
<1>3. \A i \in 1..Len(todo) : MayWrite(a.task, todo[i])
    BY DEF MayWrite, SetStatus, SetRetryAfter
<1>4. Then(a, todo, "end") \in AttemptType /\ AttemptOK(Then(a, todo, "end"))
    BY <1>2, <1>3, ThenOK, ZenonT(60) DEF Nexts
<1> QED
    BY <1>4, GiveUpOK DEF ParkBlocked

\* A step of one attempt that leaves the stores alone keeps the invariant if
\* what it makes of the attempt is in order.
LEMMA AttemptStep ==
    ASSUME ProofInv, NEW r \in Runs \cup {0}, NEW a \in AttemptType, AttemptOK(a),
           run' = [run EXCEPT ![r] = a], UNCHANGED <<row, client, proofs>>, ListOK',
           jobs' \in Seq([task : Tasks, state : {"running", "done", "dead"}])
    PROVE  ProofInv'
<1>1. run' \in [Runs \cup {0} -> AttemptType]
    BY DEF ProofInv
<1>2. \A q \in Runs \cup {0} : AttemptOK(run'[q])
    BY DEF ProofInv
<1>3. \A q \in Runs \cup {0} : AttemptOK(run[q])'
    BY <1>2 DEF AttemptOK, MayWrite
<1> QED
    BY <1>1, <1>3 DEF ProofInv, CompletedHasProof

\* An attempt slot that is free.
LEMMA FreeOK == Free \in AttemptType /\ NoRow \in RowType /\ Free.pc = "free"
<1>1. NoRow \in RowType
    BY ModsOK DEF RowType, NoRow, Statuses
<1>2. <<>> \in Seq(Mods)
    OBVIOUS
<1> QED
    BY <1>1, <1>2, ModsOK DEF AttemptType, Free, Places, Nexts

\* A spawned attempt has read nothing and decided nothing.
LEMMA Spawned ==
    ASSUME NEW t \in Tasks
    PROVE  \E a \in AttemptType :
              /\ a = [Free EXCEPT !.pc = "begin", !.task = t]
              /\ a.pc = "begin" /\ a.task = t /\ a.got = NoRow /\ Len(a.todo) = 0 /\ a.next = "end"
<1> DEFINE a == [Free EXCEPT !.pc = "begin", !.task = t]
<1>1. \A f \in AttemptType : LET g == [f EXCEPT !.pc = "begin", !.task = t] IN
          /\ g \in AttemptType /\ g.pc = "begin" /\ g.task = t
          /\ g.got = f.got /\ g.todo = f.todo /\ g.next = f.next
    BY ZenonT(60) DEF AttemptType, Places
<1>2. /\ a \in AttemptType /\ a.pc = "begin" /\ a.task = t
      /\ a.got = Free.got /\ a.todo = Free.todo /\ a.next = Free.next
    BY <1>1, FreeOK, ZenonT(60)
<1>3. Free.got = NoRow /\ Len(Free.todo) = 0 /\ Free.next = "end"
    BY DEF Free
<1> HIDE DEF a
<1>4. a.got = NoRow /\ Len(a.todo) = 0 /\ a.next = "end"
    BY <1>2, <1>3
<1> QED
    BY <1>2, <1>4, ZenonT(60) DEF a

LEMMA SpawnStep ==
    ASSUME ProofInv, NEW t \in Tasks, row[t].status # "None", NEW new, Spawn(t, new)
    PROVE  \E r \in Runs : \E a \in AttemptType : AttemptOK(a) /\ new = [run EXCEPT ![r] = a]
<1>1. PICK a \in AttemptType :
          /\ a = [Free EXCEPT !.pc = "begin", !.task = t]
          /\ a.pc = "begin" /\ a.task = t /\ a.got = NoRow /\ Len(a.todo) = 0 /\ a.next = "end"
    BY Spawned, ZenonT(60)
<1>2. \E r \in Runs : new = [run EXCEPT ![r] = a]
    BY <1>1, ZenonT(60) DEF Spawn
<1>3. AttemptOK(a)
  <2>1. a.pc = "begin" /\ a.task = t /\ a.got = NoRow /\ Len(a.todo) = 0 /\ a.next = "end"
      BY <1>1, ZenonT(60)
  <2> QED
      BY <2>1 DEF AttemptOK, NoRow
<1> QED
    BY <1>2, <1>3, ZenonT(60)

\* What an attempt is about to do when it is not free: facts for every step of
\* run_task.
LEMMA Attempting ==
    ASSUME ProofInv, NEW r \in Runs \cup {0}, run[r].pc # "free"
    PROVE  /\ run[r] \in AttemptType /\ run[r].task \in Tasks /\ row[run[r].task].status # "None"
           /\ Counted(r) \in AttemptType /\ Counted(r).task = run[r].task
           /\ row[run[r].task] \in RowType
<1>1. run[r] \in AttemptType /\ run[r].task \in Tasks /\ row[run[r].task].status # "None"
    BY DEF ProofInv, AttemptOK
<1>2. row[run[r].task] \in RowType
    BY <1>1 DEF ProofInv
<1>3. row[run[r].task].counts \in Counts
    BY <1>2 DEF RowType
<1>4. Counted(r) \in AttemptType /\ Counted(r).task = run[r].task
    BY <1>1, <1>3 DEF Counted, AttemptType
<1> QED
    BY <1>1, <1>2, <1>4

\* An attempt that goes on to p without a decision.
LEMMA GotoStep ==
    ASSUME ProofInv, NEW r \in Runs \cup {0}, run[r].pc \notin {"free", "modify"},
           NEW p \in Places \ {"modify", "Completed"}, Goto(r, p),
           UNCHANGED <<row, client, proofs, svc, jobs>>
    PROVE  ProofInv'
<1> DEFINE a == [run[r] EXCEPT !.pc = p]
<1>1. a \in AttemptType
    BY Attempting DEF AttemptType
<1>2. AttemptOK(a)
    BY Attempting DEF ProofInv, AttemptOK, AttemptType
<1>3. run' = [run EXCEPT ![r] = a]
    BY DEF Goto, ProofInv
<1> QED
    BY <1>1, <1>2, <1>3, AttemptStep, ZenonT(60) DEF ProofInv, ListOK

\* An attempt that failed.
LEMMA ErrorStep ==
    ASSUME ProofInv, NEW r \in Runs \cup {0}, NEW a \in AttemptType, a.task \in Tasks,
           row[a.task].status # "None", HandleError(r, a),
           UNCHANGED <<row, client, proofs, svc, jobs>>
    PROVE  ProofInv'
BY ScheduleRetryOK, GiveUpOK, AttemptStep, ZenonT(60) DEF HandleError, ProofInv, ListOK

-----------------------------------------------------------------------------
(* The inductive invariant. *)

\* Nothing is stored and nothing runs at first.
LEMMA InitProofInv == Init => ProofInv
<1> SUFFICES ASSUME Init PROVE ProofInv
    OBVIOUS
<1>1. row \in [Tasks -> RowType] /\ run \in [Runs \cup {0} -> AttemptType]
    BY FreeOK DEF Init
<1>2. \A r \in Runs \cup {0} : AttemptOK(run[r])
    BY FreeOK DEF Init, AttemptOK
<1>3. CompletedHasProof
    BY DEF Init, CompletedHasProof, NoRow
<1>4. svc = [pc |-> svc.pc, list |-> svc.list] /\ DOMAIN svc.list = {}
    BY DEF Init, Resting
<1>5. svc.list \in [DOMAIN svc.list -> RowType]
    BY <1>4 DEF Init, Resting
<1>6. jobs \in Seq([task : Tasks, state : {"running", "done", "dead"}])
    BY DEF Init
<1> QED
    BY <1>1, <1>2, <1>3, <1>4, <1>5, <1>6 DEF Init, ProofInv, ListOK

\* The service's own attempt at a task of its list, before it decides.
LEMMA RecoveredOK ==
    ASSUME NEW t \in Tasks, NEW c \in Counts
    PROVE  LET a == [Free EXCEPT !.task = t, !.counts = c] IN a \in AttemptType /\ a.task = t
<1>1. \A f \in AttemptType : LET g == [f EXCEPT !.task = t, !.counts = c]
                             IN  g \in AttemptType /\ g.task = t
    BY ZenonT(60) DEF AttemptType
<1> QED
    BY <1>1, FreeOK, ZenonT(60)

\* Submit, the waiters and the tick.
LEMMA ServiceStep ==
    ASSUME ProofInv, NEW t \in Tasks,
           \/ Submit(t) \/ WaitForTask(t) \/ RecoverTask(t) \/ SpawnRetriable(t)
           \/ DependencyReady(t) \/ Tick \/ Scan \/ EndTick
    PROVE  ProofInv'
<1>1. CASE Submit(t)
  <2>1. CASE row[t].status # "None"
      BY <1>1, <2>1 DEF Submit, ProofInv, ListOK, CompletedHasProof, AttemptOK, MayWrite
  <2>2. CASE row[t].status = "None"
    <3>1. NewRow \in RowType /\ NewRow.status = "Pending"
        BY FreeOK DEF NewRow, NoRow, RowType, Statuses
    <3>2. row' = [row EXCEPT ![t] = NewRow] /\ Spawn(t, run')
        BY <1>1, <2>2 DEF Submit
    <3>3. UNCHANGED <<svc, jobs, proofs>> /\ client' = [client EXCEPT ![t] = "submitted"]
        BY <1>1 DEF Submit
    <3>4. PICK a \in AttemptType :
              /\ a = [Free EXCEPT !.pc = "begin", !.task = t]
              /\ a.pc = "begin" /\ a.task = t /\ a.got = NoRow /\ Len(a.todo) = 0 /\ a.next = "end"
        BY Spawned, ZenonT(60)
    <3>5. \E r \in Runs : run' = [run EXCEPT ![r] = a]
        BY <3>2, <3>4, ZenonT(60) DEF Spawn
    <3>6. a.pc = "begin" /\ a.task = t /\ a.got = NoRow /\ Len(a.todo) = 0 /\ a.next = "end"
        BY <3>4, ZenonT(60)
    <3>7. row' \in [Tasks -> RowType] /\ row'[t].status # "None"
        BY <3>1, <3>2 DEF ProofInv
    <3>8. AttemptOK(a)'
        BY <3>6, <3>7 DEF AttemptOK, NoRow
    <3>9. \A q \in Runs \cup {0} : AttemptOK(run[q])'
        BY <3>2, <3>3, <3>5, <3>7, <3>8 DEF ProofInv, AttemptOK, MayWrite
    <3>10. run' \in [Runs \cup {0} -> AttemptType]
        BY <3>5 DEF ProofInv
    <3>11. CompletedHasProof'
        BY <3>1, <3>2, <3>3 DEF ProofInv, CompletedHasProof
    <3> QED
        BY <3>2, <3>3, <3>7, <3>9, <3>10, <3>11 DEF ProofInv, ListOK
  <2> QED
      BY <2>1, <2>2
<1>2. CASE WaitForTask(t)
    BY <1>2 DEF WaitForTask, ProofInv, ListOK, CompletedHasProof, AttemptOK, MayWrite, Result, Terminal
<1>3. CASE DependencyReady(t)
    BY <1>3 DEF DependencyReady, ProofInv, ListOK, CompletedHasProof, AttemptOK, MayWrite
<1>4. CASE Tick
  <2>1. ListOK'
    <3>1. \A S \in SUBSET Tasks : Rows(S) \in [S -> RowType] /\ DOMAIN Rows(S) = S
        BY DEF Rows, ProofInv
    <3>2. Retriable \in SUBSET Tasks /\ Unfinished \in SUBSET Tasks
        BY DEF Retriable, Unfinished
    <3>3. \A u \in Retriable \cup Unfinished : row[u].status # "None"
        BY DEF Retriable, Unfinished
    <3> QED
        BY <1>4, <3>1, <3>2, <3>3 DEF Tick, ListOK
  <2> QED
      BY <1>4, <2>1 DEF Tick, ProofInv, CompletedHasProof, AttemptOK, MayWrite
<1>5. CASE Scan
    BY <1>5 DEF Scan, Rows, Retriable, ProofInv, ListOK, CompletedHasProof, AttemptOK, MayWrite
<1>6. CASE EndTick
    BY <1>6 DEF EndTick, Resting, ProofInv, ListOK, CompletedHasProof, AttemptOK, MayWrite
<1>7. ASSUME svc' = [svc EXCEPT !.list = Rest(t)], t \in DOMAIN svc.list, UNCHANGED row
      PROVE  ListOK' /\ row[t].status # "None" /\ svc.list[t].counts \in Counts
    BY <1>7, ZenonT(60) DEF ProofInv, ListOK, Rest, RowType
<1>8. ASSUME svc' = [svc EXCEPT !.list = Rest(t)], t \in DOMAIN svc.list, Spawn(t, run'),
             UNCHANGED <<row, client, proofs, jobs>>
      PROVE  ProofInv'
  <2>1. PICK r \in Runs, a \in AttemptType : AttemptOK(a) /\ run' = [run EXCEPT ![r] = a]
      BY <1>7, <1>8, SpawnStep
  <2> QED
      BY <1>7, <1>8, <2>1, AttemptStep, ZenonT(60) DEF ProofInv
<1>9. CASE SpawnRetriable(t)
    BY <1>8, <1>9 DEF SpawnRetriable
<1>10. CASE RecoverTask(t)
  <2>1. CASE svc.list[t].status # "Proving"
      BY <1>8, <1>10, <2>1 DEF RecoverTask
  <2>2. CASE svc.list[t].status = "Proving"
    <3> DEFINE a == [Free EXCEPT !.task = t, !.counts = svc.list[t].counts]
    <3>1. ListOK' /\ row[t].status # "None" /\ svc.list[t].counts \in Counts
        BY <1>7, <1>10 DEF RecoverTask
    <3>2. a \in AttemptType /\ a.task = t
        BY <3>1, RecoveredOK, ZenonT(60)
    <3>3. run' = [run EXCEPT ![0] = ScheduleRetry(a, FALSE)] /\ UNCHANGED <<row, client, proofs, jobs>>
        BY <1>10, <2>2, ZenonT(60) DEF RecoverTask
    <3> HIDE DEF a
    <3> QED
        BY <3>1, <3>2, <3>3, ScheduleRetryOK, AttemptStep, ZenonT(60) DEF ProofInv
  <2> QED
      BY <2>1, <2>2
<1> QED
    BY <1>1, <1>2, <1>3, <1>4, <1>5, <1>6, <1>9, <1>10

\* The steps of run_task: only the receipt hook touches what the invariant is
\* about, and it stores the proof before it decides to complete the task.
LEMMA RunTaskStep ==
    ASSUME ProofInv, NEW r \in Runs, RunTask(r)
    PROVE  ProofInv'
<1>1. r \in Runs \cup {0} /\ run[r].pc \notin {"free", "modify"}
    BY ZenonT(60) DEF RunTask, BeginRun, ResolveInput, ProveNative, ResumeJob, SubmitJob, PollJob, KeepReceipt,
           ReceiptHook, At
<1>2. /\ run[r] \in AttemptType /\ run[r].task \in Tasks /\ row[run[r].task].status # "None"
      /\ Counted(r) \in AttemptType /\ Counted(r).task = run[r].task
      /\ row[run[r].task] \in RowType
    BY <1>1, Attempting
<1>3. ASSUME UNCHANGED <<row, client, proofs, svc, jobs>>,
             \/ \E p \in Places \ {"modify", "Completed"} : Goto(r, p)
             \/ HandleError(r, run[r]) \/ HandleError(r, Counted(r))
      PROVE  ProofInv'
    BY <1>1, <1>2, <1>3, GotoStep, ErrorStep
<1>4. CASE BeginRun(r)
  <2>1. CASE run' = [run EXCEPT ![r] = Then(Counted(r), <<SetStatus("Proving", row[run[r].task].counts)>>,
                                            "resolve")]
    <3> DEFINE todo == <<SetStatus("Proving", row[run[r].task].counts)>>
    <3>1. todo \in Seq(Mods) /\ Len(todo) > 0
        BY <1>2, ModsOK DEF Statuses, Working, RowType
    <3>2. \A i \in 1..Len(todo) : MayWrite(run[r].task, todo[i])
        BY DEF MayWrite, SetStatus
    <3> HIDE DEF todo
    <3>3. Then(Counted(r), todo, "resolve") \in AttemptType /\ AttemptOK(Then(Counted(r), todo, "resolve"))
        BY <1>2, <3>1, <3>2, ThenOK DEF Nexts
    <3> QED
        BY <1>1, <1>4, <2>1, <3>3, AttemptStep, ZenonT(60) DEF BeginRun, ProofInv, ListOK, todo
  <2>2. CASE Goto(r, "rehook") \/ HandleError(r, Counted(r))
      BY <1>3, <1>4, <2>2 DEF BeginRun, Places
  <2> QED
      BY <1>4, <2>1, <2>2 DEF BeginRun
<1>5. CASE ResolveInput(r)
  <2>1. CASE run' = [run EXCEPT ![r] = ParkBlocked(run[r])]
      BY <1>1, <1>2, <1>5, <2>1, ParkBlockedOK, AttemptStep, ZenonT(60) DEF ResolveInput, ProofInv, ListOK
  <2>2. CASE Goto(r, "prove") \/ HandleError(r, run[r])
      BY <1>3, <1>5, <2>2 DEF ResolveInput, Places
  <2> QED
      BY <1>5, <2>1, <2>2 DEF ResolveInput
<1>6. CASE ProveNative(r)
    BY <1>3, <1>6 DEF ProveNative, Places
<1>7. CASE ResumeJob(r)
  <2> DEFINE a == [run[r] EXCEPT !.pc = "poll", !.job = row[run[r].task].meta]
  <2>1. row[run[r].task].meta \in Nat
      BY <1>2 DEF RowType
  <2>2. a \in AttemptType
      BY <1>2, <2>1, ZenonT(60) DEF AttemptType, Places
  <2>3. AttemptOK(run[r])
      BY <1>1 DEF ProofInv
  <2>4. AttemptOK(a)
      BY <1>1, <1>2, <2>3 DEF AttemptOK, AttemptType
  <2>5. run' = [run EXCEPT ![r] = a]
      BY <1>1, <1>7, ZenonT(60) DEF ResumeJob, ProofInv
  <2> HIDE DEF a
  <2> QED
      BY <1>1, <1>7, <2>2, <2>4, <2>5, AttemptStep, ZenonT(60) DEF ResumeJob, ProofInv, ListOK
<1>8. CASE SubmitJob(r)
  <2>1. CASE jobs' = Append(jobs, [task |-> run[r].task, state |-> "running"])
    <3> DEFINE n == Len(jobs')  a == [run[r] EXCEPT !.job = n]  todo == <<SetMetadata(n)>>
    <3>1. jobs' \in Seq([task : Tasks, state : {"running", "done", "dead"}]) /\ n \in Nat /\ jobs' # jobs
        BY <1>2, <2>1 DEF ProofInv
    <3>2. run' = [run EXCEPT ![r] = Then(a, todo, "poll")]
        BY <1>1, <1>8, <3>1 DEF SubmitJob, ProofInv
    <3> HIDE DEF n
    <3>3. a \in AttemptType /\ a.task = run[r].task
        BY <1>2, <3>1, ZenonT(60) DEF AttemptType
    <3>4. todo \in Seq(Mods) /\ Len(todo) > 0
        BY <3>1, ModsOK
    <3>5. \A i \in 1..Len(todo) : MayWrite(a.task, todo[i])
        BY DEF MayWrite, SetMetadata
    <3> HIDE DEF a, todo
    <3>6. Then(a, todo, "poll") \in AttemptType /\ AttemptOK(Then(a, todo, "poll"))
        BY <1>2, <3>3, <3>4, <3>5, ThenOK DEF Nexts
    <3> QED
        BY <1>1, <1>8, <3>1, <3>2, <3>6, AttemptStep, ZenonT(60) DEF SubmitJob, ProofInv, ListOK
  <2>2. CASE HandleError(r, run[r]) /\ UNCHANGED jobs
      BY <1>3, <1>8, <2>2 DEF SubmitJob
  <2> QED
      BY <1>8, <2>1, <2>2 DEF SubmitJob
<1>9. CASE PollJob(r)
  <2>1. CASE \E new \in {ScheduleRetry(run[r], TRUE), GiveUp(run[r])} : run' = [run EXCEPT ![r] = new]
      BY <1>1, <1>2, <1>9, <2>1, ScheduleRetryOK, GiveUpOK, AttemptStep, ZenonT(60) DEF PollJob, ProofInv, ListOK
  <2>2. CASE Goto(r, "keep") \/ HandleError(r, run[r])
      BY <1>3, <1>9, <2>2 DEF PollJob, Places
  <2> QED
      BY <1>9, <2>1, <2>2, ZenonT(60) DEF PollJob
<1>10. CASE KeepReceipt(r)
    BY <1>3, <1>10 DEF KeepReceipt, Places
<1>11. CASE ReceiptHook(r)
  <2>1. CASE UNCHANGED proofs /\ (HandleError(r, run[r]) \/ HandleError(r, Counted(r)))
      BY <1>3, <1>11, <2>1 DEF ReceiptHook
  <2>2. CASE proofs' = proofs \cup {run[r].task} /\ Complete(r)
    <3> DEFINE todo == <<SetStatus("Completed", Zero)>>  a == Then(run[r], todo, "Completed")
    <3>1. todo \in Seq(Mods) /\ Len(todo) = 1 /\ todo[1] = SetStatus("Completed", Zero)
        BY ModsOK DEF Statuses, Terminal
    <3>2. run' = [run EXCEPT ![r] = a] /\ UNCHANGED <<row, client, svc, jobs>>
        BY <1>1, <1>11, <2>2 DEF Complete, Does, ProofInv, ReceiptHook
    <3>3. a \in AttemptType
        BY <1>2, <3>1, ZenonT(60) DEF AttemptType, Then, Places, Nexts
    <3>4. /\ a.task = run[r].task /\ a.got = row[run[r].task] /\ a.todo = todo
        BY <1>2 DEF Then, AttemptType
    <3>5. PICK t \in Tasks : t = run[r].task /\ row[t].status # "None"
        BY <1>2
    <3>6. PICK b \in AttemptType : /\ run' = [run EXCEPT ![r] = b] /\ b.task = t /\ b.got = row[t]
                                  /\ Len(b.todo) = 1 /\ b.todo[1] = SetStatus("Completed", Zero)
        BY <3>1, <3>2, <3>3, <3>4, <3>5, ZenonT(60)
    <3>7. t \in proofs'
        BY <2>2, <3>5
    <3>8. AttemptOK(b)'
        BY <3>2, <3>5, <3>6, <3>7 DEF AttemptOK, MayWrite, SetStatus
    <3>9. \A q \in Runs \cup {0} : AttemptOK(run[q])'
      <4>1. \A q \in Runs \cup {0} : run'[q] = IF q = r THEN b ELSE run[q]
          BY <1>1, <3>6 DEF ProofInv
      <4>2. \A q \in Runs \cup {0} : AttemptOK(run[q])
          BY DEF ProofInv
      <4> QED
          BY <2>2, <3>2, <3>8, <4>1, <4>2 DEF AttemptOK, MayWrite
    <3>10. run' \in [Runs \cup {0} -> AttemptType] /\ proofs' \subseteq Tasks
        BY <1>1, <1>2, <2>2, <3>6 DEF ProofInv
    <3> QED
        BY <2>2, <3>2, <3>9, <3>10 DEF ProofInv, ListOK, CompletedHasProof
  <2> QED
      BY <1>11, <2>1, <2>2 DEF ReceiptHook
<1> QED
    BY <1>4, <1>5, <1>6, <1>7, <1>8, <1>9, <1>10, <1>11 DEF RunTask

\* An update writes what the attempt read before, changed in one field: no row
\* disappears and none is completed without its proof, whatever was written in
\* between.
LEMMA WriteRowStep ==
    ASSUME ProofInv, NEW r \in Runs \cup {0}, WriteRow(r)
    PROVE  /\ ProofInv'
           /\ \E t \in Tasks : \E new \in RowType :
                /\ row' = [row EXCEPT ![t] = new] /\ row[t].status # "None"
                /\ new.status # "None" /\ (new.status = "Completed" => t \in proofs)
<1>1. PICK a \in AttemptType : a = run[r] /\ AttemptOK(a) /\ a.pc = "modify" /\ a.got # NoRow
    BY DEF WriteRow, ProofInv
<1>2. PICK t \in Tasks : t = a.task /\ row[t].status # "None"
    BY <1>1 DEF AttemptOK
<1>3. a.todo \in Seq(Mods) /\ Len(a.todo) > 0 /\ a.got \in RowType /\ a.next \in Nexts
    BY <1>1 DEF AttemptOK, AttemptType
<1>4. PICK m \in Mods : m = Head(a.todo) /\ MayWrite(t, m)
    BY <1>1, <1>2, <1>3 DEF AttemptOK
<1>5. PICK new : new = Apply(m, a.got)
    OBVIOUS
<1>6. /\ new \in RowType /\ new.status # "None" /\ (new.status = "Completed" => t \in proofs)
  <2>1. a.got.status # "None" /\ (a.got.status = "Completed" => t \in proofs)
      BY <1>1, <1>2 DEF AttemptOK
  <2> QED
      BY <1>3, <1>4, <1>5, <2>1, ZenonT(60) DEF Apply, MayWrite, Mods, RowType
<1>7. row' = [row EXCEPT ![t] = new] /\ UNCHANGED <<svc, client, jobs, proofs>>
    BY <1>1, <1>2, <1>4, <1>5 DEF WriteRow
<1>8. row' \in [Tasks -> RowType] /\ \A u \in Tasks : row[u].status # "None" => row'[u].status # "None"
    BY <1>6, <1>7 DEF ProofInv
<1>9. PICK b \in AttemptType : run' = [run EXCEPT ![r] = b] /\ AttemptOK(b)'
  <2> DEFINE b == IF Len(a.todo) > 1 THEN [a EXCEPT !.todo = Tail(@), !.got = NoRow]
                  ELSE IF a.next = "end" THEN Free
                  ELSE [a EXCEPT !.pc = a.next, !.todo = <<>>, !.got = NoRow, !.next = "end"]
  <2>1. run' = [run EXCEPT ![r] = b]
      BY <1>1 DEF WriteRow
  <2>2. CASE Len(a.todo) > 1
    <3>1. PICK s \in Seq(Mods) : /\ s = Tail(a.todo) /\ Len(s) = Len(a.todo) - 1
                                 /\ \A i \in 1..Len(s) : s[i] = a.todo[i + 1]
      <4>1. \A d \in Seq(Mods) : Len(d) > 1 =>
                /\ Tail(d) \in Seq(Mods) /\ Len(Tail(d)) = Len(d) - 1
                /\ \A i \in 1..Len(Tail(d)) : Tail(d)[i] = d[i + 1]
          OBVIOUS
      <4> QED
          BY <1>3, <2>2, <4>1, ZenonT(60)
    <3>2. b = [a EXCEPT !.todo = s, !.got = NoRow]
        BY <2>2, <3>1
    <3>3. b \in AttemptType
        BY <3>2, FreeOK, ZenonT(60) DEF AttemptType
    <3>4. /\ b.todo = s /\ b.got = NoRow /\ b.pc = "modify" /\ b.task = t /\ b.next = a.next
        BY <1>1, <1>2, <3>2, ZenonT(60) DEF AttemptType
    <3>5. \A i \in 1..Len(s) : MayWrite(t, s[i])
        BY <1>1, <1>2, <3>1 DEF AttemptOK
    <3>6. AttemptOK(b)'
        BY <1>1, <1>2, <1>7, <1>8, <2>2, <3>1, <3>4, <3>5 DEF AttemptOK, NoRow, MayWrite
    <3> QED
        BY <2>1, <3>3, <3>6, ZenonT(60)
  <2>3. CASE Len(a.todo) <= 1 /\ a.next = "end"
    <3>1. b = Free
        BY <1>3, <2>3
    <3> QED
        BY <2>1, <3>1, FreeOK, ZenonT(60) DEF AttemptOK
  <2>4. CASE Len(a.todo) <= 1 /\ a.next # "end"
    <3>empty. <<>> \in Seq(Mods) /\ Len(<<>>) = 0
        OBVIOUS
    <3>1. PICK s \in Seq(Mods) : s = <<>> /\ Len(s) = 0
        BY <3>empty, ZenonT(60)
    <3>2. b = [a EXCEPT !.pc = a.next, !.todo = s, !.got = NoRow, !.next = "end"]
        BY <1>3, <2>4, <3>1
    <3>3. b \in AttemptType
        BY <1>3, <2>4, <3>2, FreeOK, ZenonT(60) DEF AttemptType, Places, Nexts
    <3>4. /\ b.todo = s /\ b.got = NoRow /\ b.pc = a.next /\ b.task = t /\ b.next = "end"
        BY <1>1, <1>2, <3>2, ZenonT(60) DEF AttemptType
    <3>5. AttemptOK(b)'
        BY <1>1, <1>2, <1>3, <1>7, <1>8, <3>1, <3>4 DEF AttemptOK, NoRow, Nexts
    <3> QED
        BY <2>1, <3>3, <3>5, ZenonT(60)
  <2> QED
      BY <1>3, <2>2, <2>3, <2>4
<1>10. \A q \in Runs \cup {0} : AttemptOK(run[q])'
  <2>1. \A q \in Runs \cup {0} : run'[q] = IF q = r THEN b ELSE run[q]
      BY <1>9 DEF ProofInv
  <2>2. \A q \in Runs \cup {0} : AttemptOK(run[q])
      BY DEF ProofInv
  <2> QED
      BY <1>7, <1>8, <1>9, <2>1, <2>2 DEF AttemptOK, MayWrite
<1>11. run' \in [Runs \cup {0} -> AttemptType]
    BY <1>9 DEF ProofInv
<1>12. CompletedHasProof'
    BY <1>6, <1>7 DEF ProofInv, CompletedHasProof
<1> QED
    BY <1>2, <1>6, <1>7, <1>8, <1>10, <1>11, <1>12, ZenonT(60) DEF ProofInv, ListOK

\* The other steps of an update, time, remote jobs and crashes.
LEMMA OtherStep ==
    ASSUME ProofInv,
           \/ \E r \in Runs \cup {0} : ReadRow(r) \/ Notify(r)
           \/ \E t \in Tasks : Elapse(t)
           \/ \E j \in 1..Len(jobs) : JobEnds(j)
           \/ Crash
    PROVE  ProofInv'
<1>1. ASSUME NEW r \in Runs \cup {0}, ReadRow(r) PROVE ProofInv'
  <2>1. PICK a \in AttemptType : a = run[r] /\ AttemptOK(a) /\ a.pc = "modify"
      BY <1>1 DEF ReadRow, ProofInv
  <2>2. PICK old \in RowType : old = row[a.task] /\ old.status # "None"
                               /\ (old.status = "Completed" => a.task \in proofs)
      BY <2>1 DEF ProofInv, AttemptOK, CompletedHasProof
  <2>3. [a EXCEPT !.got = old] \in AttemptType
      BY <2>1 DEF AttemptType
  <2>4. AttemptOK([a EXCEPT !.got = old])
      BY <2>1, <2>2 DEF AttemptOK, AttemptType
  <2>5. run' = [run EXCEPT ![r] = [a EXCEPT !.got = old]] /\ UNCHANGED <<row, client, proofs, svc, jobs>>
      BY <1>1, <2>1, <2>2 DEF ReadRow, ProofInv
  <2> QED
      BY <2>3, <2>4, <2>5, AttemptStep, ZenonT(60) DEF ProofInv, ListOK
<1>2. ASSUME NEW r \in Runs \cup {0}, Notify(r) PROVE ProofInv'
  <2>1. PICK a \in AttemptType : a = run[r] /\ AttemptOK(a) /\ a.pc \in {"Completed", "Failed"}
      BY <1>2 DEF Notify, ProofInv
  <2>2. /\ client' = [client EXCEPT ![a.task] = IF @ = "waiting" THEN a.pc ELSE @]
        /\ run' = [run EXCEPT ![r] = Free] /\ UNCHANGED <<row, proofs, svc, jobs>>
      BY <1>2, <2>1 DEF Notify
  <2>3. a.task \in Tasks /\ (a.pc = "Completed" => a.task \in proofs)
      BY <2>1 DEF AttemptOK
  <2>4. client' \in [Tasks -> {"idle", "submitted", "waiting", "Completed", "Failed"}]
      BY <2>1, <2>2, <2>3 DEF ProofInv
  <2>5. CompletedHasProof'
      BY <2>1, <2>2, <2>3 DEF ProofInv, CompletedHasProof
  <2>6. \A q \in Runs \cup {0} : AttemptOK(run[q])'
      BY <2>2, FreeOK DEF ProofInv, AttemptOK, MayWrite
  <2>7. run' \in [Runs \cup {0} -> AttemptType]
      BY <2>2, FreeOK DEF ProofInv
  <2> QED
      BY <2>2, <2>4, <2>5, <2>6, <2>7 DEF ProofInv, ListOK
<1>3. ASSUME NEW t \in Tasks, Elapse(t) PROVE ProofInv'
  <2>now. \A o \in RowType : LET n == [o EXCEPT !.due = "now"]
                           IN  n \in RowType /\ n.status = o.status
      BY DEF RowType
  <2>1. PICK new \in RowType : row' = [row EXCEPT ![t] = new] /\ new.status = row[t].status
    <3>1. row[t] \in RowType /\ row' = [row EXCEPT ![t] = [row[t] EXCEPT !.due = "now"]]
        BY <1>3 DEF Elapse, ProofInv
    <3> QED
        BY <2>now, <3>1, ZenonT(60)
  <2>2. row' \in [Tasks -> RowType] /\ \A u \in Tasks : row'[u].status = row[u].status
      BY <2>1 DEF ProofInv
  <2>3. UNCHANGED <<svc, client, jobs, proofs>>
      BY <1>3 DEF Elapse
  <2>4. ASSUME NEW q \in Runs \cup {0} PROVE run'[q] \in AttemptType /\ AttemptOK(run[q])'
    <3>1. PICK a \in AttemptType : a = run[q] /\ AttemptOK(a)
        BY DEF ProofInv
    <3>2. AttemptOK(a)'
        BY <2>2, <2>3, <3>1 DEF AttemptOK, MayWrite
    <3>3. CASE run'[q] = run[q]
        BY <3>1, <3>2, <3>3
    <3>4. CASE run'[q] # run[q]
      <4>1. run'[q] = [a EXCEPT !.got.due = "now"] /\ a.got.due = "later"
          BY <1>3, <3>1, <3>4 DEF Elapse
      <4>2. PICK g \in RowType : g = [a.got EXCEPT !.due = "now"] /\ g.status = a.got.status
        <5>1. a.got \in RowType
            BY DEF AttemptType
        <5> QED
            BY <2>now, <5>1, ZenonT(60)
      <4>3. run'[q] = [a EXCEPT !.got = g]
          BY <4>1, <4>2 DEF AttemptType
      <4>4. PICK b \in AttemptType : b = run'[q] /\ b.got = g /\ b.pc = a.pc /\ b.task = a.task
                                     /\ b.todo = a.todo /\ b.next = a.next
          BY <4>3 DEF AttemptType
      <4>5. a.pc # "free" => g.status # "None"
          BY <3>1, <4>1, <4>2 DEF AttemptOK, NoRow
      <4>6. AttemptOK(b)'
          BY <3>2, <4>2, <4>4, <4>5 DEF AttemptOK
      <4> QED
          BY <4>4, <4>6
    <3> QED
        BY <3>3, <3>4
  <2>5. run' \in [Runs \cup {0} -> AttemptType]
      BY <1>3, <2>4, ZenonT(60) DEF Elapse
  <2>6. CompletedHasProof'
      BY <2>2, <2>3 DEF ProofInv, CompletedHasProof
  <2> QED
      BY <2>2, <2>3, <2>4, <2>5, <2>6 DEF ProofInv, ListOK
<1>4. ASSUME NEW j \in 1..Len(jobs), JobEnds(j) PROVE ProofInv'
  <2>1. jobs' \in Seq([task : Tasks, state : {"running", "done", "dead"}])
    <3> DEFINE J == [task : Tasks, state : {"running", "done", "dead"}]
    <3>1. \A e \in J : \A s \in {"done", "dead"} : [e EXCEPT !.state = s] \in J
        OBVIOUS
    <3>2. jobs \in Seq(J)
        BY DEF ProofInv
    <3>3. \E s \in {"done", "dead"} : jobs' = [jobs EXCEPT ![j] = [jobs[j] EXCEPT !.state = s]]
        BY <1>4 DEF JobEnds
    <3> HIDE DEF J
    <3>4. jobs[j] \in J
        BY <3>2
    <3>5. PICK e \in J : jobs' = [jobs EXCEPT ![j] = e]
        BY <3>1, <3>3, <3>4, ZenonT(60)
    <3>6. jobs' \in Seq(J)
        BY <3>2, <3>5
    <3> QED
        BY <3>6 DEF J
  <2> QED
      BY <1>4, <2>1 DEF JobEnds, ProofInv, ListOK, CompletedHasProof, AttemptOK, MayWrite
<1>5. CASE Crash
  <2>1. run' \in [Runs \cup {0} -> AttemptType] /\ \A q \in Runs \cup {0} : AttemptOK(run[q])'
      BY <1>5, FreeOK DEF Crash, AttemptOK
  <2>2. ListOK'
      BY <1>5 DEF Crash, Resting, ListOK
  <2>3. CompletedHasProof'
      BY <1>5 DEF Crash, ProofInv, CompletedHasProof
  <2> QED
      BY <1>5, <2>1, <2>2, <2>3 DEF Crash, ProofInv
<1> QED
    BY <1>1, <1>2, <1>3, <1>4, <1>5

\* Every step keeps the invariant.
LEMMA NextProofInv == ProofInv /\ [Next]_vars => ProofInv'
<1> SUFFICES ASSUME ProofInv, [Next]_vars PROVE ProofInv'
    OBVIOUS
<1>1. CASE UNCHANGED vars
    BY <1>1 DEF vars, ProofInv, ListOK, CompletedHasProof, AttemptOK, MayWrite
<1>2. ASSUME NEW t \in Tasks,
             Submit(t) \/ WaitForTask(t) \/ RecoverTask(t) \/ SpawnRetriable(t) \/ DependencyReady(t)
      PROVE  ProofInv'
    BY <1>2, ServiceStep
<1>3. CASE Tick \/ Scan \/ EndTick
  <2>1. CASE Tasks # {}
      BY <1>3, <2>1, ServiceStep
  <2>2. CASE Tasks = {}
      BY <1>3, <2>2 DEF Tick, Scan, EndTick, ProofInv, ListOK, CompletedHasProof, AttemptOK, MayWrite,
         Rows, Retriable, Unfinished, Resting
  <2> QED
      BY <2>1, <2>2
<1>4. ASSUME NEW r \in Runs, RunTask(r) PROVE ProofInv'
    BY <1>4, RunTaskStep
<1>5. ASSUME NEW r \in Runs \cup {0}, Update(r) PROVE ProofInv'
    BY <1>5, WriteRowStep, OtherStep DEF Update
<1>6. CASE (\E t \in Tasks : Elapse(t)) \/ (\E j \in 1..Len(jobs) : JobEnds(j)) \/ Crash
    BY <1>6, OtherStep
<1> QED
    BY <1>1, <1>2, <1>3, <1>4, <1>5, <1>6 DEF Next

LEMMA ProofInvHolds == Spec => []ProofInv
    BY InitProofInv, NextProofInv, PTL DEF Spec

(* A task is reported completed, in the store or to its client, only with its
   proof stored by the receipt hook, for any number of tasks, of attempts that
   overlap, of failures and of crashes. *)
THEOREM CompletedIsProved == Spec => []CompletedHasProof
<1>1. ProofInv => CompletedHasProof
    BY DEF ProofInv
<1> QED
    BY <1>1, ProofInvHolds, PTL

-----------------------------------------------------------------------------
(* Refinement. *)

TaskMap == [t \in Tasks |-> TaskState(t)]

\* A step that leaves rows and proofs alone is a stutter of the service.
LEMMA ServiceStutter ==
    ASSUME UNCHANGED <<row, proofs>>
    PROVE  UNCHANGED <<TaskMap, proofs>>
BY DEF TaskMap, TaskState

LEMMA NextImplements ==
    ASSUME ProofInv, Next
    PROVE  [Service!ServiceNext]_<<TaskMap, proofs>>
<1>1. ASSUME NEW t \in Tasks, Submit(t) PROVE [Service!ServiceNext]_<<TaskMap, proofs>>
  <2>1. CASE row[t].status # "None"
      BY <1>1, <2>1, ServiceStutter DEF Submit
  <2>2. CASE row[t].status = "None"
    <3>1. row' = [row EXCEPT ![t] = NewRow] /\ UNCHANGED proofs /\ row \in [Tasks -> RowType]
        BY <1>1, <2>2 DEF Submit, ProofInv
    <3>2. NewRow.status = "Pending"
        BY DEF NewRow, NoRow
    <3>3. TaskMap' = [TaskMap EXCEPT ![t] = "open"] /\ TaskMap[t] = "none"
        BY <2>2, <3>1, <3>2, ZenonT(60) DEF TaskMap, TaskState
    <3>4. Service!SubmitTask(t)
        BY <3>1, <3>3 DEF Service!SubmitTask, TaskMap
    <3> QED
        BY <3>4 DEF Service!ServiceNext
  <2> QED
      BY <2>1, <2>2
<1>2. ASSUME NEW r \in Runs \cup {0}, WriteRow(r) PROVE [Service!ServiceNext]_<<TaskMap, proofs>>
  <2>1. PICK t \in Tasks, new \in RowType :
            /\ row' = [row EXCEPT ![t] = new] /\ row[t].status # "None"
            /\ new.status # "None" /\ (new.status = "Completed" => t \in proofs)
      BY <1>2, WriteRowStep
  <2>2. row \in [Tasks -> RowType] /\ UNCHANGED proofs
      BY <1>2 DEF ProofInv, WriteRow
  <2>3. PICK s \in {"open", "done", "failed"} :
            TaskMap' = [TaskMap EXCEPT ![t] = s] /\ (s = "done" => new.status = "Completed")
    <3>1. TaskMap' = [TaskMap EXCEPT ![t] = TaskState(t)']
        BY <2>1, <2>2, ZenonT(60) DEF TaskMap, TaskState
    <3>2. TaskState(t)' \in {"open", "done", "failed"} /\ (TaskState(t)' = "done" => new.status = "Completed")
        BY <2>1, <2>2 DEF TaskState
    <3> QED
        BY <3>1, <3>2, ZenonT(60)
  <2>4. TaskMap[t] # "none"
      BY <2>1 DEF TaskMap, TaskState
  <2>5. Service!SettleTask(t, s)
      BY <2>1, <2>2, <2>3, <2>4 DEF Service!SettleTask, Service!TaskStates, TaskMap
  <2> QED
      BY <2>5 DEF Service!ServiceNext, Service!TaskStates
<1>3. ASSUME NEW r \in Runs, ReceiptHook(r) PROVE [Service!ServiceNext]_<<TaskMap, proofs>>
  <2>1. CASE UNCHANGED proofs
      BY <1>3, <2>1, ServiceStutter DEF ReceiptHook
  <2>2. CASE proofs' = proofs \cup {run[r].task}
    <3>1. PICK t \in Tasks : t = run[r].task /\ row[t].status # "None"
        BY <1>3 DEF ReceiptHook, ProofInv, AttemptOK
    <3>2. UNCHANGED TaskMap
        BY <1>3 DEF ReceiptHook, TaskMap, TaskState
    <3>3. TaskMap[t] # "none"
        BY <3>1 DEF TaskMap, TaskState
    <3>4. Service!StoreProof(t)
        BY <2>2, <3>1, <3>2, <3>3 DEF Service!StoreProof, TaskMap
    <3> QED
        BY <3>4 DEF Service!ServiceNext
  <2> QED
      BY <1>3, <2>1, <2>2 DEF ReceiptHook
<1>4. ASSUME NEW t \in Tasks, Elapse(t) PROVE [Service!ServiceNext]_<<TaskMap, proofs>>
  <2>1. \A u \in Tasks : row'[u].status = row[u].status
      BY <1>4 DEF Elapse, ProofInv, RowType
  <2> QED
      BY <1>4, <2>1 DEF Elapse, TaskMap, TaskState
<1>5. ASSUME NEW r \in Runs, RunTask(r), ~ReceiptHook(r) PROVE UNCHANGED <<row, proofs>>
    BY <1>5, ZenonT(60) DEF RunTask, BeginRun, ResolveInput, ProveNative, ResumeJob, SubmitJob, PollJob, KeepReceipt
<1>6. ASSUME NEW t \in Tasks, WaitForTask(t) \/ RecoverTask(t) \/ SpawnRetriable(t) \/ DependencyReady(t)
      PROVE  UNCHANGED <<row, proofs>>
    BY <1>6, ZenonT(60) DEF WaitForTask, RecoverTask, SpawnRetriable, DependencyReady
<1>7. ASSUME NEW r \in Runs \cup {0}, ReadRow(r) \/ Notify(r) PROVE UNCHANGED <<row, proofs>>
    BY <1>7 DEF ReadRow, Notify
<1>8. ASSUME Tick \/ Scan \/ EndTick \/ Crash PROVE UNCHANGED <<row, proofs>>
    BY <1>8 DEF Tick, Scan, EndTick, Crash
<1>9. ASSUME NEW j \in 1..Len(jobs), JobEnds(j) PROVE UNCHANGED <<row, proofs>>
    BY <1>9 DEF JobEnds
<1> QED
    BY <1>1, <1>2, <1>3, <1>4, <1>5, <1>6, <1>7, <1>8, <1>9, ServiceStutter DEF Next, Update

(* The prover implements ProofService, on which the checkpoint pipeline is
   built: for any number of tasks and overlapping attempts, a submitted task
   is never forgotten by the store and is done only when its proof is there. *)
THEOREM ProverImplementsService == Spec => ImplementsProofService
<1>1. Init => Service!ServiceInit
    BY DEF Init, Service!ServiceInit, TaskState, NoRow
<1>2. ProofInv /\ [Next]_vars => [Service!ServiceNext]_<<TaskMap, proofs>>
  <2>1. UNCHANGED vars => UNCHANGED <<row, proofs>>
      BY DEF vars
  <2> QED
      BY <2>1, ServiceStutter, NextImplements
<1> QED
    BY <1>1, <1>2, ProofInvHolds, PTL DEF Spec, ImplementsProofService, Service!ServiceSpec, TaskMap

-----------------------------------------------------------------------------
(* The retry budget.  Every copy of a retry counter, in the store, in the
   hands of an attempt or on the list of the tick, is covered by the failures,
   the crashes and the recovery so far. *)

Earned == troubles + crashes + (IF recovered THEN 1 ELSE 0)

Within(a, e) ==
    /\ a.counts.retry <= e /\ a.got.counts.retry <= e
    /\ \A i \in 1..Len(a.todo) : a.todo[i].counts.retry <= e

\* A task to recover will be charged one retry, for which the recovery stands.
ListWithin == svc.pc = "recover" => \A t \in DOMAIN svc.list : svc.list[t].counts.retry + 1 <= Earned

RetryInv ==
    /\ troubles \in Nat /\ crashes \in Nat /\ recovered \in BOOLEAN
    /\ \A t \in Tasks : row[t].counts.retry <= Earned
    /\ \A r \in Runs \cup {0} : Within(run[r], Earned)
    /\ ListWithin

\* Counters are integers.
LEMMA Retries ==
    /\ \A r \in RowType : r.counts.retry \in Int
    /\ \A a \in AttemptType : a.counts.retry \in Int /\ a.got.counts.retry \in Int
    /\ \A a \in AttemptType : a.todo \in Seq(Mods) /\ \A i \in 1..Len(a.todo) : a.todo[i].counts.retry \in Int
    /\ NoRow.counts.retry = 0 /\ Zero.retry = 0
<1>1. \A c \in Counts : c.retry \in Int
    BY DEF Counts
<1>2. \A r \in RowType : r.counts \in Counts
    BY DEF RowType
<1>3. \A a \in AttemptType : a.counts \in Counts /\ a.got \in RowType /\ a.todo \in Seq(Mods)
    BY DEF AttemptType
<1>4. \A m \in Mods : m.counts \in Counts
    BY DEF Mods
<1>5. \A s \in Seq(Mods) : \A i \in 1..Len(s) : s[i].counts.retry \in Int
    BY <1>1, <1>4
<1>6. NoRow.counts.retry = 0 /\ Zero.retry = 0
    BY DEF NoRow, Zero
<1> QED
    BY <1>1, <1>2, <1>3, <1>5, <1>6

LEMMA WithinGrows ==
    ASSUME NEW a \in AttemptType, NEW e \in Int, NEW f \in Int, e <= f, Within(a, e)
    PROVE  Within(a, f)
<1>1. /\ a.counts.retry \in Int /\ a.got.counts.retry \in Int
      /\ \A i \in 1..Len(a.todo) : a.todo[i].counts.retry \in Int
    BY Retries
<1> QED
    BY <1>1 DEF Within

LEMMA FreeWithin ==
    ASSUME NEW e \in Nat
    PROVE  Within(Free, e)
<1>1. Free.counts = Zero /\ Free.got = NoRow /\ Free.todo = <<>>
    BY DEF Free
<1>2. Len(Free.todo) = 0
    BY <1>1
<1> QED
    BY <1>1, <1>2, Retries DEF Within

LEMMA ThenWithin ==
    ASSUME NEW a \in AttemptType, NEW e, a.counts.retry <= e, row[a.task].counts.retry <= e,
           NEW todo, \A i \in 1..Len(todo) : todo[i].counts.retry <= e, NEW next
    PROVE  Within(Then(a, todo, next), e)
<1>1. PICK b : b = Then(a, todo, next)
    BY ZenonT(60)
<1>2. b.counts = a.counts /\ b.got = row[a.task] /\ b.todo = todo
    BY <1>1, ZenonT(60) DEF Then, AttemptType
<1> QED
    BY <1>1, <1>2 DEF Within

LEMMA ModRetries ==
    /\ \A s, c : SetStatus(s, c).counts = c
    /\ SetRetryAfter.counts = Zero /\ \A j : SetMetadata(j).counts = Zero
BY DEF SetStatus, SetRetryAfter, SetMetadata

LEMMA GiveUpWithin ==
    ASSUME NEW a \in AttemptType, NEW e \in Nat, a.counts.retry <= e, row[a.task].counts.retry <= e
    PROVE  Within(GiveUp(a), e)
<1> DEFINE todo == <<SetStatus("PermanentFailure", Zero)>>
<1>1. Len(todo) = 1 /\ todo[1].counts = Zero
    BY ModRetries
<1>2. \A i \in 1..Len(todo) : todo[i].counts.retry <= e
    BY <1>1, Retries
<1> HIDE DEF todo
<1>3. Within(Then(a, todo, "Failed"), e)
    BY <1>2, ThenWithin, ZenonT(60)
<1> QED
    BY <1>3 DEF GiveUp, todo

\* A retry that is scheduled must have been earned, unless the job is new.
LEMMA ScheduleRetryWithin ==
    ASSUME NEW a \in AttemptType, NEW e \in Nat, NEW fresh \in BOOLEAN,
           a.counts.retry <= e, ~fresh => a.counts.retry + 1 <= e, row[a.task].counts.retry <= e
    PROVE  Within(ScheduleRetry(a, fresh), e)
<1>1. PICK c : c = IF fresh THEN [a.counts EXCEPT !.resubmit = @ + 1] ELSE [a.counts EXCEPT !.retry = @ + 1]
    BY ZenonT(60)
<1>2. c.retry <= e
  <2>1. a.counts \in Counts
      BY DEF AttemptType
  <2>2. \A d \in Counts : /\ [d EXCEPT !.resubmit = @ + 1].retry = d.retry
                          /\ [d EXCEPT !.retry = @ + 1].retry = d.retry + 1
      BY DEF Counts
  <2> QED
      BY <1>1, <2>1, <2>2
<1> DEFINE todo == (IF fresh THEN <<SetMetadata(0)>> ELSE <<>>) \o <<SetStatus("TransientFailure", c), SetRetryAfter>>
<1>3. \A i \in 1..Len(todo) : todo[i] \in {SetMetadata(0), SetStatus("TransientFailure", c), SetRetryAfter}
    OBVIOUS
<1>4. \A i \in 1..Len(todo) : todo[i].counts.retry <= e
    BY <1>2, <1>3, ModRetries, Retries
<1> HIDE DEF todo
<1>5. Within(Then(a, todo, "end"), e)
    BY <1>4, ThenWithin, ZenonT(60)
<1>6. ScheduleRetry(a, fresh) \in {Then(a, todo, "end"), GiveUp(a)}
    BY <1>1, ZenonT(60) DEF ScheduleRetry, todo
<1> QED
    BY <1>5, <1>6, GiveUpWithin

LEMMA ParkBlockedWithin ==
    ASSUME NEW a \in AttemptType, NEW e \in Nat, a.counts.retry <= e, row[a.task].counts.retry <= e
    PROVE  Within(ParkBlocked(a), e)
<1>1. PICK c : c = [a.counts EXCEPT !.recheck = @ + 1]
    BY ZenonT(60)
<1>2. c.retry = a.counts.retry
    BY <1>1 DEF AttemptType, Counts
<1> DEFINE todo == <<SetStatus("Blocked", c), SetRetryAfter>>
<1>3. \A i \in 1..Len(todo) : todo[i] \in {SetStatus("Blocked", c), SetRetryAfter}
    OBVIOUS
<1>4. \A i \in 1..Len(todo) : todo[i].counts.retry <= e
    BY <1>2, <1>3, ModRetries, Retries
<1> HIDE DEF todo
<1>5. Within(Then(a, todo, "end"), e)
    BY <1>4, ThenWithin, ZenonT(60)
<1>6. ParkBlocked(a) \in {Then(a, todo, "end"), GiveUp(a)}
    BY <1>1, ZenonT(60) DEF ParkBlocked, todo
<1> QED
    BY <1>5, <1>6, GiveUpWithin

\* A step that changes one attempt, or none.
LEMMA RunWithin ==
    ASSUME ProofInv, RetryInv, troubles' \in Nat, crashes' \in Nat, recovered' \in BOOLEAN, Earned <= Earned',
           NEW r \in Runs \cup {0}, NEW a, Within(a, Earned'), run' = [run EXCEPT ![r] = a],
           UNCHANGED row, ListWithin'
    PROVE  RetryInv'
<1>1. PICK e \in Int, f \in Int : e = Earned /\ f = Earned' /\ e <= f
  <2>1. Earned \in Int
      BY DEF Earned, RetryInv
  <2>2. Earned' \in Int
      BY DEF Earned
  <2> QED
      BY <2>1, <2>2, ZenonT(60)
<1>2. \A t \in Tasks : row'[t].counts.retry <= f
  <2>1. \A t \in Tasks : row[t].counts.retry \in Int /\ row[t].counts.retry <= e
      BY <1>1, Retries DEF ProofInv, RetryInv
  <2> QED
      BY <1>1, <2>1
<1>3. \A q \in Runs \cup {0} : Within(run'[q], f)
  <2>1. \A q \in Runs \cup {0} : Within(run[q], f)
      BY <1>1, WithinGrows DEF ProofInv, RetryInv
  <2>2. \A q \in Runs \cup {0} : run'[q] = IF q = r THEN a ELSE run[q]
      BY DEF ProofInv
  <2> QED
      BY <1>1, <2>1, <2>2
<1> QED
    BY <1>1, <1>2, <1>3 DEF RetryInv, Within

\* The list of a recovery stays covered.
LEMMA ListStays ==
    ASSUME ProofInv, RetryInv, Earned <= Earned', Earned' \in Int, svc' = svc \/ svc'.pc # "recover"
    PROVE  ListWithin'
<1>1. CASE svc'.pc # "recover"
    BY <1>1 DEF ListWithin
<1>2. CASE svc' = svc
  <2>1. PICK e \in Int, f \in Int : e = Earned /\ f = Earned' /\ e <= f
    <3>1. Earned \in Int
        BY DEF Earned, RetryInv
    <3> QED
        BY <3>1, ZenonT(60)
  <2>2. \A t \in DOMAIN svc.list : svc.list[t].counts.retry \in Int
      BY Retries DEF ProofInv, ListOK
  <2> QED
      BY <1>2, <2>1, <2>2 DEF RetryInv, ListWithin
<1> QED
    BY <1>1, <1>2

LEMMA InitRetryInv == Init => RetryInv
<1> SUFFICES ASSUME Init PROVE RetryInv
    OBVIOUS
<1>1. Earned = 0 /\ troubles \in Nat /\ crashes \in Nat /\ recovered \in BOOLEAN
    BY DEF Init, Earned
<1>2. \A r \in Runs \cup {0} : Within(run[r], Earned)
    BY <1>1, FreeWithin DEF Init
<1>3. \A t \in Tasks : row[t].counts.retry <= Earned
  <2>1. \A t \in Tasks : row[t] = NoRow
      BY ZenonT(60) DEF Init
  <2>2. NoRow.counts.retry <= 0
      BY Retries
  <2> QED
      BY <1>1, <2>1, <2>2, ZenonT(60)
<1>4. ListWithin
    BY ZenonT(60) DEF Init, Resting, ListWithin
<1> QED
    BY <1>1, <1>2, <1>3, <1>4 DEF RetryInv

\* A step of one attempt that decides on new, with the same or one failure more.
LEMMA DecideWithin ==
    ASSUME ProofInv, RetryInv, NEW r \in Runs \cup {0}, NEW new, run' = [run EXCEPT ![r] = new],
           UNCHANGED <<row, svc, recovered, crashes>>,
           \/ Calm /\ Within(new, Earned)
           \/ Trouble /\ Within(new, Earned + 1)
    PROVE  RetryInv'
<1>1. /\ troubles' \in Nat /\ crashes' \in Nat /\ recovered' \in BOOLEAN /\ Earned \in Int
      /\ Earned' \in Int /\ Earned <= Earned' /\ Within(new, Earned')
  <2>1. troubles \in Nat /\ crashes \in Nat /\ recovered \in BOOLEAN
      BY DEF RetryInv
  <2>2. CASE Calm /\ Within(new, Earned)
    <3>1. UNCHANGED Earned
        BY <2>2 DEF Calm, Earned
    <3> QED
        BY <2>1, <2>2, <3>1 DEF Calm, Earned
  <2>3. CASE Trouble /\ Within(new, Earned + 1)
    <3>1. Earned' = Earned + 1 /\ Earned \in Int /\ troubles' \in Nat
        BY <2>1, <2>3 DEF Trouble, Earned
    <3> QED
        BY <2>1, <2>3, <3>1
  <2> QED
      BY <2>2, <2>3
<1>2. ListWithin'
    BY <1>1, ListStays
<1> QED
    BY <1>1, <1>2, RunWithin, ZenonT(60)

LEMMA ErrorWithin ==
    ASSUME ProofInv, RetryInv, NEW r \in Runs \cup {0}, NEW a \in AttemptType, a.task \in Tasks,
           a.counts.retry <= Earned, HandleError(r, a), Trouble, UNCHANGED <<row, svc, recovered, crashes>>
    PROVE  RetryInv'
<1>1. PICK new \in {ScheduleRetry(a, FALSE), GiveUp(a)} : run' = [run EXCEPT ![r] = new]
    BY ZenonT(60) DEF HandleError
<1>2. PICK e \in Nat : e = Earned + 1
    BY DEF Earned, RetryInv
<1>3. a.counts.retry <= e /\ a.counts.retry + 1 <= e /\ row[a.task].counts.retry <= e
  <2>1. a.counts.retry \in Int /\ row[a.task].counts.retry \in Int
      BY Retries DEF ProofInv
  <2> QED
      BY <1>2, <2>1 DEF RetryInv, Earned
<1>4. Within(ScheduleRetry(a, FALSE), e) /\ Within(GiveUp(a), e)
    BY <1>3, ScheduleRetryWithin, GiveUpWithin, ZenonT(60)
<1> QED
    BY <1>1, <1>2, <1>4, DecideWithin, ZenonT(60)

LEMMA GotoWithin ==
    ASSUME ProofInv, RetryInv, NEW r \in Runs \cup {0}, NEW p, Goto(r, p), Calm, UNCHANGED <<row, svc, recovered, crashes>>
    PROVE  RetryInv'
<1>1. PICK new : new = [run[r] EXCEPT !.pc = p]
    BY ZenonT(60)
<1>2. run' = [run EXCEPT ![r] = new]
    BY <1>1 DEF Goto
<1>3. run[r] \in AttemptType
    BY DEF ProofInv
<1>4. new.counts = run[r].counts /\ new.got = run[r].got /\ new.todo = run[r].todo
    BY <1>1, <1>3, ZenonT(60) DEF AttemptType
<1>5. Within(new, Earned)
    BY <1>4 DEF RetryInv, Within
<1> QED
    BY <1>2, <1>5, DecideWithin, ZenonT(60)

LEMMA RunTaskWithin ==
    ASSUME ProofInv, RetryInv, NEW r \in Runs, RunTask(r)
    PROVE  RetryInv'
<1>1. r \in Runs \cup {0} /\ run[r].pc \notin {"free", "modify"}
    BY ZenonT(60) DEF RunTask, BeginRun, ResolveInput, ProveNative, ResumeJob, SubmitJob, PollJob, KeepReceipt,
           ReceiptHook, At
<1>2. /\ run[r] \in AttemptType /\ run[r].task \in Tasks
      /\ Counted(r) \in AttemptType /\ Counted(r).task = run[r].task
    BY <1>1, Attempting
<1>3. /\ run[r].counts.retry <= Earned /\ Counted(r).counts.retry <= Earned
      /\ row[run[r].task].counts.retry <= Earned /\ Earned \in Nat
  <2>1. Counted(r).counts = row[run[r].task].counts
      BY <1>2 DEF Counted, AttemptType
  <2> QED
      BY <1>1, <1>2, <2>1 DEF RetryInv, Within, Earned
<1>4. UNCHANGED <<row, svc, recovered, crashes>>
    BY ZenonT(60) DEF RunTask, BeginRun, ResolveInput, ProveNative, ResumeJob, SubmitJob, PollJob, KeepReceipt, ReceiptHook
<1>5. ASSUME Trouble, HandleError(r, run[r]) \/ HandleError(r, Counted(r)) PROVE RetryInv'
    BY <1>1, <1>2, <1>3, <1>4, <1>5, ErrorWithin
<1>6. ASSUME Calm, NEW p, Goto(r, p) PROVE RetryInv'
    BY <1>1, <1>4, <1>6, GotoWithin
<1>7. ASSUME Calm, NEW new, run' = [run EXCEPT ![r] = new], Within(new, Earned) PROVE RetryInv'
    BY <1>1, <1>4, <1>7, DecideWithin, ZenonT(60)
<1>8. CASE BeginRun(r)
  <2>1. CASE Calm /\ run' = [run EXCEPT ![r] = Then(Counted(r), <<SetStatus("Proving", row[run[r].task].counts)>>, "resolve")]
    <3> DEFINE todo == <<SetStatus("Proving", row[run[r].task].counts)>>
    <3>1. Len(todo) = 1 /\ todo[1].counts = row[run[r].task].counts
        BY ModRetries
    <3>2. \A i \in 1..Len(todo) : todo[i].counts.retry <= Earned
        BY <1>3, <3>1
    <3> HIDE DEF todo
    <3>3. Within(Then(Counted(r), todo, "resolve"), Earned)
        BY <1>2, <1>3, <3>2, ThenWithin, ZenonT(60)
    <3> QED
        BY <1>7, <2>1, <3>3, ZenonT(60) DEF todo
  <2> QED
      BY <1>5, <1>6, <1>8, <2>1 DEF BeginRun
<1>9. CASE ResolveInput(r)
  <2>1. CASE Calm /\ run' = [run EXCEPT ![r] = ParkBlocked(run[r])]
    <3>1. Within(ParkBlocked(run[r]), Earned)
        BY <1>2, <1>3, ParkBlockedWithin
    <3> QED
        BY <1>7, <2>1, <3>1, ZenonT(60)
  <2> QED
      BY <1>5, <1>6, <1>9, <2>1 DEF ResolveInput
<1>10. CASE ProveNative(r)
    BY <1>5, <1>6, <1>10 DEF ProveNative
<1>11. CASE ResumeJob(r)
  <2>1. PICK new : new = [run[r] EXCEPT !.pc = "poll", !.job = row[run[r].task].meta]
      BY ZenonT(60)
  <2>2. run' = [run EXCEPT ![r] = new] /\ Calm
      BY <1>1, <1>11, <2>1, ZenonT(60) DEF ResumeJob, Calm, ProofInv
  <2>3. new.counts = run[r].counts /\ new.got = run[r].got /\ new.todo = run[r].todo
      BY <1>2, <2>1, ZenonT(60) DEF AttemptType
  <2>4. Within(new, Earned)
      BY <1>1, <2>3 DEF RetryInv, Within
  <2> QED
      BY <1>7, <2>2, <2>4, ZenonT(60)
<1>12. CASE SubmitJob(r)
  <2>1. CASE Calm /\ jobs' = Append(jobs, [task |-> run[r].task, state |-> "running"])
             /\ run' = [run EXCEPT ![r] = Then([@ EXCEPT !.job = Len(jobs')], <<SetMetadata(Len(jobs'))>>, "poll")]
    <3>1. PICK n \in Nat : n = Len(jobs')
      <4>1. jobs' \in Seq([task : Tasks, state : {"running", "done", "dead"}])
          BY <1>2, <2>1 DEF ProofInv
      <4> QED
          BY <4>1
    <3>2. PICK a : a = [run[r] EXCEPT !.job = n]
        BY ZenonT(60)
    <3>3. a \in AttemptType /\ a.task = run[r].task /\ a.counts = run[r].counts
        BY <1>2, <3>1, <3>2, ZenonT(60) DEF AttemptType
    <3> DEFINE todo == <<SetMetadata(n)>>
    <3>4. Len(todo) = 1 /\ todo[1].counts = Zero
        BY ModRetries
    <3>5. \A i \in 1..Len(todo) : todo[i].counts.retry <= Earned
        BY <1>3, <3>4, Retries
    <3>6. run' = [run EXCEPT ![r] = Then(a, todo, "poll")]
        BY <1>1, <2>1, <3>1, <3>2 DEF ProofInv
    <3> HIDE DEF todo
    <3>7. Within(Then(a, todo, "poll"), Earned)
        BY <1>3, <3>3, <3>5, ThenWithin, ZenonT(60)
    <3> QED
        BY <1>7, <2>1, <3>6, <3>7, ZenonT(60)
  <2> QED
      BY <1>5, <1>12, <2>1 DEF SubmitJob
<1>13. CASE PollJob(r)
  <2>1. CASE Calm /\ \E new \in {ScheduleRetry(run[r], TRUE), GiveUp(run[r])} : run' = [run EXCEPT ![r] = new]
    <3>1. Within(ScheduleRetry(run[r], TRUE), Earned) /\ Within(GiveUp(run[r]), Earned)
        BY <1>2, <1>3, ScheduleRetryWithin, GiveUpWithin, ZenonT(60)
    <3> QED
        BY <1>7, <2>1, <3>1, ZenonT(60)
  <2> QED
      BY <1>5, <1>6, <1>13, <2>1, ZenonT(60) DEF PollJob
<1>14. CASE KeepReceipt(r)
    BY <1>5, <1>6, <1>14 DEF KeepReceipt
<1>15. CASE ReceiptHook(r)
  <2>1. CASE Calm /\ Complete(r)
    <3> DEFINE todo == <<SetStatus("Completed", Zero)>>
    <3>1. Len(todo) = 1 /\ todo[1].counts = Zero
        BY ModRetries
    <3>2. \A i \in 1..Len(todo) : todo[i].counts.retry <= Earned
        BY <1>3, <3>1, Retries
    <3>3. run' = [run EXCEPT ![r] = Then(run[r], todo, "Completed")]
        BY <1>1, <2>1 DEF Complete, Does, ProofInv
    <3> HIDE DEF todo
    <3>4. Within(Then(run[r], todo, "Completed"), Earned)
        BY <1>2, <1>3, <3>2, ThenWithin, ZenonT(60)
    <3> QED
        BY <1>7, <2>1, <3>3, <3>4, ZenonT(60)
  <2> QED
      BY <1>5, <1>15, <2>1 DEF ReceiptHook
<1> QED
    BY <1>8, <1>9, <1>10, <1>11, <1>12, <1>13, <1>14, <1>15 DEF RunTask

\* A write puts back a counter that was read before, or one that was decided on.
LEMMA WriteRowWithin ==
    ASSUME ProofInv, RetryInv, NEW r \in Runs \cup {0}, WriteRow(r)
    PROVE  RetryInv'
<1>1. PICK a \in AttemptType : a = run[r] /\ AttemptOK(a) /\ a.pc = "modify" /\ Within(a, Earned)
    BY ZenonT(60) DEF WriteRow, ProofInv, RetryInv
<1>2. a.todo \in Seq(Mods) /\ Len(a.todo) > 0 /\ a.got \in RowType /\ a.task \in Tasks
    BY <1>1 DEF AttemptOK, AttemptType
<1>3. PICK m \in Mods : m = Head(a.todo) /\ m = a.todo[1]
    BY <1>2
<1>4. PICK new : new = Apply(m, a.got)
    BY ZenonT(60)
<1>5. m.counts.retry <= Earned /\ a.got.counts.retry <= Earned
    BY <1>1, <1>2, <1>3 DEF Within
<1>6. new.counts \in {m.counts, a.got.counts}
    BY <1>2, <1>3, <1>4, ZenonT(60) DEF Apply, Mods, RowType
<1>7. row' = [row EXCEPT ![a.task] = new] /\ UNCHANGED <<svc, recovered, crashes, troubles>>
    BY <1>1, <1>3, <1>4 DEF WriteRow
<1>8. UNCHANGED Earned /\ Earned \in Nat
    BY <1>7 DEF Earned, RetryInv
<1>9. \A t \in Tasks : row'[t].counts.retry <= Earned
    BY <1>2, <1>5, <1>6, <1>7 DEF ProofInv, RetryInv
<1>10. PICK b : run' = [run EXCEPT ![r] = b] /\ Within(b, Earned)
  <2> DEFINE b == IF Len(a.todo) > 1 THEN [a EXCEPT !.todo = Tail(@), !.got = NoRow]
                  ELSE IF a.next = "end" THEN Free
                  ELSE [a EXCEPT !.pc = a.next, !.todo = <<>>, !.got = NoRow, !.next = "end"]
  <2>1. run' = [run EXCEPT ![r] = b]
      BY <1>1 DEF WriteRow
  <2>2. CASE Len(a.todo) > 1
    <3>1. PICK s : /\ s = Tail(a.todo) /\ Len(s) = Len(a.todo) - 1
                   /\ \A i \in 1..Len(s) : s[i] = a.todo[i + 1] /\ i + 1 \in 1..Len(a.todo)
      <4>1. \A d \in Seq(Mods) : Len(d) > 1 =>
                /\ Len(Tail(d)) = Len(d) - 1
                /\ \A i \in 1..Len(Tail(d)) : Tail(d)[i] = d[i + 1] /\ i + 1 \in 1..Len(d)
          OBVIOUS
      <4> QED
          BY <1>2, <2>2, <4>1, ZenonT(60)
    <3>2. b = [a EXCEPT !.todo = s, !.got = NoRow]
        BY <2>2, <3>1
    <3>3. b.todo = s /\ b.got = NoRow /\ b.counts = a.counts
        BY <3>2, ZenonT(60) DEF AttemptType
    <3>4. \A i \in 1..Len(s) : s[i].counts.retry <= Earned
        BY <1>1, <3>1 DEF Within
    <3>5. NoRow.counts.retry <= Earned /\ a.counts.retry <= Earned
        BY <1>1, <1>8, Retries DEF Within
    <3> HIDE DEF b
    <3>6. Within(b, Earned)
        BY <3>3, <3>4, <3>5 DEF Within
    <3> QED
        BY <2>1, <3>6, ZenonT(60)
  <2>3. CASE Len(a.todo) <= 1 /\ a.next = "end"
    <3>1. b = Free
        BY <1>2, <2>3
    <3> QED
        BY <1>8, <2>1, <3>1, FreeWithin, ZenonT(60)
  <2>4. CASE Len(a.todo) <= 1 /\ a.next # "end"
    <3>1. PICK s : s = <<>> /\ Len(s) = 0
        OBVIOUS
    <3>2. b = [a EXCEPT !.pc = a.next, !.todo = s, !.got = NoRow, !.next = "end"]
        BY <1>2, <2>4, <3>1
    <3>3. b.todo = s /\ b.got = NoRow /\ b.counts = a.counts
        BY <3>2, ZenonT(60) DEF AttemptType
    <3>4. \A i \in 1..Len(s) : FALSE
        BY <3>1
    <3>5. NoRow.counts.retry <= Earned /\ a.counts.retry <= Earned
        BY <1>1, <1>8, Retries DEF Within
    <3> HIDE DEF b
    <3>6. Within(b, Earned)
        BY <3>3, <3>4, <3>5 DEF Within
    <3> QED
        BY <2>1, <3>6, ZenonT(60)
  <2> QED
      BY <1>2, <2>2, <2>3, <2>4
<1>11. \A q \in Runs \cup {0} : Within(run'[q], Earned)
  <2>1. \A q \in Runs \cup {0} : run'[q] = IF q = r THEN b ELSE run[q]
      BY <1>10 DEF ProofInv
  <2> QED
      BY <1>10, <2>1 DEF RetryInv
<1> QED
  <2>1. ListWithin'
      BY <1>7, <1>8 DEF RetryInv, ListWithin
  <2>2. \A q \in Runs \cup {0} : Within(run[q], Earned)'
      BY <1>8, <1>11 DEF Within
  <2>3. troubles' \in Nat /\ crashes' \in Nat /\ recovered' \in BOOLEAN
      BY <1>7 DEF RetryInv
  <2> QED
      BY <1>8, <1>9, <2>1, <2>2, <2>3, ZenonT(60) DEF RetryInv

LEMMA RetryFacts ==
    ASSUME RetryInv
    PROVE  /\ Earned \in Nat /\ troubles \in Nat /\ crashes \in Nat /\ recovered \in BOOLEAN
           /\ \A t \in Tasks : row[t].counts.retry <= Earned
           /\ \A r \in Runs \cup {0} : Within(run[r], Earned)
BY DEF Earned, RetryInv

\* A spawned attempt has no counters yet.
LEMMA SpawnWithin ==
    ASSUME ProofInv, NEW e \in Nat, \A r \in Runs \cup {0} : Within(run[r], e), NEW new, NEW t, Spawn(t, new)
    PROVE  \A q \in Runs \cup {0} : Within(new[q], e)
<1>1. PICK b : b = [Free EXCEPT !.pc = "begin", !.task = t]
    BY ZenonT(60)
<1>2. b.counts = Free.counts /\ b.got = Free.got /\ b.todo = Free.todo
    BY <1>1 DEF Free
<1>3. Within(b, e)
    BY <1>2, FreeWithin DEF Within
<1>4. \E r \in Runs : new = [run EXCEPT ![r] = b]
    BY <1>1, ZenonT(60) DEF Spawn
<1> QED
    BY <1>3, <1>4 DEF ProofInv

\* Steps that leave the rows and the attempts alone.
LEMMA StillWithin ==
    ASSUME ProofInv, RetryInv, UNCHANGED <<row, run, troubles, crashes, recovered>>,
           svc' = svc \/ svc'.pc # "recover"
    PROVE  RetryInv'
<1>1. UNCHANGED Earned /\ Earned \in Nat
    BY RetryFacts DEF Earned
<1>2. ListWithin'
    BY <1>1, ListStays
<1> QED
    BY <1>1, <1>2 DEF RetryInv, Within

LEMMA SubmitWithin ==
    ASSUME ProofInv, RetryInv, NEW t \in Tasks, Submit(t)
    PROVE  RetryInv'
<1>e. PICK e \in Nat : e = Earned
    BY RetryFacts
<1>f. /\ troubles \in Nat /\ crashes \in Nat /\ recovered \in BOOLEAN
      /\ \A u \in Tasks : row[u].counts.retry <= e
      /\ \A q \in Runs \cup {0} : Within(run[q], e)
    BY <1>e, RetryFacts
<1>1. UNCHANGED <<svc, troubles, crashes, recovered>>
    BY DEF Submit
<1>2. UNCHANGED Earned
    BY <1>1 DEF Earned
<1>3. \A u \in Tasks : row'[u].counts.retry <= e
  <2>1. NewRow.counts = Zero
      BY DEF NewRow, NoRow
  <2>2. UNCHANGED row \/ row' = [row EXCEPT ![t] = NewRow]
      BY DEF Submit
  <2>3. NewRow.counts.retry <= e
      BY <2>1, Retries
  <2>4. \A u \in Tasks : row'[u] = row[u] \/ row'[u] = NewRow
      BY <2>2 DEF ProofInv
  <2> QED
      BY <1>f, <2>3, <2>4, ZenonT(60)
<1>4. \A q \in Runs \cup {0} : Within(run'[q], e)
    BY <1>f, SpawnWithin DEF Submit
<1>5. ListWithin'
    BY <1>e, <1>1, <1>2, ListStays
<1> QED
    BY <1>e, <1>f, <1>1, <1>2, <1>3, <1>4, <1>5 DEF RetryInv, Within

LEMMA TickWithin ==
    ASSUME ProofInv, RetryInv, Tick
    PROVE  RetryInv'
<1>e. PICK e \in Nat : e = Earned
    BY RetryFacts
<1>f. /\ troubles \in Nat /\ crashes \in Nat /\ recovered \in BOOLEAN
      /\ \A u \in Tasks : row[u].counts.retry <= e
      /\ \A q \in Runs \cup {0} : Within(run[q], e)
    BY <1>e, RetryFacts
<1>1. CASE recovered
    BY StillWithin, <1>1 DEF Tick
<1>2. CASE ~recovered
  <2>1. UNCHANGED <<row, run, troubles, crashes>> /\ recovered' = TRUE /\ svc' = [pc |-> "recover", list |-> Rows(Unfinished)]
      BY <1>2 DEF Tick
  <2>2. Earned' = e + 1
      BY <1>e, <1>f, <1>2, <2>1, Z3, SMT DEF Earned
  <2>3. ListWithin'
    <3>1. \A u \in Unfinished : row[u].counts.retry \in Int /\ row[u].counts.retry <= e
        BY <1>f, Retries, ZenonT(60) DEF Unfinished, ProofInv
    <3>2. svc'.list = [u \in Unfinished |-> row[u]]
        BY <2>1 DEF Rows
    <3> QED
        BY <1>e, <2>2, <3>1, <3>2 DEF ListWithin
  <2>4. \A u \in Tasks : row'[u].counts.retry <= e + 1
    <3>1. \A u \in Tasks : row[u].counts.retry \in Int
        BY Retries, ZenonT(60) DEF ProofInv
    <3> QED
        BY <1>e, <1>f, <2>1, <3>1
  <2>5. \A q \in Runs \cup {0} : Within(run'[q], e + 1)
      BY <1>e, <1>f, <2>1, WithinGrows DEF ProofInv
  <2> QED
      BY <1>e, <1>f, <2>1, <2>2, <2>3, <2>4, <2>5 DEF RetryInv, Within
<1> QED
    BY <1>f, <1>1, <1>2, ZenonT(60)

LEMMA ListedWithin ==
    ASSUME ProofInv, RetryInv, NEW t \in Tasks, RecoverTask(t) \/ SpawnRetriable(t)
    PROVE  RetryInv'
<1>e. PICK e \in Nat : e = Earned
    BY RetryFacts
<1>f. /\ troubles \in Nat /\ crashes \in Nat /\ recovered \in BOOLEAN
      /\ \A u \in Tasks : row[u].counts.retry <= e
      /\ \A q \in Runs \cup {0} : Within(run[q], e)
    BY <1>e, RetryFacts
<1>1. /\ UNCHANGED <<row, troubles, crashes, recovered>> /\ svc' = [svc EXCEPT !.list = Rest(t)]
      /\ t \in DOMAIN svc.list
    BY ZenonT(60) DEF RecoverTask, SpawnRetriable
<1>2. UNCHANGED Earned
    BY <1>1 DEF Earned
<1>3. ListWithin'
  <2>1. svc'.pc = svc.pc /\ svc'.list = Rest(t)
      BY <1>1 DEF ProofInv, ListOK
  <2>2. \A u \in DOMAIN Rest(t) : u \in DOMAIN svc.list /\ Rest(t)[u] = svc.list[u]
      BY DEF Rest
  <2> QED
      BY <1>2, <2>1, <2>2 DEF RetryInv, ListWithin
<1>4. CASE Spawn(t, run')
    BY <1>e, <1>f, SpawnWithin, <1>1, <1>2, <1>3, <1>4 DEF RetryInv, Within
<1>5. CASE ~Spawn(t, run')
  <2>1. PICK a : a = [Free EXCEPT !.task = t, !.counts = svc.list[t].counts]
      BY ZenonT(60)
  <2>2. svc.list[t] \in RowType /\ svc.list[t].counts \in Counts
      BY <1>1 DEF ProofInv, ListOK, RowType
  <2>3. a \in AttemptType /\ a.task = t
      BY <2>1, <2>2, RecoveredOK, ZenonT(60)
  <2>4. a.counts = svc.list[t].counts
      BY <2>1 DEF Free
  <2>5. run' = [run EXCEPT ![0] = ScheduleRetry(a, FALSE)] /\ svc.pc = "recover"
      BY <1>5, <2>1, ZenonT(60) DEF RecoverTask, SpawnRetriable
  <2>6. a.counts.retry + 1 <= e /\ a.counts.retry <= e
    <3>1. a.counts.retry + 1 <= e
        BY <1>e, <1>1, <2>4, <2>5 DEF RetryInv, ListWithin
    <3> QED
        BY <1>e, <2>2, <2>4, <3>1, Retries
  <2>7. Within(ScheduleRetry(a, FALSE), e)
      BY <1>f, <2>3, <2>6, ScheduleRetryWithin, ZenonT(60)
  <2>8. PICK new : run' = [run EXCEPT ![0] = new] /\ Within(new, Earned')
      BY <1>e, <1>2, <2>5, <2>7, ZenonT(60)
  <2>9. Earned <= Earned' /\ troubles' \in Nat /\ crashes' \in Nat /\ recovered' \in BOOLEAN /\ UNCHANGED row
      BY <1>e, <1>f, <1>1, <1>2
  <2> QED
      BY <1>3, <2>8, <2>9, RunWithin, ZenonT(60)
<1> QED
    BY <1>4, <1>5

LEMMA ReadRowWithin ==
    ASSUME ProofInv, RetryInv, NEW r \in Runs \cup {0}, ReadRow(r)
    PROVE  RetryInv'
<1>e. PICK e \in Nat : e = Earned
    BY RetryFacts
<1>f. /\ troubles \in Nat /\ crashes \in Nat /\ recovered \in BOOLEAN
      /\ \A u \in Tasks : row[u].counts.retry <= e
      /\ \A q \in Runs \cup {0} : Within(run[q], e)
    BY <1>e, RetryFacts
<1>1. PICK new : new = [run[r] EXCEPT !.got = row[run[r].task]]
    BY ZenonT(60)
<1>2. run' = [run EXCEPT ![r] = new] /\ Calm /\ UNCHANGED <<row, svc, recovered, crashes>> /\ run[r].pc # "free"
    BY <1>1 DEF ReadRow, Calm, ProofInv
<1>3. run[r] \in AttemptType /\ run[r].task \in Tasks
    BY <1>2, Attempting
<1>4. new.counts = run[r].counts /\ new.got = row[run[r].task] /\ new.todo = run[r].todo
    BY <1>1, <1>3, ZenonT(60) DEF AttemptType
<1>5. Within(new, Earned)
    BY <1>e, <1>f, <1>3, <1>4 DEF Within
<1> QED
    BY <1>2, <1>5, DecideWithin, ZenonT(60)

LEMMA NotifyWithin ==
    ASSUME ProofInv, RetryInv, NEW r \in Runs \cup {0}, Notify(r)
    PROVE  RetryInv'
<1>1. run' = [run EXCEPT ![r] = Free] /\ Calm /\ UNCHANGED <<row, svc, recovered, crashes>>
    BY DEF Notify, Calm
<1> QED
    BY <1>1, RetryFacts, FreeWithin, DecideWithin, ZenonT(60)

LEMMA ElapseWithin ==
    ASSUME ProofInv, RetryInv, NEW t \in Tasks, Elapse(t)
    PROVE  RetryInv'
<1>e. PICK e \in Nat : e = Earned
    BY RetryFacts
<1>f. /\ troubles \in Nat /\ crashes \in Nat /\ recovered \in BOOLEAN
      /\ \A u \in Tasks : row[u].counts.retry <= e
      /\ \A q \in Runs \cup {0} : Within(run[q], e)
    BY <1>e, RetryFacts
<1>1. UNCHANGED <<svc, troubles, crashes, recovered>>
    BY DEF Elapse
<1>2. UNCHANGED Earned
    BY <1>1 DEF Earned
<1>3. \A u \in Tasks : row'[u].counts = row[u].counts
    BY DEF Elapse, ProofInv, RowType
<1>4. ASSUME NEW q \in Runs \cup {0} PROVE Within(run'[q], e)
  <2>1. PICK a \in AttemptType : a = run[q]
      BY DEF ProofInv
  <2>2. CASE run'[q] = run[q]
      BY <1>f, <2>2
  <2>3. CASE run'[q] # run[q]
    <3>1. run'[q] = [a EXCEPT !.got.due = "now"]
        BY <2>1, <2>3 DEF Elapse
    <3>2. PICK g : g = [a.got EXCEPT !.due = "now"]
        BY ZenonT(60)
    <3>3. g.counts = a.got.counts
        BY <3>2 DEF AttemptType, RowType
    <3>4. run'[q] = [a EXCEPT !.got = g]
        BY <3>1, <3>2 DEF AttemptType
    <3>5. run'[q].counts = a.counts /\ run'[q].got = g /\ run'[q].todo = a.todo
        BY <3>4 DEF AttemptType
    <3> QED
        BY <1>f, <2>1, <3>3, <3>5 DEF Within
  <2> QED
      BY <2>2, <2>3
<1>5. ListWithin'
    BY <1>e, <1>1, <1>2, ListStays
<1> QED
    BY <1>e, <1>f, <1>1, <1>2, <1>3, <1>4, <1>5 DEF RetryInv, Within

LEMMA JobEndsWithin ==
    ASSUME ProofInv, RetryInv, NEW j \in 1..Len(jobs), JobEnds(j)
    PROVE  RetryInv'
<1>e. PICK e \in Nat : e = Earned
    BY RetryFacts
<1>f. /\ troubles \in Nat /\ crashes \in Nat /\ recovered \in BOOLEAN
      /\ \A u \in Tasks : row[u].counts.retry <= e
      /\ \A q \in Runs \cup {0} : Within(run[q], e)
    BY <1>e, RetryFacts
<1>1. UNCHANGED <<row, run, svc, crashes, recovered>> /\ (Calm \/ Trouble)
    BY DEF JobEnds
<1>2. troubles' \in Nat /\ Earned' \in Nat /\ e <= Earned'
    BY <1>e, <1>f, <1>1 DEF Calm, Trouble, Earned
<1>3. PICK f \in Nat : f = Earned' /\ e <= f
    BY <1>2
<1>4. \A t \in Tasks : row'[t].counts.retry <= f
  <2>1. \A t \in Tasks : row[t].counts.retry \in Int
      BY Retries, ZenonT(60) DEF ProofInv
  <2> QED
      BY <1>f, <1>1, <1>3, <2>1
<1>5. \A q \in Runs \cup {0} : Within(run'[q], f)
    BY <1>f, <1>1, <1>3, WithinGrows DEF ProofInv
<1>6. ListWithin'
    BY <1>e, <1>1, <1>2, ListStays
<1> QED
    BY <1>f, <1>1, <1>2, <1>3, <1>4, <1>5, <1>6 DEF RetryInv, Within

LEMMA CrashWithin ==
    ASSUME ProofInv, RetryInv, Crash
    PROVE  RetryInv'
<1>e. PICK e \in Nat : e = Earned
    BY RetryFacts
<1>f. /\ troubles \in Nat /\ crashes \in Nat /\ recovered \in BOOLEAN
      /\ \A u \in Tasks : row[u].counts.retry <= e
      /\ \A q \in Runs \cup {0} : Within(run[q], e)
    BY <1>e, RetryFacts
<1>1. UNCHANGED <<row, troubles>> /\ crashes' = crashes + 1 /\ recovered' = FALSE /\ svc' = Resting
      /\ run' = [r \in Runs \cup {0} |-> Free]
    BY DEF Crash
<1>2. PICK f \in Nat : f = Earned' /\ e <= f
    BY <1>e, <1>f, <1>1 DEF Earned
<1>3. \A t \in Tasks : row'[t].counts.retry <= f
  <2>1. \A t \in Tasks : row[t].counts.retry \in Int
      BY Retries, ZenonT(60) DEF ProofInv
  <2> QED
      BY <1>f, <1>1, <1>2, <2>1
<1>4. \A q \in Runs \cup {0} : Within(run'[q], f)
    BY <1>1, <1>2, FreeWithin
<1>5. ListWithin'
    BY <1>1 DEF ListWithin, Resting
<1>6. troubles' \in Nat /\ crashes' \in Nat /\ recovered' \in BOOLEAN
  <2>1. troubles' \in Nat /\ crashes' \in Nat
      BY <1>f, <1>1
  <2> QED
      BY <1>1, <2>1, ZenonT(60)
<1>7. \A r \in Runs \cup {0} : Within(run[r], Earned)'
    BY <1>2, <1>4 DEF Within
<1> QED
    BY <1>2, <1>3, <1>5, <1>6, <1>7 DEF RetryInv

LEMMA NextRetryInv == ProofInv /\ RetryInv /\ [Next]_vars => RetryInv'
<1> SUFFICES ASSUME ProofInv, RetryInv, [Next]_vars PROVE RetryInv'
    OBVIOUS
<1>1. CASE UNCHANGED vars
    BY <1>1 DEF vars, RetryInv, Within, ListWithin, Earned
<1>2. CASE Next
  <2>1. ASSUME NEW t \in Tasks, WaitForTask(t) \/ DependencyReady(t) PROVE RetryInv'
      BY <2>1, StillWithin DEF WaitForTask, DependencyReady
  <2>2. CASE Scan \/ EndTick
    <3>1. UNCHANGED <<row, run, troubles, crashes, recovered>> /\ svc'.pc # "recover"
        BY <2>2 DEF Scan, EndTick, Resting
    <3> QED
        BY <3>1, StillWithin
  <2> QED
      BY <1>2, <2>1, <2>2, RunTaskWithin, WriteRowWithin, SubmitWithin, TickWithin, ListedWithin, ReadRowWithin,
         NotifyWithin, ElapseWithin, JobEndsWithin, CrashWithin DEF Next, Update
<1> QED
    BY <1>1, <1>2

(* The retry counter of a task never exceeds the failures and crashes so far,
   and one for the recovery after the start, for any number of tasks and of
   attempts that overwrite each other's rows. *)
THEOREM RetryBudgetIsKept == Spec => []RetriesAreEarned
<1>1. RetryInv => RetriesAreEarned
    BY ZenonT(60) DEF RetryInv, RetriesAreEarned, Earned
<1> QED
    BY <1>1, ProofInvHolds, InitRetryInv, NextRetryInv, PTL DEF Spec
=============================================================================
