------------------------------ MODULE JobQueue ------------------------------
(***************************************************************************)
(* The durable job queue of src/jobs/sqlite-job-queue.ts: the `jobs` table *)
(* with every operation that changes it.  Each operation is one SQLite     *)
(* transaction (BEGIN IMMEDIATE ... COMMIT, rolled back on an exception),  *)
(* so each is one atomic step; an operation that throws or finds nothing   *)
(* to do changes nothing and is simply not enabled.                        *)
(*                                                                         *)
(* The client is the most general one: any client may submit, pause,       *)
(* resume or cancel at any time, and any worker may present any lease that *)
(* was ever issued, however stale.  WorkerProcess.tla restricts the worker *)
(* to what src/jobs/persistent-worker.ts does.                             *)
(*                                                                         *)
(* Abstractions.  A lease id is fresh at each claim and a claim opens one  *)
(* attempt, so the attempt number stands for the lease id and for the      *)
(* worker that holds it.  Time is the time left to each lease, counted     *)
(* down by Tick.  Rows are in order of submission: that two jobs submitted *)
(* in the same millisecond are ordered by their random ids is left out.    *)
(* A payload, a checkpoint and a history event keep only what the          *)
(* properties tell apart; progress, results and structured errors are left *)
(* out.                                                                    *)
(***************************************************************************)
EXTENDS Integers, Sequences, FiniteSets

CONSTANTS
  Submissions,  \* what clients may submit: records of the fields below
  KindSets,     \* the sets of job kinds that workers support
  MaxJobs,      \* bound: rows in the table
  MaxUnits,     \* bound: the largest checkpoint (units of work done)
  PauseBound    \* bound: no pause is requested of a job that has run this often

\* The fields of a submission that the queue looks at.
ASSUME SubmissionsAssumption ==
  \A s \in Submissions :
    /\ {"key", "work", "kind", "priority", "pausable", "restart",
        "maximumAttempts", "leaseDuration"} \subseteq DOMAIN s
    /\ s.priority \in Int
    /\ s.pausable \in BOOLEAN
    /\ s.restart \in BOOLEAN
    /\ s.maximumAttempts \in Nat \ {0}
    /\ s.leaseDuration \in Nat \ {0}

ASSUME BoundsAssumption == MaxJobs \in Nat /\ MaxUnits \in Nat /\ PauseBound \in Nat

VARIABLE jobs      \* the table: a sequence of rows, in order of submission

Statuses == {"queued", "running", "paused", "completed", "failed", "cancelled"}
Terminal == {"completed", "failed", "cancelled"}
Outcomes == {"open", "completed", "failed", "paused", "cancelled", "lease-expired"}
Checkpoints == 0 .. MaxUnits     \* 0 is NULL: no checkpoint saved

\* A row.  lease is the number of the attempt that holds the row, 0 for NULL;
\* ttl is the time left to it; audit is the last event of job_history.
Row == [sub        : Submissions,
        status     : Statuses,
        attempts   : Seq(Outcomes),
        lease      : Nat,
        ttl        : Nat,
        pause      : BOOLEAN,
        cancel     : BOOLEAN,
        checkpoint : Checkpoints,
        audit      : [from : Statuses \cup {"none"}, to : Statuses]]

Ids == DOMAIN jobs
Write(j, row) == jobs' = [jobs EXCEPT ![j] = row]
Event(from, to) == [from |-> from, to |-> to]

-----------------------------------------------------------------------------
(* What the operations compute on one row.                                 *)

\* Attempts whose outcome counts against maximumAttempts.
Spent(attempts) ==
  Cardinality({n \in DOMAIN attempts : attempts[n] \in {"failed", "lease-expired"}})

\* finishAttempt refuses an attempt that does not exist or has finished.
CanFinish(row, n) == n \in DOMAIN row.attempts /\ row.attempts[n] = "open"
FinishAttempt(row, n, outcome) == [row.attempts EXCEPT ![n] = outcome]

\* Faulty: compares no lease id, only the state of the row.
HoldsLease_AnyAttempt(row, n) == row.status = "running" /\ row.ttl > 0

\* The lease check of every worker-facing operation, by the clock of now.
HoldsLease(row, n) == row.status = "running" /\ row.lease = n /\ row.ttl > 0

QueuedRow(s) ==
  [sub |-> s, status |-> "queued", attempts |-> <<>>, lease |-> 0, ttl |-> 0,
   pause |-> FALSE, cancel |-> FALSE, checkpoint |-> 0,
   audit |-> Event("none", "queued")]

\* Faulty: the new attempt is recorded with the job's status as its outcome.
ClaimedRow_RunningAttempt(row) ==
  [row EXCEPT !.status = "running",
              !.attempts = Append(row.attempts, "running"),
              !.lease = Len(row.attempts) + 1,
              !.ttl = row.sub.leaseDuration,
              !.audit = Event("queued", "running")]

ClaimedRow(row) ==
  [row EXCEPT !.status = "running",
              !.attempts = Append(row.attempts, "open"),
              !.lease = Len(row.attempts) + 1,
              !.ttl = row.sub.leaseDuration,
              !.audit = Event("queued", "running")]

\* Faulty: leaves the pause request in the row.
Released_KeepsPause(row, n, outcome, status) ==
  [row EXCEPT !.status = status, !.attempts = FinishAttempt(row, n, outcome),
              !.lease = 0, !.ttl = 0, !.audit = Event("running", status)]

\* A row that leaves running: attempt n is finished and the lease released.
Released(row, n, outcome, status) ==
  [row EXCEPT !.status = status,
              !.attempts = FinishAttempt(row, n, outcome),
              !.lease = 0,
              !.ttl = 0,
              !.pause = FALSE,
              !.audit = Event("running", status)]

CompletedRow(row) ==
  [Released(row, row.lease, "completed", "completed") EXCEPT !.cancel = FALSE]

\* A job whose recovery mode is restart forgets its checkpoint when it fails.
KeptCheckpoint(row) == IF row.sub.restart THEN 0 ELSE row.checkpoint

FailedRow(row, retryable) ==
  LET spent == Spent(FinishAttempt(row, row.lease, "failed"))
      retry == retryable /\ spent < row.sub.maximumAttempts
  IN [Released(row, row.lease, "failed", IF retry THEN "queued" ELSE "failed")
        EXCEPT !.cancel = FALSE, !.checkpoint = KeptCheckpoint(row)]

\* Faulty: pauses the job without finishing its attempt.
PausedRow_AttemptOpen(row, c) ==
  [Released(row, row.lease, "open", "paused") EXCEPT !.checkpoint = c]

\* The cancel request, if there is one, stays in the paused row.
PausedRow(row, c) ==
  [Released(row, row.lease, "paused", "paused") EXCEPT !.checkpoint = c]

CancelledRow(row) ==
  [Released(row, row.lease, "cancelled", "cancelled") EXCEPT !.cancel = FALSE]

\* Faulty: an attempt too many.
RecoveredStatus_OffByOne(row) ==
  IF row.cancel THEN "cancelled"
  ELSE IF row.pause THEN "paused"
  ELSE IF Spent(FinishAttempt(row, Len(row.attempts), "lease-expired"))
            > row.sub.maximumAttempts THEN "failed"
  ELSE "queued"

\* A lease that has run out: honour the requests first, then the limit.
RecoveredStatus(row) ==
  IF row.cancel THEN "cancelled"
  ELSE IF row.pause THEN "paused"
  ELSE IF Spent(FinishAttempt(row, Len(row.attempts), "lease-expired"))
            >= row.sub.maximumAttempts THEN "failed"
  ELSE "queued"

\* Faulty: the last event is the expiry of the lease, not what became of the job.
RecoveredRow_NoSecondEvent(row) ==
  [Released(row, Len(row.attempts), "lease-expired", RecoveredStatus(row))
     EXCEPT !.cancel = FALSE, !.checkpoint = KeptCheckpoint(row),
            !.audit = Event("running", "running")]

RecoveredRow(row) ==
  [Released(row, Len(row.attempts), "lease-expired", RecoveredStatus(row))
     EXCEPT !.cancel = FALSE, !.checkpoint = KeptCheckpoint(row)]

-----------------------------------------------------------------------------
(* Client operations.                                                      *)

\* A key that is already in the table returns the existing job, or an
\* IdempotencyConflictError when the work differs; neither writes.
KeyIsNew(s) == \A j \in Ids : jobs[j].sub.key # s.key

Submit(s) ==
  /\ Len(jobs) < MaxJobs
  /\ KeyIsNew(s)
  /\ jobs' = Append(jobs, QueuedRow(s))

\* Queued jobs pause at once; a running job is asked to, and keeps running
\* until its worker acknowledges.
RequestPause(j) ==
  /\ jobs[j].sub.pausable
  /\ ~jobs[j].pause
  /\ \/ /\ jobs[j].status = "queued"
        /\ Write(j, [jobs[j] EXCEPT !.status = "paused",
                                    !.audit = Event("queued", "paused")])
     \/ /\ jobs[j].status = "running"
        /\ Len(jobs[j].attempts) < PauseBound
        /\ Write(j, [jobs[j] EXCEPT !.pause = TRUE,
                                    !.audit = Event("running", "running")])

\* Faulty: also withdraws the pause request of a running job.
Resume_WithdrawsPause(j) ==
  \/ /\ jobs[j].status = "paused"
     /\ Write(j, [jobs[j] EXCEPT !.status = "queued", !.pause = FALSE,
                                 !.audit = Event("paused", "queued")])
  \/ /\ jobs[j].status = "running"
     /\ Write(j, [jobs[j] EXCEPT !.pause = FALSE,
                                 !.audit = Event("running", "running")])

Resume(j) ==
  /\ jobs[j].status = "paused"
  /\ Write(j, [jobs[j] EXCEPT !.status = "queued", !.pause = FALSE,
                              !.audit = Event("paused", "queued")])

\* Faulty: no guard for jobs that have completed or failed.
Cancel_Ended(j) ==
  \/ /\ jobs[j].status = "running"
     /\ Write(j, [jobs[j] EXCEPT !.cancel = TRUE,
                                 !.audit = Event("running", "running")])
  \/ /\ jobs[j].status \notin {"running", "cancelled"}
     /\ Write(j, [jobs[j] EXCEPT !.status = "cancelled",
                                 !.cancel = FALSE, !.pause = FALSE,
                                 !.audit = Event(jobs[j].status, "cancelled")])

Cancel(j) ==
  \/ /\ jobs[j].status = "running"
     /\ Write(j, [jobs[j] EXCEPT !.cancel = TRUE,
                                 !.audit = Event("running", "running")])
  \/ /\ jobs[j].status \in {"queued", "paused"}
     /\ Write(j, [jobs[j] EXCEPT !.status = "cancelled",
                                 !.cancel = FALSE, !.pause = FALSE,
                                 !.audit = Event(jobs[j].status, "cancelled")])

-----------------------------------------------------------------------------
(* Worker operations; n is the attempt the caller's lease was issued for.  *)

Claimable(kinds) ==
  {j \in Ids : jobs[j].status = "queued" /\ jobs[j].sub.kind \in kinds}

\* ORDER BY priority DESC, submitted_at ASC, id ASC LIMIT 1.
ComesFirst(i, j) ==
  \/ jobs[i].sub.priority > jobs[j].sub.priority
  \/ jobs[i].sub.priority = jobs[j].sub.priority /\ i <= j

ClaimNext(j, kinds) ==
  /\ j \in Claimable(kinds)
  /\ \A i \in Claimable(kinds) : ComesFirst(j, i)
  /\ Write(j, ClaimedRow(jobs[j]))

Heartbeat(j, n) ==
  /\ HoldsLease(jobs[j], n)
  /\ Write(j, [jobs[j] EXCEPT !.ttl = jobs[j].sub.leaseDuration,
                              !.audit = Event("running", "running")])

SaveCheckpoint(j, n, c) ==
  /\ HoldsLease(jobs[j], n)
  /\ Write(j, [jobs[j] EXCEPT !.checkpoint = c,
                              !.audit = Event("running", "running")])

Complete(j, n) ==
  /\ HoldsLease(jobs[j], n)
  /\ CanFinish(jobs[j], n)
  /\ Write(j, CompletedRow(jobs[j]))

Fail(j, n, retryable) ==
  /\ HoldsLease(jobs[j], n)
  /\ CanFinish(jobs[j], n)
  /\ Write(j, FailedRow(jobs[j], retryable))

AcknowledgePaused(j, n, c) ==
  /\ HoldsLease(jobs[j], n)
  /\ jobs[j].pause
  /\ CanFinish(jobs[j], n)
  /\ Write(j, PausedRow(jobs[j], c))

AcknowledgeCancelled(j, n) ==
  /\ HoldsLease(jobs[j], n)
  /\ jobs[j].cancel
  /\ CanFinish(jobs[j], n)
  /\ Write(j, CancelledRow(jobs[j]))

\* Faulty: compares the lease with a clock that has not come that far.
Expired_Never(row) == row.status = "running" /\ row.ttl < 0

\* Faulty: takes every running row.
Expired_AnyRunning(row) == row.status = "running"

\* The sweep is one transaction: one row whose last attempt is not open
\* would roll all of it back.
Expired(row) == row.status = "running" /\ row.ttl = 0

RecoverExpiredLeases ==
  /\ \E j \in Ids : Expired(jobs[j])
  /\ \A j \in Ids : Expired(jobs[j]) => CanFinish(jobs[j], Len(jobs[j].attempts))
  /\ jobs' = [j \in Ids |-> IF Expired(jobs[j]) THEN RecoveredRow(jobs[j]) ELSE jobs[j]]

\* One unit of time passes.
Ticking(row) == row.status = "running" /\ row.ttl > 0

Tick ==
  /\ \E j \in Ids : Ticking(jobs[j])
  /\ jobs' = [j \in Ids |-> IF Ticking(jobs[j])
                            THEN [jobs[j] EXCEPT !.ttl = @ - 1] ELSE jobs[j]]

-----------------------------------------------------------------------------
Init == jobs = <<>>

ClientStep ==
  \/ \E s \in Submissions : Submit(s)
  \/ \E j \in Ids : RequestPause(j) \/ Resume(j) \/ Cancel(j)

WorkerStep ==
  \/ \E j \in Ids, kinds \in KindSets : ClaimNext(j, kinds)
  \/ \E j \in Ids : \E n \in DOMAIN jobs[j].attempts :
       \/ Heartbeat(j, n)
       \/ \E c \in Checkpoints : SaveCheckpoint(j, n, c)
       \/ Complete(j, n)
       \/ \E retryable \in BOOLEAN : Fail(j, n, retryable)
       \/ \E c \in Checkpoints : AcknowledgePaused(j, n, c)
       \/ AcknowledgeCancelled(j, n)
  \/ RecoverExpiredLeases

Next == ClientStep \/ WorkerStep \/ Tick

Spec == Init /\ [][Next]_jobs

-----------------------------------------------------------------------------
(* Properties.                                                             *)

\* Every row of the table has the shape its columns declare.
TypeOK == jobs \in Seq(Row)

\* A row is leased exactly while it runs, to its last attempt, and only a
\* running row has a pause request or time on its lease.  loadLeasedJob and
\* the other worker operations rely on it: a lease that was lost cannot
\* match the row again.
LeaseInv ==
  \A j \in Ids :
    /\ jobs[j].lease = IF jobs[j].status = "running" THEN Len(jobs[j].attempts) ELSE 0
    /\ jobs[j].status = "running" => jobs[j].attempts # <<>>
    /\ jobs[j].status # "running" => jobs[j].ttl = 0 /\ ~jobs[j].pause

\* Exactly the attempt that holds the lease is open.  If it failed,
\* finishAttempt would throw inside recoverExpiredLeases, the transaction
\* would roll back, and no expired lease of any job could be recovered again.
AttemptsInv ==
  \A j \in Ids : \A n \in DOMAIN jobs[j].attempts :
    jobs[j].attempts[n] = "open" <=> jobs[j].status = "running" /\ n = Len(jobs[j].attempts)

\* A job that cannot be paused never runs more attempts than its policy
\* allows, over any mix of failures, expired leases and late acknowledgements.
BudgetKept ==
  \A j \in Ids : ~jobs[j].sub.pausable =>
    /\ Spent(jobs[j].attempts) <= jobs[j].sub.maximumAttempts
    /\ jobs[j].status \in {"queued", "running"} =>
         Spent(jobs[j].attempts) < jobs[j].sub.maximumAttempts

\* "Every state transition and its audit event commit together": the step
\* that moves a job leaves that move as the job's last history event, and
\* the last event always tells the status the row has.
AuditTellsEveryTransition ==
  [][\A j \in DOMAIN jobs' :
       LET from == IF j \in Ids THEN jobs[j].status ELSE "none"
       IN /\ jobs'[j].status # from => jobs'[j].audit = Event(from, jobs'[j].status)
          /\ jobs'[j].audit.to = jobs'[j].status]_jobs

\* While its lease has time left, an attempt cannot be taken over: no other
\* attempt starts, and the job stops running only by what the holder reported.
LeaseIsExclusive ==
  [][\A j \in Ids : jobs[j].ttl > 0 =>
       \/ jobs'[j].status = "running" /\ jobs'[j].lease = jobs[j].lease
       \/ /\ jobs'[j].status # "running"
          /\ jobs'[j].attempts[jobs[j].lease] \in
               {"completed", "failed", "paused", "cancelled"}]_jobs

\* The status column follows the transition table of lifecycle.ts.
Lifecycle == INSTANCE JobLifecycle
               WITH JobIds <- 1 .. MaxJobs,
                    status <- [j \in 1 .. MaxJobs |->
                                 IF j \in Ids THEN jobs[j].status ELSE "absent"]

FollowsLifecycle == Lifecycle!Spec
=============================================================================
