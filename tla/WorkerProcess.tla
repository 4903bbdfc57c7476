--------------------------- MODULE WorkerProcess ---------------------------
(***************************************************************************)
(* Worker processes over one job queue: PersistentLocalWorker.runOnce and  *)
(* runUntilStopped of src/jobs/persistent-worker.ts, for any handler.      *)
(*                                                                         *)
(* Between two calls to the queue a worker keeps only local variables, and *)
(* other workers, the clients and the clock may act, so each queue call is *)
(* a step.  What a handler computes between two calls is part of the step  *)
(* before it.  A call that meets a lost lease throws StaleJobLeaseError:   *)
(* inside the handler it is caught and reported with fail, which throws    *)
(* again; outside it escapes runUntilStopped and the process ends.         *)
(*                                                                         *)
(* A module that extends this one models a handler: it gives the points    *)
(* between "load" and the report that ends the job, and their actions.     *)
(***************************************************************************)
EXTENDS JobQueue

CONSTANTS
  Workers,     \* worker processes
  Supports,    \* the job kinds each worker has a handler for
  NoLocal,     \* the handler's local variables when no handler runs
  MaxCrashes   \* bound: how often a worker process dies by itself

ASSUME WorkersAssumption == Supports \in [Workers -> KindSets] /\ MaxCrashes \in Nat

VARIABLES
  workers,  \* the local variables of each worker
  crashes   \* how many times a worker has died by itself

\* Where a worker is when no handler runs: the queue call it makes next.
Points == {"down", "recover", "claim", "load", "finish", "complete", "ackPause",
           "ackCancel", "fail"}

\* job and attempt are the lease; saved is the context's latestCheckpoint;
\* retry is the retryable flag of the error to report; local belongs to the
\* handler, which adds its own points.
Worker(points, locals) ==
  [pc : Points \cup points, job : 0 .. MaxJobs, attempt : Nat,
   saved : Checkpoints, retry : BOOLEAN, local : locals]

At(w, point) == workers[w].pc = point
Fresh(point, job, attempt) ==
  [pc |-> point, job |-> job, attempt |-> attempt, saved |-> 0,
   retry |-> FALSE, local |-> NoLocal]
Idle(point) == Fresh(point, 0, 0)

Become(w, worker) == workers' = [workers EXCEPT ![w] = worker]
Goto(w, point) == workers' = [workers EXCEPT ![w].pc = point]
Continue(w, point, local) ==
  workers' = [workers EXCEPT ![w].pc = point, ![w].local = local]
Die(w) == Become(w, Idle("down")) /\ UNCHANGED jobs

Job(w) == workers[w].job
Attempt(w) == workers[w].attempt
LeaseLost(w) == ~HoldsLease(jobs[Job(w)], Attempt(w))

\* An exception of the handler or of complete() is reported with fail().
Throw(w, retryable) ==
  workers' = [workers EXCEPT ![w].pc = "fail", ![w].retry = retryable,
                             ![w].local = NoLocal]

-----------------------------------------------------------------------------
(* runOnce.                                                                *)

Recover(w) ==
  /\ At(w, "recover")
  /\ Goto(w, "claim")
  /\ \/ RecoverExpiredLeases
     \/ ~(\E j \in Ids : Expired(jobs[j])) /\ UNCHANGED jobs

\* The lease that claimNext returns.
Leased(j) == Fresh("load", j, Len(jobs[j].attempts) + 1)

Claim(w) ==
  /\ At(w, "claim")
  /\ \/ \E j \in Ids :
          /\ ClaimNext(j, Supports[w])
          /\ Become(w, Leased(j))
     \/ Claimable(Supports[w]) = {} /\ Goto(w, "recover") /\ UNCHANGED jobs

\* loadLeasedJob; the context starts with the checkpoint of the row, and the
\* handler at its first point with its first local variables.
LoadJob(w, point, local) ==
  /\ At(w, "load")
  /\ UNCHANGED jobs
  /\ \/ /\ ~LeaseLost(w)
        /\ workers' = [workers EXCEPT ![w].pc = point, ![w].local = local,
                                      ![w].saved = jobs[Job(w)].checkpoint]
     \/ LeaseLost(w) /\ Become(w, Idle("down"))

\* The reports that end a job: they are accepted, or the process ends.
ReportEnd(w, report) ==
  \/ report /\ Become(w, Idle("recover"))
  \/ LeaseLost(w) /\ Die(w)

\* What controlSignal answers; "stale" is StaleJobLeaseError.
controlSignal(w) ==
  LET row == jobs[Job(w)]
  IN IF LeaseLost(w) THEN "stale"
     ELSE IF row.cancel THEN "cancel"
     ELSE IF row.pause THEN "pause" ELSE "continue"

\* context.throwIfControlRequested: go on to a point, or throw.
ThrowIfControlRequested(w, point) ==
  /\ UNCHANGED jobs
  /\ CASE controlSignal(w) = "stale" -> Throw(w, TRUE)
       [] controlSignal(w) = "cancel" -> Goto(w, "ackCancel")
       [] controlSignal(w) = "pause" -> Goto(w, "ackPause")
       [] OTHER -> Goto(w, point)

\* The handler has returned.
Finish(w) == At(w, "finish") /\ ThrowIfControlRequested(w, "complete")

CompleteJob(w) ==
  /\ At(w, "complete")
  /\ \/ Complete(Job(w), Attempt(w)) /\ Become(w, Idle("recover"))
     \/ LeaseLost(w) /\ Throw(w, TRUE) /\ UNCHANGED jobs

FailJob(w) ==
  /\ At(w, "fail")
  /\ ReportEnd(w, Fail(Job(w), Attempt(w), workers[w].retry))

\* acknowledgePaused and acknowledgeCancelled also throw when the request is
\* no longer there; nothing catches that either.
AcknowledgePause(w) ==
  /\ At(w, "ackPause")
  /\ \/ ReportEnd(w, AcknowledgePaused(Job(w), Attempt(w), workers[w].saved))
     \/ ~LeaseLost(w) /\ ~jobs[Job(w)].pause /\ Die(w)

AcknowledgeCancel(w) ==
  /\ At(w, "ackCancel")
  /\ \/ ReportEnd(w, AcknowledgeCancelled(Job(w), Attempt(w)))
     \/ ~LeaseLost(w) /\ ~jobs[Job(w)].cancel /\ Die(w)

-----------------------------------------------------------------------------
(* The execution context.                                                  *)

\* context.saveCheckpoint and context.reportProgress, when they do not throw.
SaveContext(w, c, point, local) ==
  /\ SaveCheckpoint(Job(w), Attempt(w), c)
  /\ workers' = [workers EXCEPT ![w].pc = point, ![w].local = local, ![w].saved = c]

ReportContext(w, point, local) ==
  Heartbeat(Job(w), Attempt(w)) /\ Continue(w, point, local)

-----------------------------------------------------------------------------
(* The process.                                                            *)

Crash(w) ==
  /\ ~At(w, "down")
  /\ crashes < MaxCrashes
  /\ crashes' = crashes + 1
  /\ Die(w)

\* The application or the user starts the process again: how is in Supervision.
Restart(w) ==
  /\ At(w, "down")
  /\ Goto(w, "recover")
  /\ UNCHANGED jobs

runOnce(w) ==
  \/ Recover(w) \/ Claim(w) \/ Finish(w) \/ CompleteJob(w) \/ FailJob(w)
  \/ AcknowledgePause(w) \/ AcknowledgeCancel(w)

ProcessMoves(w) == runOnce(w) \/ Restart(w)

ProcessInit == Init /\ workers = [w \in Workers |-> Idle("recover")] /\ crashes = 0
=============================================================================
