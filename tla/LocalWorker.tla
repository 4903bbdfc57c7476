---------------------------- MODULE LocalWorker ----------------------------
(***************************************************************************)
(* Worker processes running the counting handler of                        *)
(* src/jobs/diagnostic-count.ts: the loop of control check, work,          *)
(* checkpoint and progress that every resumable handler has.               *)
(***************************************************************************)
EXTENDS WorkerProcess

CONSTANTS
  CheckpointEvery,  \* the handler saves a checkpoint every so many units
  ProgressEvery     \* the handler reports progress (and so heartbeats) every ...

ASSUME HandlerAssumption ==
  /\ CheckpointEvery \in Nat \ {0} /\ ProgressEvery \in Nat \ {0}
  /\ NoLocal \in 0 .. MaxUnits
  /\ \A s \in Submissions : "units" \in DOMAIN s /\ s.units \in 1 .. MaxUnits

HandlerPoints == {"signal", "work", "save", "report"}

\* The handler's local variable is the loop variable of its for statement.
Count(w) == workers[w].local
Units(w) == jobs[Job(w)].sub.units

-----------------------------------------------------------------------------
(* The handler.                                                            *)

Loop(count, units) == IF count < units THEN "signal" ELSE "finish"

\* Faulty: the count starts from nothing, whatever the checkpoint.
Load_Forgets(w) == LoadJob(w, Loop(0, Units(w)), 0)

\* checkpointCount.
Load(w) ==
  LET checkpoint == jobs[Job(w)].checkpoint
  IN LoadJob(w, Loop(checkpoint, Units(w)), checkpoint)

\* A control check before each unit.
Signal(w) == At(w, "signal") /\ ThrowIfControlRequested(w, "work")

\* Faulty: nothing is due after the last unit.
Due_NotLast(count, every, units) == count % every = 0

Due(count, every, units) == count % every = 0 \/ count = units

AfterSave(count, units) ==
  IF Due(count, ProgressEvery, units) THEN "report" ELSE Loop(count, units)
AfterWork(count, units) ==
  IF Due(count, CheckpointEvery, units) THEN "save" ELSE AfterSave(count, units)

\* One unit of work; the handler may also give up here, for good or for a retry.
Work(w) ==
  /\ At(w, "work")
  /\ UNCHANGED jobs
  /\ \/ Continue(w, AfterWork(Count(w) + 1, Units(w)), Count(w) + 1)
     \/ \E retryable \in BOOLEAN : Throw(w, retryable)

Save(w) ==
  /\ At(w, "save")
  /\ \/ SaveContext(w, Count(w), AfterSave(Count(w), Units(w)), Count(w))
     \/ LeaseLost(w) /\ Throw(w, TRUE) /\ UNCHANGED jobs

ReportProgress(w) ==
  /\ At(w, "report")
  /\ \/ ReportContext(w, Loop(Count(w), Units(w)), Count(w))
     \/ LeaseLost(w) /\ Throw(w, TRUE) /\ UNCHANGED jobs

HandlerMoves(w) == Load(w) \/ Signal(w) \/ Work(w) \/ Save(w) \/ ReportProgress(w)

-----------------------------------------------------------------------------
(* Properties.                                                             *)

\* An acknowledgement the worker was asked for is never refused: the request
\* it read in controlSignal is still there when it answers under the same
\* lease.  A refusal would end the worker process.
AcknowledgementNeverRefused ==
  \A w \in Workers : Job(w) # 0 /\ ~LeaseLost(w) =>
    /\ At(w, "ackPause") => jobs[Job(w)].pause
    /\ At(w, "ackCancel") => jobs[Job(w)].cancel

\* "lease ownership makes each claim exclusive": whatever a worker writes to
\* a job after claiming it, it writes while its own attempt holds the row and
\* the lease has time left, so a worker that was presumed dead cannot touch
\* the attempt that replaced it.
WritesAreFenced ==
  [][\A w \in Workers :
       workers[w].pc \notin {"down", "recover", "claim"} /\ workers'[w] # workers[w]
         /\ jobs' # jobs
       => /\ jobs[Job(w)].status = "running"
          /\ jobs[Job(w)].lease = Attempt(w)
          /\ jobs[Job(w)].ttl > 0]_<<jobs, workers>>

\* A resumable job never loses a checkpoint: over crashes, expired leases,
\* pauses and late workers, the durable progress only grows.
CheckpointOnlyGrows ==
  [][\A j \in Ids : ~jobs[j].sub.restart => jobs'[j].checkpoint >= jobs[j].checkpoint]_jobs

\* A job is reported complete only when every unit is durably checkpointed.
CompletedDidAllUnits ==
  \A j \in Ids : jobs[j].status = "completed" => jobs[j].checkpoint = jobs[j].sub.units
=============================================================================
