---------------------------- MODULE Organization ----------------------------
(***************************************************************************)
(* The runs of one organization plan: submitRun of                         *)
(* src/organization/organization-service.ts in the server, the engine of   *)
(* src/organization/organization-job.ts in the workers, and the runs of    *)
(* src/organization/organization-store.ts that both write.                 *)
(*                                                                         *)
(* The engine moves each file of the plan with one rename and records a    *)
(* receipt for it; a rollback run moves back what a live run has receipts  *)
(* for.  Neither store nor files know of leases: a worker that has lost    *)
(* its own goes on until its next queue call, and the catch of the run     *)
(* then writes the status of a run that somebody else may be executing.    *)
(*                                                                         *)
(* Abstractions. The plan stays fresh (assertPlanFresh). What is at a      *)
(* path is nothing, "ours" (a file that matchesExpected) or "other"; a     *)
(* file that is there can be missed, or its rename fail, only while the    *)
(* volume is gone. No destination is a source, because the planner takes   *)
(* no path that the scan has observed. The checkpoint is written but       *)
(* never read. Execution and rollback jobs have one kind; that the run     *)
(* has the mode of its job is established where both are made. The audit   *)
(* chain and the counts, which are computed from the receipts, are left    *)
(* out.                                                                    *)
(***************************************************************************)
EXTENDS WorkerProcess

CONSTANTS
  Plans,         \* the plans to begin with, each its operations, which are the
                 \* ordinals 1 .. N, the modes of the runs that are asked for,
                 \* and bounds: its runs, what the user does to the files and
                 \* to the gate, and whether he pauses or cancels
  MaxRuns,       \* bound: runs of any plan
  SubmissionOf   \* the job that submitRun submits for each run

RunModes == {"simulation", "live", "rollback-simulation", "rollback-live"}

ASSUME OrganizationAssumption ==
  /\ MaxRuns \in Nat
  /\ NoLocal = [todo |-> {}, op |-> 0, outcome |-> "none"]
  /\ \A p \in Plans :
       /\ \E n \in 0 .. MaxUnits : p.operations = 1 .. n
       /\ p.modes \subseteq RunModes /\ p.runs \in 0 .. MaxRuns /\ p.acts \in Nat /\ p.controls \subseteq {"pause", "cancel"}
  /\ SubmissionOf \in [1 .. MaxRuns -> Submissions]
  /\ \A r, q \in 1 .. MaxRuns : SubmissionOf[r].key = SubmissionOf[q].key => r = q

VARIABLES
  plan,      \* the plan, which stays as it is
  runs,      \* organization_runs with organization_run_items, in order of creation
  files,     \* what is at the two paths of each operation
  gate,      \* "open"; or mutation mode is "readOnly", or the root's approval
             \* or volume is "gone"
  acts,      \* how often the user has touched the files or the gate
  touched,   \* the operations whose file the user has changed or removed
  obscured,  \* the operations whose file a worker may not have seen: the user
             \* put or removed another one, or the volume was not there
  late       \* the workers that have moved a file since the gate closed

history == <<acts, touched, obscured>>
vars == <<jobs, workers, crashes, plan, runs, files, gate, history, late>>

Operations == plan.operations

Paths == {"source", "destination"}
RunStatuses == {"queued", "running", "paused", "completed", "partial", "failed", "cancelled"}
Active == {"queued", "running", "paused"}
Successes(mode) ==
  CASE mode = "simulation" -> {"simulated", "already-completed"}
    [] mode = "live" -> {"moved", "already-completed"}
    [] mode = "rollback-simulation" -> {"would-rollback", "already-rolled-back"}
    [] mode = "rollback-live" -> {"rolled-back", "already-rolled-back"}
ItemOutcomes == (UNION {Successes(m) : m \in RunModes}) \cup {"skipped", "failed"}
Run == [mode : RunModes,
        sourceRun : 0 .. MaxRuns, job : 0 .. MaxJobs, status : RunStatuses,
        items : [Operations -> ItemOutcomes \cup {"none"}]]

RunIds == DOMAIN runs
Live(r) == runs[r].mode \in {"live", "rollback-live"}
Rollback(r) == runs[r].sourceRun # 0
From(r) == IF Rollback(r) THEN "destination" ELSE "source"
To(r) == IF Rollback(r) THEN "source" ELSE "destination"
HasMoved(r, o) == runs[r].items[o] \in {"moved", "already-completed"}

setRunStatus(r, status) == runs' = [runs EXCEPT ![r].status = status]

\* Faulty: mutation mode is looked at only when the run is submitted.
validateRootAndMode_RootOnly(r) == gate # "gone"

\* Read-only mode stops live runs only.
validateRootAndMode(r) == gate = "open" \/ (gate = "readOnly" /\ ~Live(r))

-----------------------------------------------------------------------------
(* The server: startRun, startRollback and submitRun.                      *)

LiveAllowed == gate = "open"

startRun(mode, src) ==
  /\ mode \in {"simulation", "live"} /\ src = 0
  /\ mode = "live" => LiveAllowed

startRollback(mode, src) ==
  /\ mode \in {"rollback-simulation", "rollback-live"} /\ src \in RunIds
  /\ runs[src].mode = "live" /\ runs[src].status \in {"completed", "partial"}
  /\ \E o \in Operations : HasMoved(src, o)
  /\ mode = "rollback-live" => LiveAllowed

\* createRun: one active run of the plan, and one live run that has ended well.
CreateRun(mode, src) ==
  /\ Len(runs) < plan.runs
  /\ startRun(mode, src) \/ startRollback(mode, src)
  /\ \A r \in RunIds :
       /\ runs[r].status \notin Active
       /\ mode = "live" =>
            ~(runs[r].mode = "live" /\ runs[r].status \in {"completed", "partial"})
  /\ runs' = Append(runs, [mode |-> mode, sourceRun |-> src, job |-> 0, status |-> "queued",
                           items |-> [o \in Operations |-> "none"]])
  /\ UNCHANGED jobs

attachRunJob(r, j) == runs' = [runs EXCEPT ![r].job = j]

\* The submission with attachRunJob: a worker that claims the job between the
\* two finds a run without a job and takes it all the same.  A submission that
\* throws fails the run.
SubmitRun(r) ==
  /\ runs[r].job = 0 /\ runs[r].status = "queued"
  /\ \/ /\ Submit(SubmissionOf[r])
        /\ attachRunJob(r, Len(jobs'))
     \/ setRunStatus(r, "failed") /\ UNCHANGED jobs

Server ==
  /\ \/ \E mode \in plan.modes, src \in {0} \cup RunIds : CreateRun(mode, src)
     \/ \E r \in RunIds : SubmitRun(r)
  /\ UNCHANGED <<workers, crashes, files, gate, history, late>>

-----------------------------------------------------------------------------
(* The engine: run().                                                      *)

Locals == [todo : SUBSET Operations, op : Operations \cup {0},
           outcome : ItemOutcomes \cup {"none"}]
HandlerPoints == {"begin", "start", "list", "take", "pauseRun", "cancelRun", "leave",
                  "inspect", "recheck", "rename", "verify", "record", "save", "report",
                  "close", "failRun", "retryRun"}

Local(w) == workers[w].local
Op(w) == Local(w).op
RunOf(w) == CHOOSE r \in RunIds : runs[r].job = Job(w)
Step(w, from, to) == At(w, from) /\ Goto(w, to)

\* The outcome of the operation is known and is recorded next.
Decide(w, outcome) == Continue(w, "record", [Local(w) EXCEPT !.outcome = outcome])

Load(w) == LoadJob(w, "begin", NoLocal) /\ UNCHANGED <<runs, files>>

Begin(w) ==
  /\ At(w, "begin")
  /\ Goto(w, IF runs[RunOf(w)].status \in {"completed", "partial"} THEN "finish"
             ELSE IF validateRootAndMode(RunOf(w)) THEN "start" ELSE "failRun")
  /\ UNCHANGED <<jobs, runs, files>>

\* A failed run is opened again for the retry of its job.
StartRun(w) ==
  /\ Step(w, "start", "list")
  /\ IF runs[RunOf(w)].status \in {"completed", "partial", "cancelled"}
     THEN UNCHANGED runs ELSE setRunStatus(RunOf(w), "running")
  /\ UNCHANGED <<jobs, files>>

\* Faulty: a move that was recorded by recovery is taken for nothing to undo.
executableOperations_OwnMoves(r) ==
  {o \in Operations :
     /\ runs[r].items[o] = "none"
     /\ Rollback(r) => runs[runs[r].sourceRun].items[o] = "moved"}

executableOperations(r) ==
  {o \in Operations :
     runs[r].items[o] = "none" /\ (Rollback(r) => HasMoved(runs[r].sourceRun, o))}

List(w) ==
  /\ At(w, "list")
  /\ Continue(w, "take", [NoLocal EXCEPT !.todo = executableOperations(RunOf(w))])
  /\ UNCHANGED <<jobs, runs, files>>

\* In the order of the plan; a rollback in reverse order.
NextOp(w) ==
  CHOOSE o \in Local(w).todo :
    \A p \in Local(w).todo : IF Rollback(RunOf(w)) THEN o >= p ELSE o <= p

TakeOperation(w) ==
  /\ At(w, "take")
  /\ UNCHANGED <<jobs, runs, files>>
  /\ IF Local(w).todo = {} THEN Goto(w, "close")
     ELSE Continue(w, CASE controlSignal(w) = "stale" -> "failRun"
                        [] controlSignal(w) = "cancel" -> "cancelRun"
                        [] controlSignal(w) = "pause" -> "pauseRun"
                        [] OTHER -> IF validateRootAndMode(RunOf(w)) THEN "inspect" ELSE "failRun",
                      [Local(w) EXCEPT !.op = NextOp(w), !.todo = @ \ {NextOp(w)},
                                       !.outcome = "none"])

InterruptRun(w) ==
  /\ \/ Step(w, "pauseRun", "leave") /\ setRunStatus(RunOf(w), "paused")
     \/ Step(w, "cancelRun", "leave") /\ setRunStatus(RunOf(w), "cancelled")
  /\ UNCHANGED <<jobs, files>>

\* saveCheckpoint and throwIfControlRequested.  A request of a running job
\* stays, so one of the two is still there; a cancellation comes first.
Leave(w) ==
  /\ At(w, "leave")
  /\ \/ SaveContext(w, Op(w) - 1, IF jobs[Job(w)].cancel THEN "ackCancel" ELSE "ackPause",
                    Local(w))
     \/ LeaseLost(w) /\ Goto(w, "failRun") /\ UNCHANGED jobs
  /\ UNCHANGED <<runs, files>>

\* INSERT OR IGNORE: the first outcome of an operation stays.
RecordRunItem(w) ==
  /\ Step(w, "record", "save")
  /\ runs' = [runs EXCEPT ![RunOf(w)].items[Op(w)] =
                IF @ = "none" THEN Local(w).outcome ELSE @]
  /\ UNCHANGED <<jobs, files>>

ReportItem(w) ==
  /\ \/ At(w, "save") /\ SaveContext(w, Op(w), "report", Local(w))
     \/ At(w, "report") /\ ReportContext(w, "take", Local(w))
     \/ At(w, "save") /\ LeaseLost(w) /\ Goto(w, "failRun") /\ UNCHANGED jobs
     \/ At(w, "report") /\ LeaseLost(w) /\ Goto(w, "failRun") /\ UNCHANGED jobs
  /\ UNCHANGED <<runs, files>>

CloseRun(w) ==
  /\ Step(w, "close", "finish")
  /\ setRunStatus(RunOf(w), IF \E o \in Operations : runs[RunOf(w)].items[o] \in {"skipped", "failed"}
                            THEN "partial" ELSE "completed")
  /\ UNCHANGED <<jobs, files>>

\* The catch of the run: everything that is not a pause or a cancellation.
FailRun(w) ==
  /\ \/ At(w, "failRun") /\ Throw(w, FALSE)
     \/ At(w, "retryRun") /\ Throw(w, TRUE)
  /\ setRunStatus(RunOf(w), "failed")
  /\ UNCHANGED <<jobs, files>>

-----------------------------------------------------------------------------
(* One operation: relocate().                                              *)

Here(w, path) == files[Op(w)][path]

\* Faulty: a source that is missing is a failure whatever the destination is.
Found_NoRecovery(w) ==
  LET r == RunOf(w) IN
  CASE Here(w, From(r)) = "absent" -> "failed"
    [] Here(w, From(r)) = "other" -> "skipped"
    [] OTHER -> IF Here(w, To(r)) # "absent" THEN "skipped"
                ELSE IF Live(r) THEN "none"
                ELSE IF Rollback(r) THEN "would-rollback" ELSE "simulated"

\* The outcome that the first look at the two paths decides; "none" when the
\* file is to be moved.
Found(w) ==
  LET r == RunOf(w) IN
  CASE Here(w, From(r)) = "absent" ->
         IF Here(w, To(r)) # "ours" THEN "failed"
         ELSE IF Rollback(r) THEN "already-rolled-back" ELSE "already-completed"
    [] Here(w, From(r)) = "other" -> "skipped"
    [] OTHER -> IF Here(w, To(r)) # "absent" THEN "skipped"
                ELSE IF Live(r) THEN "none"
                ELSE IF Rollback(r) THEN "would-rollback" ELSE "simulated"

\* With the volume gone nothing is found at either path.
Inspect(w) ==
  /\ At(w, "inspect")
  /\ \/ Found(w) = "none" /\ Goto(w, "recheck") /\ UNCHANGED obscured
     \/ Found(w) # "none" /\ Decide(w, Found(w)) /\ UNCHANGED obscured
     \/ gate = "gone" /\ Decide(w, "failed") /\ obscured' = obscured \cup {Op(w)}
  /\ UNCHANGED <<jobs, runs, files>>

\* The parent directories are there; both paths and the gate are checked
\* again.  What throws here fails the operation and not the run.
Recheck(w) ==
  /\ At(w, "recheck")
  /\ LET r == RunOf(w) IN
     IF Here(w, From(r)) # "ours" \/ Here(w, To(r)) # "absent" THEN Decide(w, "skipped")
     ELSE IF validateRootAndMode(r) THEN Goto(w, "rename") ELSE Decide(w, "failed")
  /\ UNCHANGED <<jobs, runs, files>>

\* rename() moves what is there and replaces what has come to the other path.
Rename(w) ==
  /\ UNCHANGED <<jobs, runs>>
  /\ \/ /\ Step(w, "rename", "verify")
        /\ Here(w, From(RunOf(w))) # "absent"
        /\ files' = [files EXCEPT ![Op(w)] = [p \in Paths |->
                       IF p = To(RunOf(w)) THEN Here(w, From(RunOf(w))) ELSE "absent"]]
     \/ /\ At(w, "rename") /\ Decide(w, "failed")
        /\ Here(w, From(RunOf(w))) = "absent" \/ gate = "gone"
        /\ UNCHANGED files

\* A file that cannot be verified is left to the retry of the job.
Verify(w) ==
  /\ At(w, "verify")
  /\ \/ /\ Here(w, To(RunOf(w))) = "ours"
        /\ Decide(w, IF Rollback(RunOf(w)) THEN "rolled-back" ELSE "moved")
     \/ /\ Here(w, To(RunOf(w))) # "ours" \/ gate = "gone"
        /\ Goto(w, "retryRun")
  /\ UNCHANGED <<jobs, runs, files>>

EngineMoves(w) ==
  \/ Load(w) \/ Begin(w) \/ StartRun(w) \/ List(w) \/ TakeOperation(w) \/ InterruptRun(w)
  \/ Leave(w) \/ RecordRunItem(w) \/ ReportItem(w) \/ CloseRun(w) \/ FailRun(w)
  \/ Recheck(w) \/ Rename(w) \/ Verify(w)

WorkerMoves(w) ==
  /\ \/ EngineMoves(w) /\ UNCHANGED obscured
     \/ Inspect(w)
     \/ ProcessMoves(w) /\ UNCHANGED <<runs, files, obscured>>
  /\ late' = IF files' # files /\ gate # "open" THEN late \cup {w} ELSE late

-----------------------------------------------------------------------------
(* The user controls jobs and mutation mode and works in the same folders. *)

Control == \E j \in Ids : \/ "pause" \in plan.controls /\ RequestPause(j)
                          \/ "cancel" \in plan.controls /\ Cancel(j)
                          \/ Resume(j)

\* setMutationMode; the revocation of the root, or the loss of its volume.
MoveGate ==
  /\ acts < plan.acts
  /\ acts' = acts + 1
  /\ gate' \in {"open", "readOnly", "gone"} \ {gate}
  /\ late' = {}

Edit(o, path) ==
  /\ acts < plan.acts
  /\ acts' = acts + 1
  /\ files' = [files EXCEPT ![o][path] = IF @ = "other" THEN "absent" ELSE "other"]
  /\ IF files[o][path] = "ours" THEN touched' = touched \cup {o} /\ UNCHANGED obscured
     ELSE obscured' = obscured \cup {o} /\ UNCHANGED touched

User ==
  \/ Control /\ UNCHANGED <<files, gate, history, late>>
  \/ MoveGate /\ UNCHANGED <<jobs, files, touched, obscured>>
  \/ (\E o \in Operations, path \in Paths : Edit(o, path)) /\ UNCHANGED <<jobs, gate, late>>

OInit ==
  /\ ProcessInit
  /\ plan \in Plans /\ runs = <<>>
  /\ files = [o \in Operations |-> [p \in Paths |-> IF p = "source" THEN "ours" ELSE "absent"]]
  /\ gate = "open" /\ late = {}
  /\ acts = 0 /\ touched = {} /\ obscured = {}

ONext ==
  /\ UNCHANGED plan
  /\ \/ Server
     \/ \E w \in Workers : WorkerMoves(w) /\ UNCHANGED <<crashes, gate, acts, touched>>
     \/ \E w \in Workers : Crash(w) /\ UNCHANGED <<runs, files, gate, history, late>>
     \/ Tick /\ UNCHANGED <<workers, crashes, runs, files, gate, history, late>>
     \/ User /\ UNCHANGED <<workers, crashes, runs>>

OSpec == OInit /\ [][ONext]_vars

-----------------------------------------------------------------------------
(* Properties.                                                             *)

\* Every store, file and process has its type; a run records only outcomes of
\* its own mode.
OTypeOK ==
  /\ TypeOK
  /\ workers \in [Workers -> Worker(HandlerPoints, Locals)]
  /\ crashes \in 0 .. MaxCrashes
  /\ plan \in Plans /\ runs \in Seq(Run) /\ Len(runs) <= plan.runs
  /\ \A r \in RunIds, o \in Operations :
       runs[r].items[o] \in Successes(runs[r].mode) \cup {"skipped", "failed", "none"}
  /\ files \in [Operations -> [Paths -> {"ours", "absent", "other"}]]
  /\ gate \in {"open", "readOnly", "gone"}
  /\ acts \in 0 .. plan.acts
  /\ touched \subseteq Operations /\ obscured \subseteq Operations /\ late \subseteq Workers

Closes(r, statuses) == runs[r].status # runs'[r].status /\ runs'[r].status \in statuses

\* Whether another run than r is a rollback of a live run that has a receipt for o.
Undone(r, o) ==
  \E q \in RunIds : /\ runs[q].mode = "rollback-live" /\ runs[q].sourceRun # r
                    /\ HasMoved(runs[q].sourceRun, o)

\* Whether another live run than r has a receipt for the file of o, or none yet, or
\* could not see it.
Accounted(r, o) ==
  \E s \in RunIds \ {r} : /\ runs[s].mode = "live"
                          /\ HasMoved(s, o) \/ runs[s].items[o] = "none" \/ o \in obscured

\* "A crash after the filesystem operation but before the receipt is
\* recognized as already completed during recovery": when a live run closes,
\* the files that it has receipts for are at their destinations, but for those
\* that the rollback of another live run has taken back; and a file that is at
\* its destination has its receipt, here or in another live run that has not
\* looked yet, for only such a file a rollback brings back. createRun lets a
\* second live run in beside one that has failed and that the queue will
\* retry (organization-store.ts:360-377).
ClosedRunAccountsForEveryMove ==
  [][\A r \in RunIds : Closes(r, {"completed", "partial"}) /\ runs[r].mode = "live" =>
       \A o \in Operations \ (touched \cup obscured) :
         /\ HasMoved(r, o) => files[o]["destination"] = "ours" \/ Undone(r, o)
         /\ files[o]["destination"] = "ours" => HasMoved(r, o) \/ Accounted(r, o)]_vars

\* A rollback that is reported completed has brought back every file that its
\* live run moved, but for those that another live run has moved again.
CompletedRollbackRestoresAll ==
  [][\A r \in RunIds : Closes(r, {"completed"}) /\ runs[r].mode = "rollback-live" =>
       \A o \in Operations \ touched :
         HasMoved(runs[r].sourceRun, o) =>
           files[o]["source"] = "ours" \/ Accounted(runs[r].sourceRun, o)]_vars

\* "Returning global mode to read-only takes effect at the next per-file
\* boundary": no worker moves a second file while the gate is closed.
ReadOnlyStopsAtTheNextFile ==
  [][\A w \in late : At(w, "rename") => workers'[w].pc # "verify"]_vars

=============================================================================
