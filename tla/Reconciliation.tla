--------------------------- MODULE Reconciliation ---------------------------
(***************************************************************************)
(* The comparison of two completed scans: ScalableReconciliationService    *)
(* and the handler of scans.reconcile in                                   *)
(* src/intelligence/reconciliation-job.ts, with the run and its deltas in  *)
(* intelligence-store.ts. It finds in three sweeps, a page at a time and   *)
(* resumable, what reconcile() of src/reconciliation/reconcile.ts finds at *)
(* once in two lists of records that are in memory.                        *)
(*                                                                         *)
(* A call to the store is a step. The store knows of no lease: a worker    *)
(* that has lost its own writes deltas until its next queue call, and then *)
(* fails a run that somebody else may have completed.                      *)
(*                                                                         *)
(* Abstractions. Paths are numbers in their order. The comparable facts of *)
(* a record are a number, 0 when a scan has no observed record of a path.  *)
(* The checkpoint is a number: 0 for none, then phase and position.        *)
(***************************************************************************)
EXTENDS WorkerProcess

CONSTANTS
  P,           \* number of paths
  Scans,       \* the pairs of scans that are compared: of each path, the facts
               \* in the baseline and in the comparison
  PageSize     \* differences read together

Paths == 1 .. P
Phases == 1 .. 3
Kind == <<"missing", "added", "metadata-changed">>

ASSUME ReconciliationAssumption ==
  /\ P \in Nat /\ PageSize \in Nat \ {0}
  /\ Scans \subseteq [Paths -> [before : Nat, after : Nat]]
  /\ MaxUnits >= 3 * (P + 1)
  /\ NoLocal = [phase |-> 1, after |-> 0, items |-> {}, why |-> "-"]

VARIABLES
  scans,   \* the pair of this comparison
  run,     \* reconciliation_runs
  deltas   \* reconciliation_deltas

vars == <<jobs, workers, crashes, scans, run, deltas>>

RunStatuses == {"none", "queued", "running", "paused", "completed", "failed", "cancelled"}
Deltas == [path : Paths, kind : {"missing", "added", "metadata-changed"}]

Code(phase, after) == 1 + (phase - 1) * (P + 1) + after
PhaseOf(c) == 1 + (c - 1) \div (P + 1)
AfterOf(c) == (c - 1) % (P + 1)

-----------------------------------------------------------------------------
(* reconcile(): the difference as it is defined.                           *)

Observed(side) == {p \in Paths : scans[p][side] # 0}

reconcile ==
  {[path |-> p, kind |-> "missing"] : p \in Observed("before") \ Observed("after")}
    \cup {[path |-> p, kind |-> "metadata-changed"] :
            p \in {q \in Observed("before") \cap Observed("after") : scans[q].before # scans[q].after}}
    \cup {[path |-> p, kind |-> "added"] : p \in Observed("after") \ Observed("before")}

-----------------------------------------------------------------------------
(* The store.                                                              *)

createReconciliation ==
  run' = IF run.status = "none" THEN [run EXCEPT !.status = "queued"] ELSE run

attachReconciliationJob(job) == run' = [run EXCEPT !.job = IF @ = 0 THEN job ELSE @]

setReconciliationState(status, phase) ==
  run' = [run EXCEPT !.status = status, !.phase = phase]

\* One join per phase.
Differs(phase, p) ==
  CASE phase = 1 -> scans[p].before # 0 /\ scans[p].after = 0
    [] phase = 2 -> scans[p].after # 0 /\ scans[p].before = 0
    [] phase = 3 -> scans[p].before # 0 /\ scans[p].after # 0 /\ scans[p].before # scans[p].after

reconciliationWork(phase, after) ==
  LET rest == {p \in Paths : p > after /\ Differs(phase, p)}
  IN {p \in rest : Cardinality({q \in rest : q <= p}) <= PageSize}

\* Faulty: counts the items of the page, whether they are new or not.
saveReconciliationWork_CountsAll(phase, items) ==
  LET page == {[path |-> p, kind |-> Kind[phase]] : p \in items}
  IN /\ deltas' = deltas \cup page
     /\ run' = [run EXCEPT !.counts[phase] = @ + Cardinality(page)]

saveReconciliationWork(phase, items) ==
  LET page == {[path |-> p, kind |-> Kind[phase]] : p \in items}
  IN /\ deltas' = deltas \cup page
     /\ run' = [run EXCEPT !.counts[phase] = @ + Cardinality(page \ deltas)]

-----------------------------------------------------------------------------
(* The handler.                                                            *)

HandlerPoints == {"begin", "page", "persist", "save", "report", "nextPhase", "enter", "close",
                  "stop"}
Locals == [phase : Phases, after : 0 .. P, items : SUBSET Paths, why : {"-", "pause", "cancel", "error"}]
Nothing == [phase |-> 1, after |-> 0, items |-> {}, why |-> "-"]

Local(w) == workers[w].local
Load(w) == LoadJob(w, "begin", Nothing) /\ UNCHANGED <<run, deltas>>

\* A run that has completed is done; else go on where the checkpoint is, or in
\* the phase of the run.
BeginRun(w) ==
  /\ At(w, "begin") /\ UNCHANGED <<jobs, deltas>>
  /\ LET c == workers[w].saved
         start == IF c = 0 THEN [Nothing EXCEPT !.phase = run.phase]
                  ELSE [Nothing EXCEPT !.phase = PhaseOf(c), !.after = AfterOf(c)]
     IN IF run.status = "completed" THEN Goto(w, "finish") /\ UNCHANGED run
        ELSE Continue(w, "page", start) /\ setReconciliationState("running", start.phase)

\* Stop the run for a reason, which its catch writes into the run.
Stop(w, why) == Continue(w, "stop", [Local(w) EXCEPT !.why = why]) /\ UNCHANGED jobs

\* Faulty: the next phase starts behind the last path of the one before.
NextPhase_KeepsCursor(local) == [local EXCEPT !.phase = @ + 1, !.items = {}]

NextPhase(local) == [local EXCEPT !.phase = @ + 1, !.after = 0, !.items = {}]

\* A request, or the next page; without one the next phase, or the end.
ReadPage(w) ==
  /\ At(w, "page") /\ UNCHANGED <<run, deltas>>
  /\ LET items == reconciliationWork(Local(w).phase, Local(w).after)
     IN CASE controlSignal(w) = "stale" -> Stop(w, "error")
          [] controlSignal(w) \in {"pause", "cancel"} -> Stop(w, controlSignal(w))
          [] OTHER ->
               /\ UNCHANGED jobs
               /\ IF items # {} THEN Continue(w, "persist", [Local(w) EXCEPT !.items = items])
                  ELSE IF Local(w).phase < 3 THEN Continue(w, "nextPhase", NextPhase(Local(w)))
                  ELSE Goto(w, "close")

Persist(w) ==
  /\ At(w, "persist") /\ UNCHANGED jobs
  /\ saveReconciliationWork(Local(w).phase, Local(w).items)
  /\ Continue(w, "save", [Local(w) EXCEPT
       !.after = CHOOSE p \in Local(w).items : \A q \in Local(w).items : q <= p,
       !.items = {}])

\* saveCheckpoint after a page and at the start of a phase, and reportProgress.
Record(w) ==
  /\ UNCHANGED <<run, deltas>>
  /\ LET c == Code(Local(w).phase, Local(w).after)
     IN \/ At(w, "save") /\ SaveContext(w, c, "report", Local(w))
        \/ At(w, "report") /\ ReportContext(w, "page", Local(w))
        \/ At(w, "nextPhase") /\ SaveContext(w, c, "enter", Local(w))
        \/ /\ \E p \in {"save", "report", "nextPhase"} : At(w, p)
           /\ LeaseLost(w) /\ Stop(w, "error")

EnterPhase(w) ==
  /\ At(w, "enter") /\ Goto(w, "page") /\ UNCHANGED <<jobs, deltas>>
  /\ setReconciliationState("running", Local(w).phase)

\* The phase of the run becomes "complete", which its status says too.
CloseRun(w) ==
  /\ At(w, "close") /\ Goto(w, "finish") /\ UNCHANGED <<jobs, deltas>>
  /\ setReconciliationState("completed", Local(w).phase)

\* The catch of run().
StopRun(w) ==
  LET why == Local(w).why
  IN /\ At(w, "stop") /\ UNCHANGED <<jobs, deltas>>
     /\ setReconciliationState(CASE why = "pause" -> "paused" [] why = "cancel" -> "cancelled"
                                 [] OTHER -> "failed", Local(w).phase)
     /\ CASE why = "pause" -> Goto(w, "ackPause")
          [] why = "cancel" -> Goto(w, "ackCancel")
          [] OTHER -> Throw(w, TRUE)

WorkerMoves(w) ==
  \/ Load(w) \/ BeginRun(w) \/ ReadPage(w) \/ Persist(w) \/ Record(w) \/ EnterPhase(w)
  \/ CloseRun(w) \/ StopRun(w)
  \/ ProcessMoves(w) /\ UNCHANGED <<run, deltas>>

-----------------------------------------------------------------------------
(* The client: compare(), in its three calls.                              *)

Create == createReconciliation /\ UNCHANGED <<jobs, deltas>>

SubmitRun(s) ==
  /\ run.status \notin {"none", "completed"} /\ run.job = 0
  /\ Submit(s) /\ UNCHANGED <<run, deltas>>

Attach == \E j \in Ids : attachReconciliationJob(j) /\ UNCHANGED <<jobs, deltas>>

Control == \E j \in Ids : RequestPause(j) \/ Resume(j) \/ Cancel(j)

CInit ==
  /\ ProcessInit
  /\ scans \in Scans
  /\ run = [status |-> "none", job |-> 0, phase |-> 1, counts |-> [k \in Phases |-> 0]]
  /\ deltas = {}

CNext ==
  \/ (Create \/ (\E s \in Submissions : SubmitRun(s)) \/ Attach)
       /\ UNCHANGED <<workers, crashes, scans>>
  \/ (Control \/ Tick) /\ UNCHANGED <<workers, crashes, scans, run, deltas>>
  \/ \E w \in Workers : WorkerMoves(w) /\ UNCHANGED <<crashes, scans>>
  \/ \E w \in Workers : Crash(w) /\ UNCHANGED <<scans, run, deltas>>

CSpec == CInit /\ [][CNext]_vars

-----------------------------------------------------------------------------
(* Properties.                                                             *)

\* Every table and process has its type.
CTypeOK ==
  /\ TypeOK
  /\ workers \in [Workers -> Worker(HandlerPoints, Locals)]
  /\ crashes \in 0 .. MaxCrashes
  /\ scans \in Scans
  /\ run.status \in RunStatuses /\ run.job \in 0 .. MaxJobs
  /\ run.phase \in Phases /\ run.counts \in [Phases -> Nat]
  /\ deltas \subseteq Deltas

\* However often it was interrupted, and by whomever its pages were written, a
\* comparison that has completed holds exactly the differences of the scans.
CompletedComparisonIsExact == run.status = "completed" => deltas = reconcile

\* A page that is written twice is counted once: the counters that the report
\* and the pages show are those of the deltas.
CountsMatchTheDeltas ==
  \A k \in Phases : run.counts[k] = Cardinality({d \in deltas : d.kind = Kind[k]})
=============================================================================
