-------------------------- MODULE OrganizationProofs --------------------------
(***************************************************************************)
(* Theorems about the runs of an organization plan, for any operations,    *)
(* runs, attempts and crashes and whatever the user does.                  *)
(*                                                                         *)
(* That a closed gate stops a worker at the next file holds of any number  *)
(* of workers.  That receipts and files agree does not: a worker that has  *)
(* lost its lease may move a file after its run has closed.  Of one worker *)
(* it holds because everything between the first look at a file and its    *)
(* receipt is that worker's, except for what the user does; and because    *)
(* nobody but the rollback of another live run moves a file back before    *)
(* the run that moved it has closed.  A file at its destination has been   *)
(* moved by a live run that still has no outcome for it, or recorded it.   *)
(***************************************************************************)
EXTENDS Organization, JobQueueProofs

OutcomesOf(mode) == Successes(mode) \cup {"skipped", "failed", "none"}
Closed(r) == runs[r].status \in {"completed", "partial"}

WorkersTyped == workers \in [Workers -> Worker(HandlerPoints, Locals)]

RunsTyped == runs \in Seq(Run) /\ Len(runs) <= plan.runs
FilesTyped == files \in [Operations -> [Paths -> {"ours", "absent", "other"}]]

\* Every job is that of one run, and submitted for it.
JobsInv ==
  /\ \A r \in RunIds : runs[r].job # 0 =>
       runs[r].job \in Ids /\ jobs[runs[r].job].sub = SubmissionOf[r]
  /\ \A j \in Ids : \E r \in RunIds : runs[r].job = j

\* A worker that has moved a file since the gate closed is not where it could move
\* another: before that it passes the place where mutation mode is asked for.
LateInv ==
  /\ late \subseteq Workers
  /\ late # {} => gate # "open"
  /\ \A w \in late : /\ workers[w].pc \notin {"recheck", "rename"}
                     /\ workers[w].pc = "inspect" => ~Live(RunOf(w))

\* Where a worker has taken an operation.
Taken == {"pauseRun", "cancelRun", "leave", "inspect", "recheck", "rename", "verify", "record",
          "save"}
TakenInv == \A w \in Workers : workers[w].pc \in Taken => workers[w].local.op \in Operations

OInv ==
  /\ IndInv /\ LinkInv /\ WorkersTyped
  /\ plan \in Plans /\ RunsTyped /\ FilesTyped /\ JobsInv /\ TakenInv /\ LateInv

\* What a worker writes of a run.
Written(r, status, items) ==
  /\ RunIds' = RunIds
  /\ \A q \in RunIds \ {r} : runs'[q] = runs[q]
  /\ runs'[r].mode = runs[r].mode /\ runs'[r].sourceRun = runs[r].sourceRun
  /\ runs'[r].job = runs[r].job
  /\ runs'[r].status = status /\ runs'[r].items = items

\* What any step leaves of the runs.
RunsKept ==
  /\ RunIds \subseteq RunIds'
  /\ \A r \in RunIds : /\ runs'[r].mode = runs[r].mode
                       /\ runs'[r].sourceRun = runs[r].sourceRun
                       /\ runs[r].job # 0 => runs'[r].job = runs[r].job

-----------------------------------------------------------------------------
(* Runs and their jobs.                                                    *)

LEMMA PlanFacts ==
  ASSUME plan \in Plans
  PROVE  /\ MaxRuns \in Nat /\ plan.runs \in 0 .. MaxRuns /\ MaxUnits \in Nat
         /\ \E n \in 0 .. MaxUnits : Operations = 1 .. n
         /\ NoLocal = [todo |-> {}, op |-> 0, outcome |-> "none"] /\ NoLocal \in Locals
BY OrganizationAssumption, BoundsAssumption DEF Operations, Locals

LEMMA RunFacts ==
  ASSUME plan \in Plans, RunsTyped
  PROVE  /\ Len(runs) \in 0 .. MaxRuns /\ RunIds = 1 .. Len(runs)
         /\ \A r \in RunIds : r \in 1 .. MaxRuns /\ runs[r] \in Run
<1>1. Len(runs) \in Nat /\ RunIds = 1 .. Len(runs) /\ Len(runs) <= plan.runs
  BY LenProperties DEF RunsTyped, RunIds
<1>2. \A r \in RunIds : runs[r] \in Run
  BY ElementOfSeq, <1>1 DEF RunsTyped
<1> QED
  BY <1>1, <1>2, PlanFacts

LEMMA RunsBounded ==
  ASSUME NEW p \in Plans, NEW T, NEW rs \in Seq(T), Len(rs) <= p.runs
  PROVE  DOMAIN rs \subseteq 1 .. MaxRuns
<1>1. p.runs \in 0 .. MaxRuns /\ MaxRuns \in Nat
  BY OrganizationAssumption
<1>2. Len(rs) \in Nat /\ DOMAIN rs = 1 .. Len(rs)
  BY LenProperties
<1> QED
  BY <1>1, <1>2

\* A job is that of one run.
LEMMA OneRun ==
  ASSUME NEW rs, NEW table, DOMAIN rs \subseteq 1 .. MaxRuns,
         \A r \in DOMAIN rs : rs[r].job # 0 => table[rs[r].job].sub = SubmissionOf[r],
         NEW q \in DOMAIN rs, NEW r \in DOMAIN rs, rs[q].job = rs[r].job, rs[q].job # 0
  PROVE  q = r
<1>1. SubmissionOf[q] = SubmissionOf[r]
  OBVIOUS
<1> QED
  BY <1>1, OrganizationAssumption

LEMMA RunOfJob ==
  ASSUME plan \in Plans, RunsTyped, JobsInv, Bounded, NEW w, Job(w) \in Ids
  PROVE  /\ RunOf(w) \in RunIds /\ runs[RunOf(w)].job = Job(w)
         /\ \A r \in RunIds : runs[r].job = Job(w) => r = RunOf(w)
<1>1. Job(w) # 0
  BY DEF Bounded
<1>2. PICK q \in RunIds : runs[q].job = Job(w)
  BY DEF JobsInv
<1>3. RunOf(w) \in RunIds /\ runs[RunOf(w)].job = Job(w)
  BY <1>2 DEF RunOf
<1>4. RunIds \subseteq 1 .. MaxRuns
  BY RunsBounded DEF RunsTyped, RunIds
<1>5. \A r \in RunIds : runs[r].job # 0 => jobs[runs[r].job].sub = SubmissionOf[r]
  BY DEF JobsInv
<1> QED
  BY <1>1, <1>3, <1>4, <1>5, OneRun DEF RunIds

LEMMA RunOfStays ==
  ASSUME plan \in Plans, plan' \in Plans, RunsTyped, RunsTyped', JobsInv, JobsInv', Bounded,
         RunsKept, NEW w, Job(w) \in Ids, Job(w)' = Job(w)
  PROVE  RunOf(w)' = RunOf(w)
<1>1. /\ RunOf(w) \in RunIds /\ runs[RunOf(w)].job = Job(w)
  BY RunOfJob
<1>2. Job(w) # 0
  BY DEF Bounded
<1>3. RunOf(w) \in RunIds' /\ runs'[RunOf(w)].job = Job(w)'
  BY <1>1, <1>2 DEF RunsKept
<1>4. RunOf(w)' \in RunIds' /\ runs'[RunOf(w)'].job = Job(w)'
  BY <1>3 DEF RunOf
<1>5. RunIds' \subseteq 1 .. MaxRuns
  BY RunsBounded DEF RunsTyped, RunIds
<1>6. \A r \in RunIds' : runs'[r].job # 0 => jobs'[runs'[r].job].sub = SubmissionOf[r]
  BY DEF JobsInv
<1> QED
  BY <1>2, <1>3, <1>4, <1>5, <1>6, OneRun DEF RunIds

\* A step that submits nothing.
LEMMA JobsStay ==
  ASSUME JobsInv, Bounded, TableStep, Ids' = Ids, RunsKept,
         \A r \in RunIds : runs'[r].job = runs[r].job,
         \A r \in RunIds' \ RunIds : runs'[r].job = 0
  PROVE  JobsInv'
<1>1. \A j \in Ids : jobs'[j].sub = jobs[j].sub
  BY DEF TableStep, RowStep
<1>2. \A r \in RunIds' : runs'[r].job # 0 => r \in RunIds
  OBVIOUS
<1> QED
  BY <1>1, <1>2 DEF JobsInv, RunsKept

-----------------------------------------------------------------------------
(* The writers of organization-store.ts.                                   *)

LEMMA SameTypes == UNCHANGED plan => Operations' = Operations /\ Run' = Run /\ Locals' = Locals
BY DEF Operations, Run, Locals

LEMMA RunWritten ==
  ASSUME plan \in Plans, UNCHANGED plan, RunsTyped, NEW r \in RunIds, NEW new \in Run,
         runs' = [runs EXCEPT ![r] = new],
         new.mode = runs[r].mode, new.sourceRun = runs[r].sourceRun, new.job = runs[r].job
  PROVE  RunsTyped' /\ Written(r, new.status, new.items)
<1>1. runs \in Seq(Run) /\ Len(runs) <= plan.runs /\ r \in DOMAIN runs
  BY DEF RunsTyped, RunIds
<1>2. runs' \in Seq(Run) /\ Len(runs') = Len(runs) /\ DOMAIN runs' = DOMAIN runs
  BY <1>1
<1>3. RunsTyped'
  BY <1>1, <1>2, SameTypes DEF RunsTyped
<1>4. runs'[r] = new /\ \A q \in RunIds \ {r} : runs'[q] = runs[q]
  BY <1>1 DEF RunIds
<1> QED
  BY <1>2, <1>3, <1>4 DEF Written, RunIds

LEMMA StatusWritten ==
  ASSUME plan \in Plans, UNCHANGED plan, RunsTyped, NEW r \in RunIds, NEW s \in RunStatuses,
         setRunStatus(r, s)
  PROVE  RunsTyped' /\ Written(r, s, runs[r].items)
<1> DEFINE new == [runs[r] EXCEPT !.status = s]
<1>1. runs[r] \in Run /\ runs' = [runs EXCEPT ![r] = new]
  BY RunFacts DEF setRunStatus
<1>2. /\ new \in Run /\ new.mode = runs[r].mode /\ new.sourceRun = runs[r].sourceRun
      /\ new.job = runs[r].job /\ new.status = s /\ new.items = runs[r].items
  BY <1>1 DEF Run
<1> HIDE DEF new
<1> QED
  BY <1>1, <1>2, RunWritten

LEMMA ItemWritten ==
  ASSUME plan \in Plans, UNCHANGED plan, RunsTyped, NEW r \in RunIds, NEW o \in Operations,
         NEW outcome \in ItemOutcomes \cup {"none"},
         runs' = [runs EXCEPT ![r].items[o] = IF @ = "none" THEN outcome ELSE @]
  PROVE  /\ RunsTyped'
         /\ Written(r, runs[r].status,
                    [runs[r].items EXCEPT ![o] = IF runs[r].items[o] = "none" THEN outcome
                                                 ELSE runs[r].items[o]])
<1> DEFINE items == [runs[r].items EXCEPT ![o] = IF runs[r].items[o] = "none" THEN outcome
                                                 ELSE runs[r].items[o]]
           new == [runs[r] EXCEPT !.items = items]
<1>1. runs[r] \in Run /\ runs' = [runs EXCEPT ![r] = new]
  BY RunFacts
<1>2. items \in [Operations -> ItemOutcomes \cup {"none"}]
  BY <1>1 DEF Run
<1> HIDE DEF items
<1>3. /\ new \in Run /\ new.mode = runs[r].mode /\ new.sourceRun = runs[r].sourceRun
      /\ new.job = runs[r].job /\ new.status = runs[r].status /\ new.items = items
  BY <1>1, <1>2 DEF Run
<1> HIDE DEF new
<1>4. RunsTyped' /\ Written(r, new.status, new.items)
  BY <1>1, <1>3, RunWritten
<1> QED
  BY <1>3, <1>4 DEF items

LEMMA NothingWritten ==
  ASSUME UNCHANGED <<plan, runs>>, RunsTyped, NEW r \in RunIds
  PROVE  RunsTyped' /\ Written(r, runs[r].status, runs[r].items)
BY SameTypes DEF RunsTyped, Written, RunIds

LEMMA WrittenKeeps ==
  ASSUME NEW r \in RunIds, NEW s, NEW items, Written(r, s, items)
  PROVE  RunsKept /\ RunIds' = RunIds /\ \A q \in RunIds : runs'[q].job = runs[q].job
BY DEF Written, RunsKept

-----------------------------------------------------------------------------
(* The engine, action by action.                                           *)

LEMMA HandlerFacts ==
  ASSUME OInv, NEW w \in Workers, workers[w].pc \in HandlerPoints
  PROVE  LET x == workers[w]
             r == RunOf(w)
         IN /\ x \in Worker(HandlerPoints, Locals) /\ Linked(x) /\ x.job \in Ids
            /\ x.local \in Locals /\ NoLocal \in Locals
            /\ r \in RunIds /\ runs[r] \in Run /\ runs[r].job = x.job
<1>1. /\ workers[w] \in Worker(HandlerPoints, Locals) /\ LinkInv /\ plan \in Plans
      /\ RunsTyped /\ JobsInv /\ Bounded
  BY DEF OInv, WorkersTyped, LinkInv
<1>2. Linked(workers[w])
  BY DEF Linked, HandlerPoints
<1>3. workers[w].job \in Ids
  BY <1>1, <1>2 DEF LinkInv, LinkOK
<1>4. RunOf(w) \in RunIds /\ runs[RunOf(w)].job = workers[w].job
  BY <1>1, <1>3, RunOfJob DEF Job
<1>5. workers[w].local \in Locals
  BY <1>1 DEF Worker
<1> QED
  BY <1>1, <1>2, <1>3, <1>4, <1>5, PlanFacts, RunFacts

\* A worker goes on, at a point and with local variables.
Goes(w, point, local) ==
  /\ WorkersTyped' /\ Ids' = Ids /\ \E saved : Acts(w, {}, saved)
  /\ workers'[w].job = workers[w].job
  /\ workers'[w].pc = point /\ workers'[w].local = local

LEMMA GoesOn ==
  ASSUME OInv, NEW w \in Workers, workers[w].pc \in HandlerPoints, UNCHANGED plan
  PROVE  /\ UNCHANGED jobs =>
              /\ \A point \in Points \cup HandlerPoints :
                   Goto(w, point) => Goes(w, point, workers[w].local)
              /\ \A point \in Points \cup HandlerPoints, local \in Locals :
                   Continue(w, point, local) => Goes(w, point, local)
              /\ \A retryable \in BOOLEAN :
                   Throw(w, retryable) => \E local : Goes(w, "fail", local)
         /\ \A c \in Checkpoints, point \in Points \cup HandlerPoints, local \in Locals :
              SaveContext(w, c, point, local) => Goes(w, point, local)
         /\ \A point \in Points \cup HandlerPoints, local \in Locals :
              ReportContext(w, point, local) => Goes(w, point, local)
<1>1. /\ IndInv /\ LinkInv /\ workers \in [Workers -> Worker(HandlerPoints, Locals)]
      /\ Linked(workers[w]) /\ workers[w].job \in Ids /\ NoLocal \in Locals
  BY HandlerFacts DEF OInv, WorkersTyped
<1>2. workers' \in [Workers -> Worker(HandlerPoints, Locals)] => WorkersTyped'
  BY SameTypes DEF WorkersTyped, Worker, Checkpoints, Points, HandlerPoints
<1>3. ASSUME UNCHANGED jobs
      PROVE  /\ \A point \in Points \cup HandlerPoints :
                  Goto(w, point) => Goes(w, point, workers[w].local)
             /\ \A point \in Points \cup HandlerPoints, local \in Locals :
                  Continue(w, point, local) => Goes(w, point, local)
             /\ \A retryable \in BOOLEAN :
                  Throw(w, retryable) => \E local : Goes(w, "fail", local)
  <2>1. Ids' = Ids
    BY <1>3 DEF Ids
  <2>2. ASSUME NEW point \in Points \cup HandlerPoints, Goto(w, point)
        PROVE  Goes(w, point, workers[w].local)
    BY <1>1, <1>2, <1>3, <2>1, <2>2, GotoActs DEF Goes
  <2>3. ASSUME NEW point \in Points \cup HandlerPoints, NEW local \in Locals,
               Continue(w, point, local)
        PROVE  Goes(w, point, local)
    BY <1>1, <1>2, <1>3, <2>1, <2>3, ContinueActs DEF Goes
  <2>4. ASSUME NEW retryable \in BOOLEAN, Throw(w, retryable)
        PROVE  \E local : Goes(w, "fail", local)
    <3>1. workers' \in [Workers -> Worker(HandlerPoints, Locals)] /\ Acts(w, {}, {})
      BY <1>1, <1>3, <2>4, ThrowActs
    <3>2. workers'[w].pc = "fail" /\ workers'[w].job = workers[w].job
      BY <1>1, <2>4, ThrowPoint
    <3> QED
      BY <1>2, <2>1, <3>1, <3>2 DEF Goes
  <2> QED
    BY <2>2, <2>3, <2>4
<1>4. ASSUME NEW c \in Checkpoints, NEW point \in Points \cup HandlerPoints, NEW local \in Locals,
             SaveContext(w, c, point, local)
      PROVE  Goes(w, point, local)
  <2>1. Ids' = Ids
    BY <1>1, <1>4, CallIds DEF SaveContext, Job
  <2>2. /\ workers' \in [Workers -> Worker(HandlerPoints, Locals)]
        /\ Acts(w, {}, {workers[w].job})
        /\ workers'[w].pc = point /\ workers'[w].local = local /\ workers'[w].job = workers[w].job
    BY <1>1, <1>4, SaveContextActs
  <2> QED
    BY <1>2, <2>1, <2>2 DEF Goes
<1>5. ASSUME NEW point \in Points \cup HandlerPoints, NEW local \in Locals,
             ReportContext(w, point, local)
      PROVE  Goes(w, point, local)
  <2>1. Ids' = Ids
    BY <1>1, <1>5, CallIds DEF ReportContext, Job
  <2>2. /\ workers' \in [Workers -> Worker(HandlerPoints, Locals)]
        /\ Acts(w, {}, {})
        /\ workers'[w].pc = point /\ workers'[w].local = local /\ workers'[w].job = workers[w].job
    BY <1>1, <1>5, ReportContextActs
  <2> QED
    BY <1>2, <2>1, <2>2 DEF Goes
<1> QED
  BY <1>3, <1>4, <1>5

\* What a step leaves of the stores: the status of its run, or an outcome, is written.
Sets(r, status, items) == RunsTyped' /\ FilesTyped' /\ Written(r, status, items) /\ UNCHANGED files
Looks(r) == Sets(r, runs[r].status, runs[r].items)

LEMMA OutcomesOfMode ==
  ASSUME NEW m \in RunModes
  PROVE  Successes(m) \subseteq ItemOutcomes
BY DEF ItemOutcomes

LEMMA SomeOutcomes ==
  {"skipped", "failed", "moved", "rolled-back", "already-completed", "already-rolled-back",
   "simulated", "would-rollback"} \subseteq ItemOutcomes
<1>1. {"skipped", "failed"} \subseteq ItemOutcomes
  BY DEF ItemOutcomes
<1>2. {"simulated", "already-completed"} \subseteq ItemOutcomes
  BY OutcomesOfMode DEF RunModes, Successes
<1>3. "moved" \in ItemOutcomes
  BY OutcomesOfMode DEF RunModes, Successes
<1>4. {"would-rollback", "already-rolled-back"} \subseteq ItemOutcomes
  BY OutcomesOfMode DEF RunModes, Successes
<1>5. "rolled-back" \in ItemOutcomes
  BY OutcomesOfMode DEF RunModes, Successes
<1> QED
  BY <1>1, <1>2, <1>3, <1>4, <1>5

LEMMA LooksStep ==
  ASSUME OInv, NEW w \in Workers, workers[w].pc \in HandlerPoints, UNCHANGED <<plan, runs, files>>
  PROVE  Looks(RunOf(w))
<1>1. RunsTyped /\ FilesTyped /\ RunOf(w) \in RunIds
  BY HandlerFacts DEF OInv
<1> QED
  BY <1>1, NothingWritten, SameTypes DEF Looks, Sets, FilesTyped

LEMMA SetsStep ==
  ASSUME OInv, NEW w \in Workers, workers[w].pc \in HandlerPoints, UNCHANGED <<plan, files>>,
         NEW s \in RunStatuses, setRunStatus(RunOf(w), s)
  PROVE  Sets(RunOf(w), s, runs[RunOf(w)].items)
<1>1. plan \in Plans /\ RunsTyped /\ FilesTyped /\ RunOf(w) \in RunIds
  BY HandlerFacts DEF OInv
<1> QED
  BY <1>1, StatusWritten, SameTypes DEF Sets, FilesTyped

LEMMA BeginStep ==
  ASSUME OInv, NEW w \in Workers, UNCHANGED plan, Begin(w)
  PROVE  LET y == workers'[w]
             r == RunOf(w)
         IN /\ workers[w].pc = "begin" /\ Goes(w, y.pc, y.local) /\ Looks(r)
            /\ y.pc \in {"finish", "start", "failRun"}
            /\ y.pc # "finish" => ~Closed(r)
<1>1. workers[w].pc \in HandlerPoints /\ workers[w].pc = "begin"
  BY DEF Begin, At, HandlerPoints
<1>2. /\ "finish" \in Points \cup HandlerPoints /\ "start" \in Points \cup HandlerPoints
      /\ "failRun" \in Points \cup HandlerPoints
  BY DEF Points, HandlerPoints
<1>3. PICK point \in {"finish", "start", "failRun"} :
         Goto(w, point) /\ (point # "finish" => ~Closed(RunOf(w)))
  BY DEF Begin, Closed
<1>4. Goes(w, point, workers[w].local)
  BY <1>1, <1>2, <1>3, GoesOn DEF Begin
<1>5. Looks(RunOf(w))
  BY <1>1, LooksStep DEF Begin
<1> QED
  BY <1>1, <1>3, <1>4, <1>5 DEF Goes

LEMMA StartStep ==
  ASSUME OInv, NEW w \in Workers, UNCHANGED plan, StartRun(w)
  PROVE  LET y == workers'[w]
             r == RunOf(w)
         IN /\ workers[w].pc = "start" /\ Goes(w, y.pc, y.local) /\ y.pc = "list"
            /\ Sets(r, runs'[r].status, runs[r].items)
            /\ runs'[r].status \in {"completed", "partial"} => runs'[r].status = runs[r].status
<1>1. workers[w].pc \in HandlerPoints /\ workers[w].pc = "start" /\ Goto(w, "list")
  BY DEF StartRun, Step, At, HandlerPoints
<1>2. Goes(w, "list", workers[w].local)
  BY <1>1, GoesOn DEF StartRun, HandlerPoints
<1>3. \E s : /\ Sets(RunOf(w), s, runs[RunOf(w)].items)
             /\ s \in {"completed", "partial"} => s = runs[RunOf(w)].status
  <2>1. CASE UNCHANGED runs
    BY <1>1, <2>1, LooksStep DEF StartRun, Looks
  <2>2. CASE setRunStatus(RunOf(w), "running")
    <3>1. Sets(RunOf(w), "running", runs[RunOf(w)].items)
      BY <1>1, <2>2, SetsStep DEF StartRun, RunStatuses
    <3> QED
      BY <3>1
  <2> QED
    BY <2>1, <2>2 DEF StartRun
<1>4. \A s, items : Sets(RunOf(w), s, items) => s = runs'[RunOf(w)].status
  BY DEF Sets, Written
<1>5. /\ Sets(RunOf(w), runs'[RunOf(w)].status, runs[RunOf(w)].items)
      /\ runs'[RunOf(w)].status \in {"completed", "partial"} =>
           runs'[RunOf(w)].status = runs[RunOf(w)].status
  BY <1>3, <1>4
<1> QED
  BY <1>1, <1>2, <1>5 DEF Goes

LEMMA ListStep ==
  ASSUME OInv, NEW w \in Workers, UNCHANGED plan, List(w)
  PROVE  LET y == workers'[w]
             r == RunOf(w)
         IN /\ workers[w].pc = "list" /\ Goes(w, y.pc, y.local) /\ Looks(r)
            /\ y.pc = "take" /\ y.local.todo = executableOperations(r)
<1> DEFINE local == [NoLocal EXCEPT !.todo = executableOperations(RunOf(w))]
<1>1. workers[w].pc \in HandlerPoints /\ workers[w].pc = "list" /\ Continue(w, "take", local)
  BY DEF List, At, HandlerPoints
<1>2. NoLocal \in Locals
  BY <1>1, HandlerFacts
<1>3. local \in Locals /\ local.todo = executableOperations(RunOf(w))
  BY <1>2 DEF Locals, executableOperations
<1> HIDE DEF local
<1>4. Goes(w, "take", local)
  BY <1>1, <1>3, GoesOn DEF List, HandlerPoints
<1>5. Looks(RunOf(w))
  BY <1>1, LooksStep DEF List
<1> QED
  BY <1>1, <1>3, <1>4, <1>5 DEF Goes

\* The operation that comes next is one of those that are left.
LEMMA NextOpFact ==
  ASSUME OInv, NEW w \in Workers, workers[w].local \in Locals, workers[w].local.todo # {}
  PROVE  NextOp(w) \in workers[w].local.todo
<1> DEFINE S == workers[w].local.todo
<1>1. PICK n \in 0 .. MaxUnits : Operations = 1 .. n
  BY PlanFacts DEF OInv
<1>2. S \in SUBSET (0 .. n) /\ S \in SUBSET Nat /\ S # {} /\ n \in Nat
  <2>1. MaxUnits \in Nat /\ S \subseteq Operations
    BY BoundsAssumption DEF Locals
  <2> QED
    BY <1>1, <2>1
<1> HIDE DEF S
<1>3. \E i \in S : \A k \in S : i <= k
  BY <1>2, LeastElement
<1>4. \E i \in S : \A k \in S : k <= i
  BY <1>2, GreatestElement
<1>5. \E i \in S : \A k \in S : i >= k
  BY <1>2, <1>4
<1> QED
  BY <1>3, <1>5 DEF NextOp, S, Local

LEMMA TakeStep ==
  ASSUME OInv, NEW w \in Workers, UNCHANGED plan, TakeOperation(w)
  PROVE  LET x == workers[w]
             y == workers'[w]
             r == RunOf(w)
         IN /\ x.pc = "take" /\ Goes(w, y.pc, y.local) /\ Looks(r)
            /\ y.pc \in {"close", "failRun", "cancelRun", "pauseRun", "inspect"}
            /\ y.pc = "close" => x.local.todo = {}
            /\ y.pc \in {"cancelRun", "pauseRun", "inspect"} =>
                 /\ y.local.op \in x.local.todo
                 /\ y.local.todo = x.local.todo \ {y.local.op}
            /\ y.pc = "inspect" => validateRootAndMode(r)
<1> DEFINE x == workers[w]
           o == NextOp(w)
           local == [Local(w) EXCEPT !.op = o, !.todo = @ \ {o}, !.outcome = "none"]
<1>1. x.pc \in HandlerPoints /\ x.pc = "take"
  BY DEF TakeOperation, At, HandlerPoints
<1>2. x.local \in Locals
  BY <1>1, HandlerFacts
<1>3. Looks(RunOf(w))
  BY <1>1, LooksStep DEF TakeOperation
<1>4. CASE x.local.todo = {}
  <2>1. Goto(w, "close")
    BY <1>4 DEF TakeOperation, Local
  <2>2. Goes(w, "close", x.local)
    BY <1>1, <2>1, GoesOn DEF TakeOperation, HandlerPoints
  <2> QED
    BY <1>1, <1>3, <1>4, <2>2 DEF Goes
<1>5. CASE x.local.todo # {}
  <2>1. PICK point \in {"failRun", "cancelRun", "pauseRun", "inspect"} :
          /\ Continue(w, point, local)
          /\ point = "inspect" => validateRootAndMode(RunOf(w))
    BY <1>5, Zenon DEF TakeOperation, Local
  <2>2. o \in x.local.todo
    BY <1>2, <1>5, NextOpFact
  <2>3. local \in Locals /\ local.op = o /\ local.todo = x.local.todo \ {o}
    BY <1>2, <2>2 DEF Locals, Local
  <2> HIDE DEF local, o
  <2>4. Goes(w, point, local)
    BY <1>1, <2>1, <2>3, GoesOn DEF TakeOperation, HandlerPoints
  <2> QED
    BY <1>1, <1>3, <2>1, <2>2, <2>3, <2>4 DEF Goes
<1> QED
  BY <1>4, <1>5

LEMMA InterruptStep ==
  ASSUME OInv, NEW w \in Workers, UNCHANGED plan, InterruptRun(w)
  PROVE  LET y == workers'[w]
             r == RunOf(w)
         IN /\ workers[w].pc \in {"pauseRun", "cancelRun"} /\ Goes(w, y.pc, y.local)
            /\ y.pc = "leave" /\ y.local = workers[w].local
            /\ \E s \in {"paused", "cancelled"} : Sets(r, s, runs[r].items)
<1>1. PICK s \in {"paused", "cancelled"} : setRunStatus(RunOf(w), s)
  BY DEF InterruptRun
<1>2. /\ workers[w].pc \in HandlerPoints /\ workers[w].pc \in {"pauseRun", "cancelRun"}
      /\ Goto(w, "leave")
  BY DEF InterruptRun, Step, At, HandlerPoints
<1>3. Goes(w, "leave", workers[w].local)
  BY <1>2, GoesOn DEF InterruptRun, HandlerPoints
<1>4. Sets(RunOf(w), s, runs[RunOf(w)].items)
  BY <1>1, <1>2, SetsStep DEF InterruptRun, RunStatuses
<1> QED
  BY <1>2, <1>3, <1>4 DEF Goes

LEMMA LeaveStep ==
  ASSUME OInv, NEW w \in Workers, UNCHANGED plan, Leave(w)
  PROVE  LET y == workers'[w]
         IN /\ workers[w].pc = "leave" /\ Goes(w, y.pc, y.local) /\ Looks(RunOf(w))
            /\ y.pc \in {"ackCancel", "ackPause", "failRun"}
<1>1. workers[w].pc \in HandlerPoints /\ workers[w].pc = "leave"
  BY DEF Leave, At, HandlerPoints
<1>2. Looks(RunOf(w))
  BY <1>1, LooksStep DEF Leave
<1>3. workers[w].local \in Locals
  BY <1>1, HandlerFacts
<1>4. CASE LeaseLost(w) /\ Goto(w, "failRun") /\ UNCHANGED jobs
  <2>1. Goes(w, "failRun", workers[w].local)
    BY <1>1, <1>4, GoesOn DEF HandlerPoints
  <2> QED
    BY <1>1, <1>2, <2>1 DEF Goes
<1>5. ASSUME NEW point \in {"ackCancel", "ackPause"},
             SaveContext(w, Op(w) - 1, point, Local(w))
      PROVE  Goes(w, point, workers[w].local)
  <2>1. Op(w) \in Operations
    BY <1>1 DEF OInv, TakenInv, Taken, Op, Local
  <2>2. Op(w) - 1 \in Checkpoints
    BY <2>1, PlanFacts DEF OInv, Checkpoints
  <2>3. point \in Points
    BY DEF Points
  <2> QED
    BY <1>1, <1>3, <1>5, <2>2, <2>3, GoesOn DEF Local
<1> QED
  BY <1>1, <1>2, <1>4, <1>5 DEF Leave, Goes

LEMMA RecordStep ==
  ASSUME OInv, NEW w \in Workers, UNCHANGED plan, RecordRunItem(w)
  PROVE  LET x == workers[w]
             y == workers'[w]
             r == RunOf(w)
             o == x.local.op
         IN /\ x.pc = "record" /\ Goes(w, y.pc, y.local) /\ y.pc = "save" /\ y.local = x.local
            /\ o \in Operations
            /\ Sets(r, runs[r].status,
                    [runs[r].items EXCEPT ![o] = IF runs[r].items[o] = "none" THEN x.local.outcome
                                                 ELSE runs[r].items[o]])
<1> DEFINE x == workers[w]
           r == RunOf(w)
<1>1. x.pc \in HandlerPoints /\ x.pc = "record" /\ Goto(w, "save")
  BY DEF RecordRunItem, Step, At, HandlerPoints
<1>2. x.local \in Locals /\ r \in RunIds /\ plan \in Plans /\ RunsTyped /\ FilesTyped
  BY <1>1, HandlerFacts DEF OInv
<1>3. x.local.op \in Operations /\ x.local.outcome \in ItemOutcomes \cup {"none"}
  BY <1>1, <1>2 DEF OInv, TakenInv, Taken, Locals
<1>4. Goes(w, "save", x.local)
  BY <1>1, GoesOn DEF RecordRunItem, HandlerPoints
<1>5. /\ runs' = [runs EXCEPT ![r].items[x.local.op] = IF @ = "none" THEN x.local.outcome ELSE @]
      /\ UNCHANGED files
  BY DEF RecordRunItem, Op, Local
<1>6. Sets(r, runs[r].status,
           [runs[r].items EXCEPT ![x.local.op] =
              IF runs[r].items[x.local.op] = "none" THEN x.local.outcome
              ELSE runs[r].items[x.local.op]])
  BY <1>2, <1>3, <1>5, ItemWritten, SameTypes DEF Sets, FilesTyped
<1> QED
  BY <1>1, <1>3, <1>4, <1>6 DEF Goes

LEMMA ReportStep ==
  ASSUME OInv, NEW w \in Workers, UNCHANGED plan, ReportItem(w)
  PROVE  LET x == workers[w]
             y == workers'[w]
         IN /\ x.pc \in {"save", "report"} /\ Goes(w, y.pc, y.local) /\ Looks(RunOf(w))
            /\ y.pc \in {"report", "take", "failRun"} /\ y.local = x.local
<1> DEFINE x == workers[w]
<1>1. x.pc \in HandlerPoints /\ x.pc \in {"save", "report"}
  BY DEF ReportItem, At, HandlerPoints
<1>2. Looks(RunOf(w))
  BY <1>1, LooksStep DEF ReportItem
<1>3. x.local \in Locals
  BY <1>1, HandlerFacts
<1>4. ASSUME At(w, "save"), SaveContext(w, Op(w), "report", Local(w))
      PROVE  Goes(w, "report", x.local)
  <2>1. Op(w) \in Operations
    BY <1>4 DEF OInv, TakenInv, Taken, Op, Local, At
  <2>2. Op(w) \in Checkpoints
    BY <2>1, PlanFacts DEF OInv, Checkpoints
  <2> QED
    BY <1>1, <1>3, <1>4, <2>2, GoesOn DEF Local, HandlerPoints
<1>5. ASSUME ReportContext(w, "take", Local(w))
      PROVE  Goes(w, "take", x.local)
  BY <1>1, <1>3, <1>5, GoesOn DEF Local, HandlerPoints
<1>6. ASSUME Goto(w, "failRun"), UNCHANGED jobs
      PROVE  Goes(w, "failRun", x.local)
  BY <1>1, <1>6, GoesOn DEF HandlerPoints
<1> QED
  BY <1>1, <1>2, <1>4, <1>5, <1>6 DEF ReportItem, Goes

LEMMA CloseStep ==
  ASSUME OInv, NEW w \in Workers, UNCHANGED plan, CloseRun(w)
  PROVE  LET y == workers'[w]
             r == RunOf(w)
         IN /\ workers[w].pc = "close" /\ Goes(w, y.pc, y.local) /\ y.pc = "finish"
            /\ Sets(r, IF \E o \in Operations : runs[r].items[o] \in {"skipped", "failed"}
                       THEN "partial" ELSE "completed", runs[r].items)
<1> DEFINE r == RunOf(w)
           s == IF \E o \in Operations : runs[r].items[o] \in {"skipped", "failed"}
                THEN "partial" ELSE "completed"
<1>1. workers[w].pc \in HandlerPoints /\ workers[w].pc = "close" /\ Goto(w, "finish")
  BY DEF CloseRun, Step, At, HandlerPoints
<1>2. Goes(w, "finish", workers[w].local)
  BY <1>1, GoesOn DEF CloseRun, Points
<1>3. s \in RunStatuses
  BY DEF RunStatuses
<1>4. setRunStatus(r, s) /\ UNCHANGED files
  BY DEF CloseRun
<1> HIDE DEF s
<1>5. Sets(r, s, runs[r].items)
  BY <1>1, <1>3, <1>4, SetsStep
<1> QED
  BY <1>1, <1>2, <1>5 DEF Goes, s

LEMMA FailStep ==
  ASSUME OInv, NEW w \in Workers, UNCHANGED plan, FailRun(w)
  PROVE  LET y == workers'[w]
             r == RunOf(w)
         IN /\ workers[w].pc \in {"failRun", "retryRun"} /\ Goes(w, y.pc, y.local)
            /\ y.pc = "fail" /\ Sets(r, "failed", runs[r].items)
<1>1. /\ workers[w].pc \in HandlerPoints /\ workers[w].pc \in {"failRun", "retryRun"}
      /\ \E retryable \in BOOLEAN : Throw(w, retryable)
  BY DEF FailRun, At, HandlerPoints
<1>2. \E local : Goes(w, "fail", local)
  BY <1>1, GoesOn DEF FailRun
<1>3. Sets(RunOf(w), "failed", runs[RunOf(w)].items)
  BY <1>1, SetsStep DEF FailRun, RunStatuses
<1> QED
  BY <1>1, <1>2, <1>3 DEF Goes

-----------------------------------------------------------------------------
(* One operation.                                                          *)

LEMMA DecideGoes ==
  ASSUME OInv, NEW w \in Workers, workers[w].pc \in HandlerPoints, UNCHANGED <<plan, jobs>>,
         NEW outcome \in ItemOutcomes, Decide(w, outcome)
  PROVE  LET y == workers'[w]
         IN /\ Goes(w, y.pc, y.local) /\ y.pc = "record"
            /\ y.local.op = workers[w].local.op /\ y.local.todo = workers[w].local.todo
            /\ y.local.outcome = outcome
<1> DEFINE local == [workers[w].local EXCEPT !.outcome = outcome]
<1>1. workers[w].local \in Locals
  BY HandlerFacts
<1>2. /\ local \in Locals /\ local.outcome = outcome
      /\ local.op = workers[w].local.op /\ local.todo = workers[w].local.todo
  BY <1>1 DEF Locals
<1>3. Continue(w, "record", local)
  BY DEF Decide, Local
<1> HIDE DEF local
<1>4. Goes(w, "record", local)
  BY <1>2, <1>3, GoesOn DEF HandlerPoints
<1> QED
  BY <1>2, <1>4 DEF Goes

LEMMA FoundFacts ==
  ASSUME NEW w
  PROVE  /\ Found(w) \in ItemOutcomes \cup {"none"}
         /\ Found(w) = "none" => Live(RunOf(w)) /\ Here(w, From(RunOf(w))) \notin {"absent", "other"}
BY SomeOutcomes DEF Found

LEMMA InspectStep ==
  ASSUME OInv, NEW w \in Workers, UNCHANGED plan, Inspect(w)
  PROVE  LET x == workers[w]
             y == workers'[w]
             r == RunOf(w)
         IN /\ x.pc = "inspect" /\ Goes(w, y.pc, y.local) /\ Looks(r)
            /\ y.local.op = x.local.op /\ y.local.todo = x.local.todo
            /\ \/ y.pc = "recheck" /\ Found(w) = "none" /\ UNCHANGED obscured
               \/ /\ y.pc = "record" /\ y.local.outcome = Found(w) /\ Found(w) \in ItemOutcomes
                  /\ UNCHANGED obscured
               \/ /\ y.pc = "record" /\ y.local.outcome = "failed"
                  /\ obscured' = obscured \cup {x.local.op}
<1> DEFINE x == workers[w]
<1>1. x.pc \in HandlerPoints /\ x.pc = "inspect"
  BY DEF Inspect, At, HandlerPoints
<1>2. Looks(RunOf(w))
  BY <1>1, LooksStep DEF Inspect
<1>3. ASSUME Goto(w, "recheck") PROVE Goes(w, "recheck", x.local)
  BY <1>1, <1>3, GoesOn DEF Inspect, HandlerPoints
<1>4. ASSUME Found(w) # "none" PROVE Found(w) \in ItemOutcomes
  BY <1>4, FoundFacts
<1>5. "failed" \in ItemOutcomes /\ UNCHANGED jobs
  BY SomeOutcomes DEF Inspect
<1>6. CASE Found(w) = "none" /\ Goto(w, "recheck") /\ UNCHANGED obscured
  BY <1>1, <1>2, <1>3, <1>6 DEF Goes
<1>7. CASE Found(w) # "none" /\ Decide(w, Found(w)) /\ UNCHANGED obscured
  BY <1>1, <1>2, <1>4, <1>5, <1>7, DecideGoes
<1>8. CASE gate = "gone" /\ Decide(w, "failed") /\ obscured' = obscured \cup {Op(w)}
  BY <1>1, <1>2, <1>5, <1>8, DecideGoes DEF Op, Local
<1> QED
  BY <1>6, <1>7, <1>8 DEF Inspect

LEMMA RecheckStep ==
  ASSUME OInv, NEW w \in Workers, UNCHANGED plan, Recheck(w)
  PROVE  LET x == workers[w]
             y == workers'[w]
             r == RunOf(w)
         IN /\ x.pc = "recheck" /\ Goes(w, y.pc, y.local) /\ Looks(r)
            /\ y.local.op = x.local.op /\ y.local.todo = x.local.todo
            /\ \/ y.pc = "rename" /\ Here(w, From(r)) = "ours"
               \/ /\ y.pc = "record" /\ y.local.outcome \in {"skipped", "failed"}
<1> DEFINE x == workers[w]
           r == RunOf(w)
<1>1. x.pc \in HandlerPoints /\ x.pc = "recheck"
  BY DEF Recheck, At, HandlerPoints
<1>2. Looks(RunOf(w))
  BY <1>1, LooksStep DEF Recheck
<1>3. {"skipped", "failed"} \subseteq ItemOutcomes /\ UNCHANGED jobs
  BY SomeOutcomes DEF Recheck
<1>4. CASE Goto(w, "rename") /\ Here(w, From(r)) = "ours"
  <2>1. Goes(w, "rename", x.local)
    BY <1>1, <1>3, <1>4, GoesOn DEF HandlerPoints
  <2> QED
    BY <1>1, <1>2, <1>4, <2>1 DEF Goes
<1>5. ASSUME NEW outcome \in {"skipped", "failed"}, Decide(w, outcome)
      PROVE  LET y == workers'[w]
             IN /\ Goes(w, y.pc, y.local) /\ y.pc = "record"
                /\ y.local.op = x.local.op /\ y.local.todo = x.local.todo
                /\ y.local.outcome = outcome
  BY <1>1, <1>3, <1>5, DecideGoes
<1> QED
  BY <1>1, <1>2, <1>4, <1>5 DEF Recheck

LEMMA RenameStep ==
  ASSUME OInv, NEW w \in Workers, UNCHANGED plan, Rename(w)
  PROVE  LET x == workers[w]
             y == workers'[w]
             r == RunOf(w)
             o == x.local.op
         IN /\ x.pc = "rename" /\ Goes(w, y.pc, y.local) /\ o \in Operations
            /\ y.local.op = x.local.op /\ y.local.todo = x.local.todo
            /\ RunsTyped' /\ FilesTyped' /\ Written(r, runs[r].status, runs[r].items)
            /\ \/ /\ y.pc = "verify"
                  /\ \A p \in Operations \ {o} : files'[p] = files[p]
                  /\ files'[o][To(r)] = files[o][From(r)] /\ files'[o][From(r)] = "absent"
               \/ y.pc = "record" /\ y.local.outcome = "failed" /\ UNCHANGED files
<1> DEFINE x == workers[w]
           r == RunOf(w)
           o == x.local.op
<1>1. x.pc \in HandlerPoints /\ x.pc = "rename" /\ UNCHANGED <<jobs, runs>>
  BY DEF Rename, Step, At, HandlerPoints
<1>2. r \in RunIds /\ RunsTyped /\ FilesTyped
  BY <1>1, HandlerFacts DEF OInv
<1>3. RunsTyped' /\ Written(r, runs[r].status, runs[r].items)
  BY <1>1, <1>2, NothingWritten
<1>4. o \in Operations
  BY <1>1 DEF OInv, TakenInv, Taken
<1>5. CASE Goto(w, "verify") /\ files' = [files EXCEPT ![Op(w)] = [p \in Paths |->
                       IF p = To(RunOf(w)) THEN Here(w, From(RunOf(w))) ELSE "absent"]]
  <2>1. Goes(w, "verify", x.local)
    BY <1>1, <1>5, GoesOn DEF HandlerPoints
  <2>2. files' = [files EXCEPT ![o] = [p \in Paths |-> IF p = To(r) THEN files[o][From(r)]
                                                       ELSE "absent"]]
    BY <1>5 DEF Op, Local, Here
  <2>3. To(r) \in Paths /\ From(r) \in Paths /\ To(r) # From(r)
    BY DEF To, From, Paths
  <2>4. files[o] \in [Paths -> {"ours", "absent", "other"}]
    BY <1>2, <1>4 DEF FilesTyped
  <2>5. /\ files' \in [Operations -> [Paths -> {"ours", "absent", "other"}]]
        /\ \A p \in Operations \ {o} : files'[p] = files[p]
        /\ files'[o][To(r)] = files[o][From(r)] /\ files'[o][From(r)] = "absent"
    BY <1>2, <1>4, <2>2, <2>3, <2>4 DEF FilesTyped
  <2>6. FilesTyped'
    BY <2>5, SameTypes DEF FilesTyped
  <2> QED
    BY <1>1, <1>3, <1>4, <2>1, <2>5, <2>6 DEF Goes
<1>6. CASE Decide(w, "failed") /\ UNCHANGED files
  <2>1. FilesTyped'
    BY <1>2, <1>6, SameTypes DEF FilesTyped
  <2>2. "failed" \in ItemOutcomes
    BY SomeOutcomes
  <2> QED
    BY <1>1, <1>3, <1>4, <1>6, <2>1, <2>2, DecideGoes
<1> QED
  BY <1>5, <1>6 DEF Rename, Step

LEMMA VerifyStep ==
  ASSUME OInv, NEW w \in Workers, UNCHANGED plan, Verify(w)
  PROVE  LET x == workers[w]
             y == workers'[w]
             r == RunOf(w)
         IN /\ x.pc = "verify" /\ Goes(w, y.pc, y.local) /\ Looks(r)
            /\ \/ /\ y.pc = "record" /\ y.local.op = x.local.op /\ y.local.todo = x.local.todo
                  /\ Here(w, To(r)) = "ours"
                  /\ y.local.outcome = IF Rollback(r) THEN "rolled-back" ELSE "moved"
               \/ y.pc = "retryRun"
<1>1. workers[w].pc \in HandlerPoints /\ workers[w].pc = "verify" /\ UNCHANGED jobs
  BY DEF Verify, At, HandlerPoints
<1>2. Looks(RunOf(w))
  BY <1>1, LooksStep DEF Verify
<1>3. (IF Rollback(RunOf(w)) THEN "rolled-back" ELSE "moved") \in ItemOutcomes
  BY SomeOutcomes
<1>4. ASSUME Goto(w, "retryRun") PROVE Goes(w, "retryRun", workers[w].local)
  BY <1>1, <1>4, GoesOn DEF HandlerPoints
<1>5. CASE Goto(w, "retryRun")
  BY <1>1, <1>2, <1>4, <1>5 DEF Goes
<1>6. CASE Here(w, To(RunOf(w))) = "ours"
           /\ Decide(w, IF Rollback(RunOf(w)) THEN "rolled-back" ELSE "moved")
  BY <1>1, <1>2, <1>3, <1>6, DecideGoes
<1> QED
  BY <1>5, <1>6 DEF Verify

-----------------------------------------------------------------------------
(* The invariant of any number of workers.                                 *)

\* What a step of a worker comes to.  It is at a file only by the places where mutation
\* mode is asked for.
Steps(w) ==
  LET x == workers[w]
      y == workers'[w]
  IN /\ WorkersTyped' /\ RunsTyped' /\ FilesTyped'
     /\ Ids' = Ids /\ \E done, saved : Acts(w, done, saved)
     /\ RunIds' = RunIds /\ RunsKept /\ \A q \in RunIds : runs'[q].job = runs[q].job
     /\ y.pc \in Taken => y.local.op \in Operations
     /\ y.pc = "inspect" => y.job = x.job /\ validateRootAndMode(RunOf(w))
     /\ y.pc = "recheck" => x.pc = "inspect" /\ Live(RunOf(w))
     /\ y.pc = "rename" => x.pc = "recheck"
     /\ files' # files => y.pc = "verify"

LEMMA GoesSteps ==
  ASSUME OInv, NEW w \in Workers, workers[w].pc \in HandlerPoints,
         LET y == workers'[w]
         IN /\ Goes(w, y.pc, y.local)
            /\ y.pc \in Taken => y.local.op \in Operations
            /\ y.pc = "inspect" => validateRootAndMode(RunOf(w))
            /\ y.pc = "recheck" => workers[w].pc = "inspect" /\ Live(RunOf(w))
            /\ y.pc = "rename" => workers[w].pc = "recheck",
         RunsTyped', FilesTyped', \E s, items : Written(RunOf(w), s, items),
         files' # files => workers'[w].pc = "verify"
  PROVE  Steps(w)
<1>1. RunOf(w) \in RunIds
  BY HandlerFacts
<1>2. RunsKept /\ RunIds' = RunIds /\ \A q \in RunIds : runs'[q].job = runs[q].job
  BY <1>1, WrittenKeeps
<1>3. \E done, saved : Acts(w, done, saved)
  BY DEF Goes
<1> QED
  BY <1>2, <1>3 DEF Steps, Goes

LEMMA LooksWrites ==
  ASSUME NEW r
  PROVE  /\ Looks(r) => RunsTyped' /\ FilesTyped' /\ UNCHANGED files /\ \E s, items : Written(r, s, items)
         /\ \A s, items : Sets(r, s, items) =>
              RunsTyped' /\ FilesTyped' /\ UNCHANGED files /\ \E t, more : Written(r, t, more)
BY DEF Looks, Sets

LEMMA InspectSteps ==
  ASSUME OInv, NEW w \in Workers, UNCHANGED plan, Inspect(w)
  PROVE  Steps(w)
<1>1. workers[w].pc = "inspect" /\ workers[w].local.op \in Operations
  BY InspectStep DEF OInv, TakenInv, Taken
<1>2. workers[w].pc \in HandlerPoints
  BY <1>1 DEF HandlerPoints
<1>3. Found(w) = "none" => Live(RunOf(w))
  BY FoundFacts
<1> QED
  BY <1>1, <1>2, <1>3, InspectStep, GoesSteps, LooksWrites DEF Taken

LEMMA EngineSteps ==
  ASSUME OInv, NEW w \in Workers, UNCHANGED plan, EngineMoves(w), ~Load(w)
  PROVE  Steps(w)
<1>1. CASE Begin(w)
  BY <1>1, BeginStep, GoesSteps, LooksWrites DEF Taken, HandlerPoints
<1>2. CASE StartRun(w)
  BY <1>2, StartStep, GoesSteps, LooksWrites DEF Taken, HandlerPoints
<1>3. CASE List(w)
  BY <1>3, ListStep, GoesSteps, LooksWrites DEF Taken, HandlerPoints
<1>4. CASE TakeOperation(w)
  <2>1. workers[w].pc \in HandlerPoints /\ workers[w].local \in Locals
    BY <1>4, TakeStep, HandlerFacts DEF HandlerPoints
  <2>2. workers[w].local.todo \subseteq Operations
    BY <2>1 DEF Locals
  <2> QED
    BY <1>4, <2>1, <2>2, TakeStep, GoesSteps, LooksWrites DEF Taken
<1>5. CASE InterruptRun(w)
  <2>1. workers[w].local.op \in Operations
    BY <1>5, InterruptStep DEF OInv, TakenInv, Taken
  <2> QED
    BY <1>5, <2>1, InterruptStep, GoesSteps, LooksWrites DEF HandlerPoints
<1>6. CASE Leave(w)
  BY <1>6, LeaveStep, GoesSteps, LooksWrites DEF Taken, HandlerPoints
<1>7. CASE RecordRunItem(w)
  BY <1>7, RecordStep, GoesSteps, LooksWrites DEF HandlerPoints
<1>8. CASE ReportItem(w)
  BY <1>8, ReportStep, GoesSteps, LooksWrites DEF Taken, HandlerPoints
<1>9. CASE CloseRun(w)
  BY <1>9, CloseStep, GoesSteps, LooksWrites DEF Taken, HandlerPoints
<1>10. CASE FailRun(w)
  BY <1>10, FailStep, GoesSteps, LooksWrites DEF Taken, HandlerPoints
<1>11. CASE Recheck(w)
  <2>1. workers[w].local.op \in Operations
    BY <1>11, RecheckStep DEF OInv, TakenInv, Taken
  <2> QED
    BY <1>11, <2>1, RecheckStep, GoesSteps, LooksWrites DEF HandlerPoints
<1>12. CASE Rename(w)
  BY <1>12, RenameStep, GoesSteps DEF HandlerPoints
<1>13. CASE Verify(w)
  <2>1. workers[w].local.op \in Operations
    BY <1>13, VerifyStep DEF OInv, TakenInv, Taken
  <2> QED
    BY <1>13, <2>1, VerifyStep, GoesSteps, LooksWrites DEF Taken, HandlerPoints
<1> QED
  BY <1>1, <1>2, <1>3, <1>4, <1>5, <1>6, <1>7, <1>8, <1>9, <1>10, <1>11, <1>12, <1>13
     DEF EngineMoves

LEMMA OutsideSteps ==
  ASSUME OInv, NEW w \in Workers, UNCHANGED plan, Load(w) \/ ProcessMoves(w),
         UNCHANGED <<runs, files>>
  PROVE  /\ Steps(w)
         /\ workers'[w].pc \in Points \cup {"begin"}
<1>1. /\ IndInv /\ LinkInv /\ workers \in [Workers -> Worker(HandlerPoints, Locals)]
      /\ NoLocal \in Locals /\ RunsTyped /\ FilesTyped
  BY PlanFacts DEF OInv, WorkersTyped
<1>2. RunsTyped' /\ FilesTyped' /\ RunIds' = RunIds /\ RunsKept
      /\ \A q \in RunIds : runs'[q].job = runs[q].job
  BY <1>1, SameTypes DEF RunsTyped, FilesTyped, RunsKept, RunIds
<1>3. workers' \in [Workers -> Worker(HandlerPoints, Locals)] => WorkersTyped'
  BY SameTypes DEF WorkersTyped, Worker, Checkpoints, Points, HandlerPoints
<1>4. ASSUME WorkersTyped', Ids' = Ids, \E done, saved : Acts(w, done, saved),
             workers'[w].pc \in Points \cup {"begin"}
      PROVE  Steps(w)
  BY <1>2, <1>4 DEF Steps, Points, Taken
<1>5. CASE Load(w)
  <2>1. At(w, "load") /\ LoadJob(w, "begin", NoLocal) /\ UNCHANGED jobs
    BY <1>5 DEF Load, LoadJob
  <2>2. /\ workers' \in [Workers -> Worker(HandlerPoints, Locals)] /\ Acts(w, {}, {})
        /\ workers'[w].pc # "down" => workers'[w].pc = "begin"
    BY <1>1, <2>1, LoadJobActs DEF HandlerPoints
  <2>3. Ids' = Ids
    BY <2>1 DEF Ids
  <2> QED
    BY <1>3, <1>4, <2>2, <2>3 DEF Points
<1>6. CASE ProcessMoves(w)
  <2>1. /\ workers' \in [Workers -> Worker(HandlerPoints, Locals)] /\ ProcessActs(w)
        /\ workers'[w].pc \in Points
    BY <1>1, <1>6, ProcessMovesActs, ProcessKeeps
  <2>2. Ids' = Ids
    BY <1>1, <1>6, ProcessRows
  <2>3. \E done, saved : Acts(w, done, saved)
    BY <2>1 DEF ProcessActs
  <2> QED
    BY <1>3, <1>4, <2>1, <2>2, <2>3
<1> QED
  BY <1>5, <1>6

LEMMA WorkerSteps ==
  ASSUME OInv, NEW w \in Workers, UNCHANGED plan, WorkerMoves(w)
  PROVE  Steps(w)
BY InspectSteps, EngineSteps, OutsideSteps DEF WorkerMoves, EngineMoves, Load

\* The invariant after a step of one worker.
LEMMA StepsKeep ==
  ASSUME OInv, NEW w \in Workers, UNCHANGED plan, Steps(w)
  PROVE  /\ IndInv' /\ LinkInv' /\ plan' \in Plans /\ JobsInv' /\ TakenInv' /\ [Next]_jobs
         /\ \A v \in Workers : v # w => workers'[v] = workers[v]
         /\ \A v \in Workers : workers[v].job \in Ids /\ workers'[v].job = workers[v].job =>
              RunOf(v)' = RunOf(v) /\ runs'[RunOf(v)].mode = runs[RunOf(v)].mode
<1>1. PICK done, saved : Acts(w, done, saved)
  BY DEF Steps
<1>2. IndInv' /\ LinkInv'
  BY <1>1, ActsInv DEF OInv
<1>3. JobsInv'
  BY <1>1, JobsStay DEF OInv, LinkInv, Acts, Effect, Steps
<1>4. \A v \in Workers : v # w => workers'[v] = workers[v]
  BY <1>1 DEF Acts
<1>5. TakenInv'
  BY <1>4, SameTypes DEF OInv, TakenInv, Steps
<1>6. ASSUME NEW v \in Workers, workers[v].job \in Ids, workers'[v].job = workers[v].job
      PROVE  RunOf(v)' = RunOf(v) /\ runs'[RunOf(v)].mode = runs[RunOf(v)].mode
  <2>1. Job(v) \in Ids /\ Job(v)' = Job(v)
    BY <1>6 DEF Job
  <2>2. RunOf(v) \in RunIds
    BY <2>1, RunOfJob DEF OInv, LinkInv
  <2> QED
    BY <1>3, <2>1, <2>2, RunOfStays DEF OInv, LinkInv, Steps, RunsKept
<1> QED
  BY <1>1, <1>2, <1>3, <1>4, <1>5, <1>6 DEF Acts, OInv

LEMMA OInvWorker ==
  ASSUME OInv, NEW w \in Workers, UNCHANGED <<plan, gate>>, WorkerMoves(w)
  PROVE  OInv'
<1>1. Steps(w)
  BY WorkerSteps
<1>2. /\ IndInv' /\ LinkInv' /\ plan' \in Plans /\ JobsInv' /\ TakenInv'
      /\ \A v \in Workers : v # w => workers'[v] = workers[v]
  BY <1>1, StepsKeep
<1>3. late' = IF files' # files /\ gate # "open" THEN late \cup {w} ELSE late
  BY DEF WorkerMoves
<1>4. late' \subseteq Workers /\ (late' # {} => gate' # "open")
  BY <1>3 DEF OInv, LateInv
<1>5. ASSUME NEW v \in Workers, workers[v].pc = "inspect"
      PROVE  workers[v].job \in Ids
  BY <1>5 DEF OInv, LinkInv, LinkOK, Linked
<1>6. ASSUME NEW v \in late', v # w
      PROVE  /\ workers'[v].pc \notin {"recheck", "rename"}
             /\ workers'[v].pc = "inspect" => ~Live(RunOf(v))'
  <2>1. v \in late /\ v \in Workers /\ workers'[v] = workers[v]
    BY <1>2, <1>3, <1>6 DEF OInv, LateInv
  <2>2. workers[v].pc \notin {"recheck", "rename"} /\ (workers[v].pc = "inspect" => ~Live(RunOf(v)))
    BY <2>1 DEF OInv, LateInv
  <2>3. ASSUME workers[v].pc = "inspect" PROVE ~Live(RunOf(v))'
    <3>1. RunOf(v)' = RunOf(v) /\ runs'[RunOf(v)].mode = runs[RunOf(v)].mode
      BY <1>1, <1>5, <2>1, <2>3, StepsKeep
    <3> QED
      BY <2>2, <2>3, <3>1 DEF Live
  <2> QED
    BY <2>1, <2>2, <2>3
<1>7. ASSUME w \in late'
      PROVE  /\ workers'[w].pc \notin {"recheck", "rename"}
             /\ workers'[w].pc = "inspect" => ~Live(RunOf(w))'
  <2>1. CASE w \notin late
    BY <1>1, <1>3, <1>7, <2>1 DEF Steps
  <2>2. CASE w \in late
    <3>1. /\ gate # "open" /\ workers[w].pc \notin {"recheck", "rename"}
          /\ workers[w].pc = "inspect" => ~Live(RunOf(w))
      BY <2>2 DEF OInv, LateInv
    <3>2. workers'[w].pc \notin {"recheck", "rename"}
      BY <1>1, <3>1 DEF Steps
    <3>3. ASSUME workers'[w].pc = "inspect" PROVE ~Live(RunOf(w))'
      <4>1. ~Live(RunOf(w)) /\ workers'[w].job = workers[w].job
        BY <1>1, <3>1, <3>3 DEF Steps, validateRootAndMode
      <4>2. workers'[w].job \in Ids
        BY <1>1, <1>2, <3>3 DEF LinkInv, LinkOK, Linked, Steps
      <4>3. RunOf(w)' = RunOf(w) /\ runs'[RunOf(w)].mode = runs[RunOf(w)].mode
        BY <1>1, <4>1, <4>2, StepsKeep
      <4> QED
        BY <4>1, <4>3 DEF Live
    <3> QED
      BY <3>2, <3>3
  <2> QED
    BY <2>1, <2>2
<1>8. LateInv'
  BY <1>4, <1>6, <1>7 DEF LateInv
<1> QED
  BY <1>1, <1>2, <1>8 DEF OInv, Steps

\* A step of no worker, or the end of one.
LEMMA RestKeep ==
  ASSUME OInv, UNCHANGED plan, IndInv', LinkInv', WorkersTyped', RunsTyped', FilesTyped', JobsInv',
         RunsKept, \A v \in Workers : workers'[v] = workers[v] \/ workers'[v].pc = "down",
         late' = {} \/ UNCHANGED <<late, gate>>
  PROVE  OInv'
<1>1. TakenInv'
  BY SameTypes DEF OInv, TakenInv, Taken
<1>2. ASSUME NEW v \in late'
      PROVE  /\ workers'[v].pc \notin {"recheck", "rename"}
             /\ workers'[v].pc = "inspect" => ~Live(RunOf(v))'
  <2>1. v \in late /\ v \in Workers
    BY <1>2 DEF OInv, LateInv
  <2>2. CASE workers'[v].pc = "down"
    BY <2>2
  <2>3. CASE workers'[v] = workers[v]
    <3>1. workers[v].pc \notin {"recheck", "rename"} /\ (workers[v].pc = "inspect" => ~Live(RunOf(v)))
      BY <2>1 DEF OInv, LateInv
    <3>2. ASSUME workers[v].pc = "inspect" PROVE ~Live(RunOf(v))'
      <4>1. Job(v) \in Ids /\ Job(v)' = Job(v)
        BY <2>1, <2>3, <3>2 DEF OInv, LinkInv, LinkOK, Linked, Job
      <4>2. RunOf(v) \in RunIds
        BY <4>1, RunOfJob DEF OInv, LinkInv
      <4>3. RunOf(v)' = RunOf(v) /\ runs'[RunOf(v)].mode = runs[RunOf(v)].mode
        BY <4>1, <4>2, RunOfStays DEF OInv, LinkInv, RunsKept
      <4> QED
        BY <3>1, <3>2, <4>3 DEF Live
    <3> QED
      BY <2>3, <3>1, <3>2
  <2> QED
    BY <2>1, <2>2, <2>3
<1>3. LateInv'
  BY <1>2 DEF OInv, LateInv
<1> QED
  BY <1>1, <1>3 DEF OInv

LEMMA SameRuns ==
  ASSUME OInv, UNCHANGED <<plan, runs>>
  PROVE  /\ RunsTyped' /\ RunsKept /\ RunIds' = RunIds
         /\ \A r \in RunIds : runs'[r].job = runs[r].job
BY SameTypes DEF OInv, RunsTyped, RunsKept, RunIds

LEMMA SameWorkers ==
  ASSUME OInv, UNCHANGED <<plan, workers>>
  PROVE  WorkersTyped'
BY SameTypes DEF OInv, WorkersTyped, Worker, Checkpoints, Points, HandlerPoints

LEMMA SameFiles ==
  ASSUME OInv, UNCHANGED <<plan, files>>
  PROVE  FilesTyped'
BY SameTypes DEF OInv, FilesTyped

\* What createRun adds.
NewRun(mode, src) ==
  [mode |-> mode, sourceRun |-> src, job |-> 0, status |-> "queued",
   items |-> [o \in Operations |-> "none"]]

LEMMA CreateEffect ==
  ASSUME OInv, UNCHANGED plan, NEW mode \in plan.modes, NEW src \in {0} \cup RunIds,
         CreateRun(mode, src)
  PROVE  /\ RunsTyped' /\ RunsKept /\ UNCHANGED jobs
         /\ RunIds' = RunIds \cup {Len(runs) + 1} /\ Len(runs) + 1 \notin RunIds
         /\ \A r \in RunIds : runs'[r] = runs[r]
         /\ runs'[Len(runs) + 1] = NewRun(mode, src)
<1> DEFINE new == NewRun(mode, src)
<1>1. /\ runs \in Seq(Run) /\ Len(runs) < plan.runs /\ RunIds = 1 .. Len(runs)
      /\ Len(runs) \in 0 .. MaxRuns /\ plan.runs \in 0 .. MaxRuns /\ MaxRuns \in Nat
  BY RunFacts, PlanFacts DEF OInv, RunsTyped, CreateRun
<1>2. new \in Run
  <2>1. mode \in RunModes
    BY OrganizationAssumption DEF OInv
  <2>2. src \in 0 .. MaxRuns
    BY <1>1
  <2>3. 0 \in 0 .. MaxJobs
    BY BoundsAssumption
  <2> QED
    BY <2>1, <2>2, <2>3 DEF NewRun, Run, RunStatuses
<1>3. runs' = Append(runs, new) /\ UNCHANGED jobs
  BY DEF CreateRun, NewRun
<1> HIDE DEF new
<1>4. /\ runs' \in Seq(Run) /\ Len(runs') = Len(runs) + 1
      /\ \A r \in 1 .. Len(runs) : runs'[r] = runs[r]
      /\ runs'[Len(runs) + 1] = new
  BY <1>1, <1>2, <1>3
<1>5. RunIds' = 1 .. Len(runs')
  BY <1>4, LenProperties DEF RunIds
<1>6. RunIds' = RunIds \cup {Len(runs) + 1} /\ Len(runs) + 1 \notin RunIds
  BY <1>1, <1>4, <1>5
<1>7. RunsTyped'
  BY <1>1, <1>4, SameTypes DEF RunsTyped
<1> QED
  BY <1>1, <1>3, <1>4, <1>6, <1>7 DEF RunsKept, new

LEMMA SubmitRunEffect ==
  ASSUME OInv, UNCHANGED plan, NEW r \in RunIds, SubmitRun(r)
  PROVE  /\ RunsTyped' /\ RunsKept /\ RunIds' = RunIds /\ JobsInv' /\ [Next]_jobs
         /\ \A q \in RunIds \ {r} : runs'[q] = runs[q]
         /\ runs'[r].mode = runs[r].mode /\ runs'[r].sourceRun = runs[r].sourceRun
         /\ runs'[r].items = runs[r].items /\ runs'[r].status \in {runs[r].status, "failed"}
         /\ runs[r].status = "queued"
<1>1. /\ runs \in Seq(Run) /\ plan \in Plans /\ RunsTyped /\ JobsInv /\ IndInv /\ Bounded
      /\ Len(runs) <= plan.runs
      /\ r \in DOMAIN runs /\ r \in 1 .. MaxRuns /\ runs[r] \in Run
      /\ runs[r].job = 0 /\ runs[r].status = "queued"
  BY RunFacts DEF OInv, LinkInv, RunsTyped, RunIds, SubmitRun
<1>2. CASE setRunStatus(r, "failed") /\ UNCHANGED jobs
  <2>1. RunsTyped' /\ Written(r, "failed", runs[r].items)
    BY <1>1, <1>2, StatusWritten DEF RunStatuses
  <2>2. RunsKept /\ RunIds' = RunIds /\ \A q \in RunIds : runs'[q].job = runs[q].job
    BY <2>1, WrittenKeeps
  <2>3. TableStep /\ Ids' = Ids
    BY <1>2, QuietEffect DEF Effect, Ids
  <2>4. JobsInv'
    BY <1>1, <2>2, <2>3, JobsStay
  <2> QED
    BY <1>1, <1>2, <2>1, <2>2, <2>4 DEF Written
<1>3. CASE Submit(SubmissionOf[r]) /\ attachRunJob(r, Len(jobs'))
  <2> DEFINE j == Len(jobs')
             new == [runs[r] EXCEPT !.job = j]
  <2>1. SubmissionOf[r] \in Submissions
    BY <1>1, OrganizationAssumption
  <2>2. /\ Ids' = Ids \cup {j} /\ j \notin Ids /\ \A i \in Ids : jobs'[i] = jobs[i]
        /\ jobs'[j] = QueuedRow(SubmissionOf[r])
    BY <1>1, <1>3, <2>1, SubmitIds
  <2>3. Effect({}, {}) /\ ClientStep
    BY <1>1, <1>3, <2>1, SubmitEffect DEF ClientStep
  <2>4. j \in 1 .. MaxJobs /\ j \in 0 .. MaxJobs
    BY <1>1, <2>2, <2>3, BoundsAssumption DEF Effect, TableStep, Bounded
  <2>5. runs' = [runs EXCEPT ![r] = new] /\ new = [runs[r] EXCEPT !.job = j]
    BY <1>3 DEF attachRunJob
  <2> HIDE DEF new, j
  <2>6. /\ new \in Run /\ new.mode = runs[r].mode /\ new.sourceRun = runs[r].sourceRun
        /\ new.status = runs[r].status /\ new.items = runs[r].items /\ new.job = j
    BY <1>1, <2>4, <2>5 DEF Run
  <2>7. /\ runs' \in Seq(Run) /\ Len(runs') = Len(runs) /\ DOMAIN runs' = DOMAIN runs
        /\ runs'[r] = new /\ \A q \in RunIds \ {r} : runs'[q] = runs[q]
    BY <1>1, <2>6, <2>5 DEF RunIds
  <2>8. RunsTyped' /\ RunIds' = RunIds
    BY <1>1, <2>7, SameTypes DEF RunsTyped, RunIds
  <2>9. RunsKept
    BY <1>1, <2>6, <2>7, <2>8 DEF RunsKept, RunIds
  <2>10. j # 0 /\ 0 \notin Ids
    BY <1>1, <2>4 DEF Bounded
  <2>11. JobsInv'
    <3>1. ASSUME NEW q \in RunIds', runs'[q].job # 0
          PROVE  runs'[q].job \in Ids' /\ jobs'[runs'[q].job].sub = SubmissionOf[q]
      <4>1. CASE q = r
        BY <2>2, <2>6, <2>7, <4>1 DEF QueuedRow
      <4>2. CASE q # r
        BY <1>1, <2>2, <2>7, <2>8, <3>1, <4>2 DEF JobsInv
      <4> QED
        BY <4>1, <4>2
    <3>2. ASSUME NEW i \in Ids' PROVE \E q \in RunIds' : runs'[q].job = i
      <4>1. CASE i = j
        BY <2>6, <2>7, <2>8, <4>1
      <4>2. CASE i \in Ids
        <5>1. PICK q \in RunIds : runs[q].job = i
          BY <1>1, <4>2 DEF JobsInv
        <5>2. q # r
          BY <1>1, <2>10, <4>2, <5>1
        <5> QED
          BY <2>7, <2>8, <5>1, <5>2
      <4> QED
        BY <2>2, <4>1, <4>2
    <3> QED
      BY <3>1, <3>2 DEF JobsInv
  <2> QED
    BY <1>1, <2>3, <2>6, <2>7, <2>8, <2>9, <2>11 DEF Next
<1> QED
  BY <1>2, <1>3 DEF SubmitRun

LEMMA OInvServer ==
  ASSUME OInv, UNCHANGED plan, Server
  PROVE  OInv' /\ [Next]_jobs
<1>1. UNCHANGED <<workers, files, late, gate>>
  BY DEF Server, history
<1>2. WorkersTyped' /\ FilesTyped'
  BY <1>1, SameWorkers, SameFiles
<1>3. ASSUME RunsTyped', RunsKept, JobsInv', [Next]_jobs
      PROVE  OInv'
  <2>1. IndInv' /\ TableStep
    BY <1>3, IndInvNext, NextStep DEF OInv
  <2>2. LinkInv'
    BY <1>1, <2>1, LinkTable DEF OInv
  <2> QED
    BY <1>1, <1>2, <1>3, <2>1, <2>2, RestKeep
<1>4. ASSUME NEW mode \in plan.modes, NEW src \in {0} \cup RunIds, CreateRun(mode, src)
      PROVE  OInv' /\ [Next]_jobs
  <2> DEFINE n == Len(runs) + 1
  <2>1. /\ RunsTyped' /\ RunsKept /\ UNCHANGED jobs /\ RunIds' = RunIds \cup {n}
        /\ \A r \in RunIds : runs'[r] = runs[r]
        /\ runs'[n] = NewRun(mode, src)
    BY <1>4, CreateEffect
  <2>2. TableStep /\ Ids' = Ids
    BY <2>1, QuietEffect DEF Effect, Ids
  <2>3. runs'[n].job = 0
    BY <2>1 DEF NewRun
  <2> HIDE DEF n
  <2>4. (\A r \in RunIds : runs'[r].job = runs[r].job) /\ \A r \in RunIds' \ RunIds : runs'[r].job = 0
    BY <2>1, <2>3
  <2>5. JobsInv'
    BY <2>1, <2>2, <2>4, JobsStay DEF OInv, LinkInv
  <2> QED
    BY <1>3, <2>1, <2>5
<1>5. ASSUME NEW r \in RunIds, SubmitRun(r)
      PROVE  OInv' /\ [Next]_jobs
  BY <1>3, <1>5, SubmitRunEffect
<1> QED
  BY <1>4, <1>5 DEF Server

\* A step that leaves runs and workers.
LEMMA OInvQuiet ==
  ASSUME OInv, UNCHANGED <<plan, runs, workers>>, FilesTyped', late' = {} \/ UNCHANGED <<late, gate>>,
         [Next]_jobs, Ids' = Ids
  PROVE  OInv'
<1>1. IndInv' /\ TableStep
  BY IndInvNext, NextStep DEF OInv
<1>2. LinkInv'
  BY <1>1, LinkTable DEF OInv
<1>3. /\ RunsTyped' /\ RunsKept /\ RunIds' = RunIds /\ \A r \in RunIds : runs'[r].job = runs[r].job
      /\ WorkersTyped'
  BY SameRuns, SameWorkers
<1>4. JobsInv'
  BY <1>1, <1>3, JobsStay DEF OInv, LinkInv
<1> QED
  BY <1>1, <1>2, <1>3, <1>4, RestKeep

LEMMA EditFiles ==
  ASSUME OInv, UNCHANGED plan, NEW o \in Operations, NEW path \in Paths, Edit(o, path)
  PROVE  /\ FilesTyped'
         /\ \A p \in Operations : p # o => files'[p] = files[p]
         /\ \A q \in Paths : files'[o][q] = IF q = path
                                            THEN IF files[o][q] = "other" THEN "absent" ELSE "other"
                                            ELSE files[o][q]
<1> DEFINE new == [files[o] EXCEPT ![path] = IF @ = "other" THEN "absent" ELSE "other"]
<1>1. /\ files \in [Operations -> [Paths -> {"ours", "absent", "other"}]]
      /\ files' = [files EXCEPT ![o] = new]
  BY DEF OInv, FilesTyped, Edit
<1>2. /\ new \in [Paths -> {"ours", "absent", "other"}]
      /\ \A q \in Paths : new[q] = IF q = path
                                   THEN IF files[o][q] = "other" THEN "absent" ELSE "other"
                                   ELSE files[o][q]
  BY <1>1
<1> HIDE DEF new
<1>3. /\ files' \in [Operations -> [Paths -> {"ours", "absent", "other"}]]
      /\ files'[o] = new /\ \A p \in Operations : p # o => files'[p] = files[p]
  BY <1>1, <1>2
<1>4. FilesTyped'
  BY <1>3, SameTypes DEF FilesTyped
<1> QED
  BY <1>2, <1>3, <1>4

LEMMA ControlNext == Control => [Next]_jobs
BY DEF Control, Next, ClientStep

LEMMA OInvUser ==
  ASSUME OInv, UNCHANGED <<plan, runs, workers>>, User
  PROVE  OInv' /\ [Next]_jobs
<1>1. CASE Control /\ UNCHANGED <<files, gate, history, late>>
  <2>1. Ids' = Ids /\ FilesTyped'
    BY <1>1, ControlIds, SameFiles DEF Control, OInv
  <2> QED
    BY <1>1, <2>1, ControlNext, OInvQuiet
<1>2. CASE MoveGate /\ UNCHANGED <<jobs, files, touched, obscured>>
  BY <1>2, OInvQuiet, SameFiles DEF MoveGate, Ids
<1>3. ASSUME NEW o \in Operations, NEW path \in Paths, Edit(o, path), UNCHANGED <<jobs, gate, late>>
      PROVE  OInv' /\ [Next]_jobs
  BY <1>3, EditFiles, OInvQuiet DEF Ids
<1> QED
  BY <1>1, <1>2, <1>3 DEF User

LEMMA OInvTick ==
  ASSUME OInv, UNCHANGED <<plan, runs, workers, files, gate, late>>, Tick
  PROVE  OInv' /\ [Next]_jobs
<1>1. Ids' = Ids /\ FilesTyped' /\ [Next]_jobs
  BY ControlIds, SameFiles DEF OInv, Next
<1> QED
  BY <1>1, OInvQuiet

LEMMA OInvCrash ==
  ASSUME OInv, NEW w \in Workers, Crash(w), UNCHANGED <<plan, runs, files, gate, late>>
  PROVE  /\ OInv' /\ UNCHANGED jobs
         /\ \A v \in Workers : workers'[v] = workers[v] \/ workers'[v].pc = "down"
<1>1. /\ IndInv /\ LinkInv /\ workers \in [Workers -> Worker(HandlerPoints, Locals)]
      /\ NoLocal \in Locals /\ Die(w) /\ UNCHANGED jobs
  BY PlanFacts DEF OInv, WorkersTyped, Crash, Die
<1>2. /\ workers' \in [Workers -> Worker(HandlerPoints, Locals)] /\ Acts(w, {}, {})
      /\ workers'[w].pc = "down"
  BY <1>1, DieActs
<1>3. WorkersTyped'
  BY <1>2, SameTypes DEF WorkersTyped, Worker, Checkpoints, Points, HandlerPoints
<1>4. IndInv' /\ LinkInv'
  BY <1>1, <1>2, ActsInv
<1>5. \A v \in Workers : workers'[v] = workers[v] \/ workers'[v].pc = "down"
  BY <1>2 DEF Acts
<1>6. TableStep /\ Ids' = Ids
  BY <1>1, QuietEffect DEF Effect, Ids
<1>7. /\ RunsTyped' /\ RunsKept /\ RunIds' = RunIds /\ \A r \in RunIds : runs'[r].job = runs[r].job
      /\ FilesTyped'
  BY SameRuns, SameFiles
<1>8. JobsInv'
  BY <1>6, <1>7, JobsStay DEF OInv, LinkInv
<1> QED
  BY <1>1, <1>3, <1>4, <1>5, <1>7, <1>8, RestKeep

LEMMA OInvInit == OInit => OInv
<1> SUFFICES ASSUME OInit PROVE OInv
  OBVIOUS
<1>1. /\ Init /\ workers = [w \in Workers |-> Idle("recover")] /\ plan \in Plans /\ runs = <<>>
      /\ files = [o \in Operations |-> [p \in Paths |-> IF p = "source" THEN "ours" ELSE "absent"]]
      /\ late = {}
  BY DEF OInit, ProcessInit
<1>2. IndInv
  BY <1>1, IndInvInit
<1>3. NoLocal \in Locals
  BY <1>1, PlanFacts
<1>4. Idle("recover") \in Worker(HandlerPoints, Locals) /\ Idle("recover").pc = "recover"
  BY <1>3, IdleType DEF Points
<1>5. WorkersTyped /\ \A w \in Workers : workers[w].pc = "recover"
  BY <1>1, <1>4 DEF WorkersTyped
<1>6. Ids = {}
  BY <1>1 DEF Init, Ids
<1>7. LinkInv
  BY <1>5, <1>6 DEF LinkInv, LinkOK, Linked, Bounded
<1>8. RunsTyped /\ RunIds = {}
  BY <1>1, PlanFacts DEF RunsTyped, RunIds
<1>9. FilesTyped
  BY <1>1 DEF FilesTyped
<1> QED
  BY <1>1, <1>2, <1>5, <1>6, <1>7, <1>8, <1>9 DEF OInv, JobsInv, TakenInv, LateInv, Taken

LEMMA OInvNext ==
  ASSUME OInv, [ONext]_vars
  PROVE  OInv' /\ [Next]_jobs
<1>1. CASE UNCHANGED vars
  BY <1>1, OInvQuiet, SameFiles DEF vars, Ids, history
<1>2. ASSUME UNCHANGED plan, NEW w \in Workers, WorkerMoves(w), UNCHANGED gate
      PROVE  OInv' /\ [Next]_jobs
  BY <1>2, OInvWorker, WorkerSteps, StepsKeep
<1>3. ASSUME UNCHANGED plan, NEW w \in Workers, Crash(w), UNCHANGED <<runs, files, gate, late>>
      PROVE  OInv' /\ [Next]_jobs
  BY <1>3, OInvCrash
<1> QED
  BY <1>1, <1>2, <1>3, OInvServer, OInvTick, OInvUser DEF ONext

LEMMA OInvAlways == OSpec => []OInv
BY OInvInit, OInvNext, PTL DEF OSpec

\* The workers, the server and the user keep to the queue: its operations are all that
\* happens to the table.
THEOREM OrganizationsImplementQueue == OSpec => Spec
<1>1. OInit => Init
  BY DEF OInit, ProcessInit
<1>2. OInv /\ [ONext]_vars => [Next]_jobs
  BY OInvNext
<1> QED
  BY <1>1, <1>2, OInvAlways, PTL DEF OSpec, Spec

\* Mutation mode that returns to read-only takes effect at the next file, of every worker:
\* one that has moved a file since is not where the next rename would be.
THEOREM ReadOnlyObeyed == OSpec => ReadOnlyStopsAtTheNextFile
<1>1. ASSUME OInv
      PROVE  [\A w \in late : At(w, "rename") => workers'[w].pc # "verify"]_vars
  BY <1>1 DEF OInv, LateInv, At
<1> QED
  BY <1>1, OInvAlways, PTL DEF ReadOnlyStopsAtTheNextFile

-----------------------------------------------------------------------------
(* One worker: what the files, the receipts and the worker say of each other. *)

\* The file of an operation is at one of its paths, as far as the user has left it.
FilesInv ==
  \A o \in Operations :
    /\ o \notin touched => ((files[o]["source"] = "ours") <=> (files[o]["destination"] # "ours"))
    /\ o \notin touched \cup obscured => "other" \notin {files[o]["source"], files[o]["destination"]}

\* What an outcome says of the file: of a live run until it closes, for then the run may be
\* rolled back.  The rollback of another live run can take the file back before that, and
\* another live run can move again what a rollback has brought back.
TrueOutcome(r, o, outcome) ==
  /\ runs[r].mode = "live" /\ outcome \in {"moved", "already-completed"} /\ ~Closed(r) =>
       o \in touched \/ files[o]["destination"] = "ours" \/ Undone(r, o)
  /\ runs[r].mode = "rollback-live" /\ outcome \in Successes("rollback-live") =>
       o \in touched \/ files[o]["source"] = "ours" \/ Accounted(runs[r].sourceRun, o)

\* A rollback is of a live run that has ended well, and stays so.
ModeInv(r) ==
  IF Rollback(r) THEN /\ runs[r].mode \in {"rollback-simulation", "rollback-live"}
                      /\ runs[r].sourceRun \in RunIds /\ Closed(runs[r].sourceRun)
                      /\ runs[runs[r].sourceRun].mode = "live"
  ELSE runs[r].mode \in {"simulation", "live"}

RunTruth(r) ==
  /\ ModeInv(r)
  /\ \A o \in Operations : /\ runs[r].items[o] \in OutcomesOf(runs[r].mode)
                           /\ TrueOutcome(r, o, runs[r].items[o])

\* A file that is at its destination has its receipt, in a live run that has looked for it.
\* No run is 0.
ReceiptsInv ==
  \A o \in Operations : o \notin touched /\ files[o]["destination"] = "ours" => Accounted(0, o)

RunsInv == ReceiptsInv /\ \A r \in RunIds : RunTruth(r)

\* The operations that the run is to record an outcome of.
Wanted(r) == {o \in Operations : Rollback(r) => HasMoved(runs[r].sourceRun, o)}

\* Where the outcome of the operation that was taken is still to be recorded.
InHand == {"inspect", "recheck", "rename", "verify", "record"}

\* What the worker still has to do, and has in hand, is not recorded; the rest is.
Remains(x, r) ==
  /\ x.local.todo \subseteq Wanted(r)
  /\ \A p \in x.local.todo : runs[r].items[p] = "none"
  /\ \A p \in Wanted(r) : runs[r].items[p] = "none" =>
       p \in x.local.todo \/ (x.pc \in InHand /\ p = x.local.op)

\* What it knows of the file.
Knows(x, r) ==
  LET o == x.local.op
  IN /\ o \in Wanted(r) \ x.local.todo /\ runs[r].items[o] = "none"
     /\ x.pc \in {"recheck", "rename", "verify"} => Live(r)
     /\ x.pc \in {"recheck", "rename"} => o \in touched \/ files[o][From(r)] = "ours"
     /\ x.pc = "verify" => o \in touched \/ files[o][To(r)] = "ours"
     /\ x.pc = "record" => /\ x.local.outcome \in OutcomesOf(runs[r].mode) \ {"none"}
                           /\ TrueOutcome(r, o, x.local.outcome)
                           /\ runs[r].mode = "live" /\ x.local.outcome \in {"skipped", "failed"} =>
                                o \in touched \cup obscured \/ files[o]["source"] = "ours"

WorkInv(x, r) ==
  /\ x.pc \in HandlerPoints \ {"begin"} => ~Closed(r)
  /\ x.pc \in InHand \cup {"take", "save", "report"} => Remains(x, r)
  /\ x.pc = "close" => \A p \in Wanted(r) : runs[r].items[p] # "none"
  /\ x.pc \in InHand => Knows(x, r)

WorkersInv ==
  \A w \in Workers, r \in RunIds :
    workers[w].pc \in HandlerPoints /\ runs[r].job = workers[w].job => WorkInv(workers[w], r)

SInv == FilesInv /\ RunsInv /\ WorkersInv

-----------------------------------------------------------------------------
(* What steps leave true.                                                  *)

\* A file that is where it should be stays there, or the user has touched it.
FilesKept ==
  /\ touched \subseteq touched' /\ obscured \subseteq obscured'
  /\ \A o \in Operations, p \in Paths :
       /\ files[o][p] = "ours" => files'[o][p] = "ours" \/ o \in touched'
       /\ files'[o][p] = "ours" => files[o][p] = "ours"

\* Or it is moved: back by the rollback of a run that has closed, and to its destination by
\* a run that is open.
FilesFollow ==
  /\ touched \subseteq touched' /\ obscured \subseteq obscured'
  /\ \A o \in Operations :
       /\ files[o]["destination"] = "ours" =>
            \/ files'[o]["destination"] = "ours" \/ o \in touched'
            \/ \A r \in RunIds : ~Closed(r) => Undone(r, o)'
       /\ files[o]["source"] = "ours" =>
            \/ files'[o]["source"] = "ours" \/ o \in touched'
            \/ \A r \in RunIds : Closed(r) => Accounted(r, o)'
       /\ files'[o]["destination"] = "ours" =>
            files[o]["destination"] = "ours" \/ Accounted(0, o)'

\* Receipts stay, and what a live run records as not moved is at its source.
RecordsKept ==
  \A r \in RunIds, o \in Operations :
    /\ HasMoved(r, o) => HasMoved(r, o)'
    /\ runs[r].mode = "live" /\ runs[r].items[o] = "none" =>
         \/ runs'[r].items[o] = "none" \/ HasMoved(r, o)'
         \/ o \in touched' \cup obscured' \/ files'[o]["source"] = "ours"

ClosedStays == \A q \in RunIds : Closed(q) => Closed(q)'

LEMMA KeptFollow == FilesKept => FilesFollow
BY DEF FilesKept, FilesFollow, Paths

LEMMA SameRecords ==
  ASSUME \A q \in RunIds : runs'[q].items = runs[q].items
  PROVE  RecordsKept
BY DEF RecordsKept, HasMoved

LEMMA ModeStays ==
  ASSUME RunsKept, NEW r \in RunIds, ModeInv(r), ClosedStays
  PROVE  ModeInv(r)'
BY DEF RunsKept, ModeInv, Rollback, ClosedStays

LEMMA UndoneStays ==
  ASSUME RunsKept, RecordsKept, \A q \in RunIds : ModeInv(q),
         NEW o \in Operations, NEW r, Undone(r, o)
  PROVE  Undone(r, o)'
<1>1. PICK q \in RunIds : /\ runs[q].mode = "rollback-live" /\ runs[q].sourceRun # r
                          /\ HasMoved(runs[q].sourceRun, o)
  BY DEF Undone
<1>2. runs[q].sourceRun \in RunIds
  BY <1>1 DEF ModeInv
<1>3. HasMoved(runs[q].sourceRun, o)'
  BY <1>1, <1>2 DEF RecordsKept, RunsKept, HasMoved
<1> QED
  BY <1>1, <1>3 DEF Undone, RunsKept

LEMMA AccountedStays ==
  ASSUME RunsKept, RecordsKept, obscured \subseteq obscured', NEW o \in Operations, NEW r,
         Accounted(r, o)
  PROVE  Accounted(r, o)' \/ o \in touched' \/ files'[o]["source"] = "ours"
<1>1. PICK s \in RunIds \ {r} : /\ runs[s].mode = "live"
                                /\ HasMoved(s, o) \/ runs[s].items[o] = "none" \/ o \in obscured
  BY DEF Accounted
<1>2. s \in RunIds' /\ runs'[s].mode = "live"
  BY <1>1 DEF RunsKept
<1>3. \/ HasMoved(s, o)' \/ runs'[s].items[o] = "none" \/ o \in obscured'
      \/ o \in touched' \/ files'[o]["source"] = "ours"
  BY <1>1 DEF RecordsKept
<1> QED
  BY <1>1, <1>2, <1>3 DEF Accounted

\* An outcome that was true stays so, recorded before the step or by it.
LEMMA TruthStays ==
  ASSUME FilesFollow, RunsKept, RecordsKept, ClosedStays, UNCHANGED plan,
         \A q \in RunIds : ModeInv(q), NEW r \in RunIds,
         \A o \in Operations : /\ runs'[r].items[o] \in OutcomesOf(runs[r].mode)
                              /\ TrueOutcome(r, o, runs'[r].items[o])
  PROVE  RunTruth(r)'
<1>1. /\ runs'[r].mode = runs[r].mode /\ runs'[r].sourceRun = runs[r].sourceRun
      /\ ModeInv(r)' /\ (Closed(r) => Closed(r)')
  BY ModeStays DEF RunsKept, ClosedStays
<1>2. ASSUME NEW o \in Operations
      PROVE  /\ runs'[r].items[o] \in OutcomesOf(runs'[r].mode)
             /\ TrueOutcome(r, o, runs[r].items[o])'
  <2>1. /\ o \in touched => o \in touched'
        /\ files[o]["destination"] = "ours" /\ ~Closed(r) =>
             files'[o]["destination"] = "ours" \/ o \in touched' \/ Undone(r, o)'
        /\ Undone(r, o) => Undone(r, o)'
    BY UndoneStays DEF FilesFollow
  <2>2. ASSUME runs[r].mode = "rollback-live"
        PROVE  /\ files[o]["source"] = "ours" \/ Accounted(runs[r].sourceRun, o) =>
                    \/ files'[o]["source"] = "ours" \/ o \in touched'
                    \/ Accounted(runs[r].sourceRun, o)'
    <3>1. runs[r].sourceRun \in RunIds /\ Closed(runs[r].sourceRun)
      BY <2>2 DEF ModeInv
    <3>2. PICK q : q = runs[r].sourceRun
      OBVIOUS
    <3>3. Accounted(q, o) => Accounted(q, o)' \/ o \in touched' \/ files'[o]["source"] = "ours"
      BY AccountedStays DEF FilesFollow
    <3>4. files[o]["source"] = "ours" =>
            files'[o]["source"] = "ours" \/ o \in touched' \/ Accounted(q, o)'
      BY <3>1, <3>2 DEF FilesFollow
    <3>5. Accounted(q, o)' <=> Accounted(runs[r].sourceRun, o)'
      BY <1>1, <3>2 DEF Accounted
    <3> QED
      BY <3>2, <3>3, <3>4, <3>5
  <2>3. TrueOutcome(r, o, runs'[r].items[o]) /\ runs'[r].items[o] \in OutcomesOf(runs[r].mode)
    OBVIOUS
  <2> QED
    BY <1>1, <2>1, <2>2, <2>3 DEF TrueOutcome
<1> QED
  BY <1>1, <1>2, SameTypes DEF RunTruth

\* What a step has to keep, and to be true of what it records.
LEMMA RunsStay ==
  ASSUME RunsInv, FilesInv', FilesFollow, RunsKept, RecordsKept, ClosedStays, UNCHANGED plan,
         \A q \in RunIds : \/ runs'[q].items = runs[q].items
                           \/ \A o \in Operations :
                                /\ runs'[q].items[o] \in OutcomesOf(runs[q].mode)
                                /\ TrueOutcome(q, o, runs'[q].items[o]),
         \A q \in RunIds' : q \notin RunIds => RunTruth(q)'
  PROVE  RunsInv'
<1>1. \A q \in RunIds : RunTruth(q) /\ ModeInv(q)
  BY DEF RunsInv, RunTruth
<1>2. ASSUME NEW q \in RunIds PROVE RunTruth(q)'
  BY <1>1, TruthStays DEF RunTruth
<1>3. ASSUME NEW o \in Operations, o \notin touched', files'[o]["destination"] = "ours"
      PROVE  Accounted(0, o)'
  <2>1. files'[o]["source"] # "ours"
    BY <1>3, SameTypes DEF FilesInv
  <2>2. (files[o]["destination"] = "ours" /\ o \notin touched) \/ Accounted(0, o)'
    BY <1>3 DEF FilesFollow
  <2>3. Accounted(0, o) => Accounted(0, o)'
    BY <1>3, <2>1, AccountedStays DEF FilesFollow
  <2> QED
    BY <2>2, <2>3 DEF RunsInv, ReceiptsInv
<1>4. ReceiptsInv'
  BY <1>3, SameTypes DEF ReceiptsInv
<1> QED
  BY <1>2, <1>4 DEF RunsInv

\* A worker that writes nothing but the status of its run.
LEMMA SetsTruth ==
  ASSUME OInv, SInv, UNCHANGED <<plan, touched>>, obscured \subseteq obscured',
         NEW r \in RunIds, NEW s, Sets(r, s, runs[r].items),
         Closed(r) => s \in {"completed", "partial"}
  PROVE  FilesInv' /\ RunsInv' /\ FilesKept
<1>1. UNCHANGED files /\ Written(r, s, runs[r].items)
  BY DEF Sets
<1>2. FilesKept /\ FilesFollow
  BY <1>1, KeptFollow DEF FilesKept
<1>3. FilesInv'
  BY <1>1, SameTypes DEF SInv, FilesInv
<1>4. RunsKept /\ RunIds' = RunIds
  BY <1>1, WrittenKeeps
<1>5. \A q \in RunIds : runs'[q].items = runs[q].items /\ (Closed(q) => Closed(q)')
  BY <1>1 DEF Written, Closed
<1>6. RecordsKept /\ ClosedStays
  BY <1>5, SameRecords DEF ClosedStays
<1>7. RunsInv'
  BY <1>2, <1>3, <1>4, <1>5, <1>6, RunsStay DEF SInv
<1> QED
  BY <1>2, <1>3, <1>7

\* A run that is still open is nobody's source.
LEMMA OpenRun ==
  ASSUME OInv, SInv, UNCHANGED plan, NEW r \in RunIds, ~Closed(r), NEW s, NEW items, Written(r, s, items)
  PROVE  /\ Wanted(r)' = Wanted(r) /\ Rollback(r)' = Rollback(r) /\ Live(r)' = Live(r)
         /\ From(r)' = From(r) /\ To(r)' = To(r)
<1>1. /\ runs'[r].mode = runs[r].mode /\ runs'[r].sourceRun = runs[r].sourceRun
      /\ \A q \in RunIds \ {r} : runs'[q] = runs[q]
  BY DEF Written
<1>2. Rollback(r) => runs[r].sourceRun \in RunIds \ {r}
  BY DEF SInv, RunsInv, RunTruth, ModeInv
<1>3. /\ Rollback(r)' = Rollback(r) /\ Live(r)' = Live(r)
      /\ From(r)' = From(r) /\ To(r)' = To(r)
  BY <1>1 DEF Rollback, Live, From, To
<1>4. Wanted(r)' = Wanted(r)
  BY <1>1, <1>2, <1>3, SameTypes DEF Wanted, HasMoved
<1> QED
  BY <1>3, <1>4

\* What the worker knows of its run before a step.
LEMMA KnownBefore ==
  ASSUME OInv, SInv, NEW w \in Workers, workers[w].pc \in HandlerPoints
  PROVE  RunOf(w) \in RunIds /\ WorkInv(workers[w], RunOf(w))
BY HandlerFacts DEF SInv, WorkersInv

\* A step that writes nothing but the status of the run, which stays open.
LEMMA OpenStep ==
  ASSUME OInv, SInv, NEW w \in Workers, UNCHANGED <<plan, touched>>, obscured \subseteq obscured',
         NEW r \in RunIds, ~Closed(r), NEW s, Sets(r, s, runs[r].items),
         s \notin {"completed", "partial"}
  PROVE  LET y == workers'[w]
         IN /\ FilesInv' /\ RunsInv'
            /\ y.pc \notin InHand \cup {"take", "save", "report", "close"} => WorkInv(workers[w], r)'
            /\ y.pc \in {"take", "save", "report"} /\ Remains(y, r) => WorkInv(workers[w], r)'
            /\ y.pc = "close" /\ (\A p \in Wanted(r) : runs[r].items[p] # "none") =>
                 WorkInv(workers[w], r)'
            /\ y.pc \in InHand /\ Remains(y, r) /\ Knows(workers[w], r)' => WorkInv(workers[w], r)'
<1>1. Written(r, s, runs[r].items)
  BY DEF Sets
<1>2. Wanted(r)' = Wanted(r)
  BY <1>1, OpenRun
<1>3. ~Closed(r)' /\ runs'[r].items = runs[r].items
  BY <1>1 DEF Written, Closed
<1>4. FilesInv' /\ RunsInv'
  BY SetsTruth
<1>5. Remains(workers'[w], r) => Remains(workers[w], r)'
  BY <1>2, <1>3 DEF Remains
<1> QED
  BY <1>2, <1>3, <1>4, <1>5 DEF WorkInv, InHand

-----------------------------------------------------------------------------
(* One worker: the engine, action by action.                               *)

\* What a step of the worker, at run r, has to leave true.
After(w, r) ==
  /\ FilesInv' /\ RunsInv'
  /\ workers'[w].pc \in HandlerPoints => WorkInv(workers[w], r)'

LEMMA BeginAfter ==
  ASSUME OInv, SInv, NEW w \in Workers, UNCHANGED <<plan, touched, obscured>>, NEW r, r = RunOf(w),
         Begin(w)
  PROVE  After(w, r)
<1> DEFINE y == workers'[w]
<1>1. /\ Sets(r, runs[r].status, runs[r].items) /\ y.pc \in {"finish", "start", "failRun"}
      /\ y.pc # "finish" => ~Closed(r)
  BY BeginStep DEF Looks
<1>2. r \in RunIds
  BY BeginStep, HandlerFacts DEF HandlerPoints
<1>3. CASE Closed(r)
  <2>1. FilesInv' /\ RunsInv'
    BY <1>1, <1>2, <1>3, SetsTruth DEF Closed
  <2> QED
    BY <1>1, <1>3, <2>1 DEF After, HandlerPoints
<1>4. CASE ~Closed(r)
  <2>1. FilesInv' /\ RunsInv' /\ (y.pc # "finish" => WorkInv(workers[w], r)')
    BY <1>1, <1>2, <1>4, OpenStep DEF Closed, InHand
  <2> QED
    BY <1>1, <2>1 DEF After, HandlerPoints
<1> QED
  BY <1>3, <1>4

\* The steps after which nothing is known but that the run is open.
LEMMA PlainAfter ==
  ASSUME OInv, SInv, NEW w \in Workers, UNCHANGED <<plan, touched, obscured>>, NEW r, r = RunOf(w),
         StartRun(w) \/ InterruptRun(w) \/ Leave(w) \/ FailRun(w)
  PROVE  After(w, r)
<1> DEFINE y == workers'[w]
<1>1. workers[w].pc \in HandlerPoints \ {"begin"}
  BY StartStep, InterruptStep, LeaveStep, FailStep DEF HandlerPoints
<1>2. r \in RunIds /\ ~Closed(r)
  BY <1>1, KnownBefore DEF WorkInv
<1>3. PICK s : Sets(r, s, runs[r].items) /\ s \notin {"completed", "partial"}
  <2>1. CASE StartRun(w)
    BY <1>2, <2>1, StartStep DEF Closed
  <2>2. CASE InterruptRun(w)
    <3>1. PICK t \in {"paused", "cancelled"} : Sets(r, t, runs[r].items)
      BY <2>2, InterruptStep
    <3> QED
      BY <3>1
  <2>3. CASE Leave(w)
    BY <1>2, <2>3, LeaveStep DEF Closed, Looks
  <2>4. CASE FailRun(w)
    BY <2>4, FailStep
  <2> QED
    BY <2>1, <2>2, <2>3, <2>4
<1>4. y.pc \in {"list", "leave", "ackCancel", "ackPause", "failRun", "fail"}
  BY StartStep, InterruptStep, LeaveStep, FailStep
<1>5. FilesInv' /\ RunsInv' /\ WorkInv(workers[w], r)'
  BY <1>2, <1>3, <1>4, OpenStep DEF InHand
<1> QED
  BY <1>5 DEF After

LEMMA ListAfter ==
  ASSUME OInv, SInv, NEW w \in Workers, UNCHANGED <<plan, touched, obscured>>, NEW r, r = RunOf(w),
         List(w)
  PROVE  After(w, r)
<1> DEFINE y == workers'[w]
<1>1. /\ workers[w].pc = "list" /\ Sets(r, runs[r].status, runs[r].items)
      /\ y.pc = "take" /\ y.local.todo = executableOperations(r)
  BY ListStep DEF Looks
<1>2. r \in RunIds /\ ~Closed(r)
  BY <1>1, KnownBefore DEF WorkInv, HandlerPoints
<1>3. Remains(y, r)
  BY <1>1 DEF Remains, executableOperations, Wanted
<1>4. FilesInv' /\ RunsInv' /\ WorkInv(workers[w], r)'
  BY <1>1, <1>2, <1>3, OpenStep DEF Closed
<1> QED
  BY <1>4 DEF After

LEMMA TakeAfter ==
  ASSUME OInv, SInv, NEW w \in Workers, UNCHANGED <<plan, touched, obscured>>, NEW r, r = RunOf(w),
         TakeOperation(w)
  PROVE  After(w, r)
<1> DEFINE x == workers[w]
           y == workers'[w]
<1>1. /\ x.pc = "take" /\ Sets(r, runs[r].status, runs[r].items)
      /\ y.pc \in {"close", "failRun", "cancelRun", "pauseRun", "inspect"}
      /\ y.pc = "close" => x.local.todo = {}
      /\ y.pc = "inspect" => /\ y.local.op \in x.local.todo
                             /\ y.local.todo = x.local.todo \ {y.local.op}
  BY TakeStep DEF Looks
<1>2. x.pc \in HandlerPoints
  BY <1>1 DEF HandlerPoints
<1>3. r \in RunIds /\ ~Closed(r) /\ Remains(x, r)
  BY <1>1, <1>2, KnownBefore DEF WorkInv
<1>4. x.local.todo \subseteq Operations
  BY <1>2, HandlerFacts DEF Locals
<1>5. y.pc = "close" => \A p \in Wanted(r) : runs[r].items[p] # "none"
  BY <1>1, <1>3 DEF Remains, InHand
<1>6. ASSUME y.pc = "inspect" PROVE Remains(y, r) /\ Knows(workers[w], r)'
  <2>1. Remains(y, r)
    BY <1>1, <1>3, <1>6 DEF Remains, InHand
  <2>2. runs'[r].items = runs[r].items
    BY <1>1 DEF Sets, Written
  <2>3. y.local.op \in Wanted(r) \ y.local.todo /\ runs[r].items[y.local.op] = "none"
    BY <1>1, <1>3, <1>4, <1>6 DEF Remains
  <2>4. Wanted(r)' = Wanted(r)
    BY <1>1, <1>3, OpenRun DEF Sets
  <2>5. Knows(workers[w], r)'
    BY <1>6, <2>2, <2>3, <2>4 DEF Knows
  <2> QED
    BY <2>1, <2>5
<1>7. FilesInv' /\ RunsInv' /\ WorkInv(workers[w], r)'
  BY <1>1, <1>3, <1>5, <1>6, OpenStep DEF Closed, InHand
<1> QED
  BY <1>7 DEF After

LEMMA ReportAfter ==
  ASSUME OInv, SInv, NEW w \in Workers, UNCHANGED <<plan, touched, obscured>>, NEW r, r = RunOf(w),
         ReportItem(w)
  PROVE  After(w, r)
<1> DEFINE x == workers[w]
           y == workers'[w]
<1>1. /\ x.pc \in {"save", "report"} /\ Sets(r, runs[r].status, runs[r].items)
      /\ y.pc \in {"report", "take", "failRun"} /\ y.local = x.local
  BY ReportStep DEF Looks
<1>2. r \in RunIds /\ ~Closed(r) /\ Remains(x, r)
  BY <1>1, KnownBefore DEF WorkInv, HandlerPoints
<1>3. Remains(y, r)
  BY <1>1, <1>2 DEF Remains, InHand
<1>4. FilesInv' /\ RunsInv' /\ WorkInv(workers[w], r)'
  BY <1>1, <1>2, <1>3, OpenStep DEF Closed, InHand
<1> QED
  BY <1>4 DEF After

\* The end of a run.
LEMMA CloseAfter ==
  ASSUME OInv, SInv, NEW w \in Workers, UNCHANGED <<plan, touched, obscured>>, NEW r, r = RunOf(w),
         CloseRun(w)
  PROVE  After(w, r)
<1> DEFINE y == workers'[w]
<1>1. PICK s : Sets(r, s, runs[r].items) /\ s \in {"completed", "partial"}
  BY CloseStep
<1>2. workers[w].pc = "close" /\ y.pc = "finish"
  BY CloseStep
<1>3. r \in RunIds
  BY <1>2, KnownBefore DEF HandlerPoints
<1>4. FilesInv' /\ RunsInv'
  BY <1>1, <1>3, SetsTruth
<1> QED
  BY <1>2, <1>4 DEF After, HandlerPoints

\* The receipt.
LEMMA RecordAfter ==
  ASSUME OInv, SInv, NEW w \in Workers, UNCHANGED <<plan, touched, obscured>>, NEW r, r = RunOf(w),
         RecordRunItem(w)
  PROVE  After(w, r)
<1> DEFINE x == workers[w]
           y == workers'[w]
           o == x.local.op
           items == [runs[r].items EXCEPT ![o] = IF runs[r].items[o] = "none" THEN x.local.outcome
                                                 ELSE runs[r].items[o]]
<1>1. /\ x.pc = "record" /\ y.pc = "save" /\ y.local = x.local
      /\ o \in Operations /\ Sets(r, runs[r].status, items)
  BY RecordStep
<1>2. x.pc \in HandlerPoints
  BY <1>1 DEF HandlerPoints
<1>3. r \in RunIds /\ ~Closed(r) /\ Remains(x, r) /\ Knows(x, r)
  BY <1>1, <1>2, KnownBefore DEF WorkInv, InHand
<1>4. /\ o \notin x.local.todo /\ runs[r].items[o] = "none"
      /\ x.local.outcome \in OutcomesOf(runs[r].mode) \ {"none"}
      /\ TrueOutcome(r, o, x.local.outcome)
      /\ runs[r].mode = "live" /\ x.local.outcome \in {"skipped", "failed"} =>
           o \in touched \cup obscured \/ files[o]["source"] = "ours"
  BY <1>1, <1>3 DEF Knows
<1>5. runs[r].items \in [Operations -> ItemOutcomes \cup {"none"}] /\ RunOf(w) \in RunIds
  BY <1>2, HandlerFacts DEF Run
<1>6. items[o] = x.local.outcome /\ \A p \in Operations : p # o => items[p] = runs[r].items[p]
  BY <1>1, <1>4, <1>5
<1> HIDE DEF items, o
<1>7. Written(r, runs[r].status, items) /\ UNCHANGED files
  BY <1>1 DEF Sets
<1>8. /\ FilesFollow /\ FilesInv' /\ RunsKept /\ RunIds' = RunIds /\ ClosedStays
      /\ \A q \in RunIds : q # r => runs'[q].items = runs[q].items
      /\ runs'[r].items = items /\ runs'[r].mode = runs[r].mode /\ ~Closed(r)'
  <2>1. FilesFollow
    BY <1>7, KeptFollow DEF FilesKept
  <2>2. FilesInv'
    BY <1>7, SameTypes DEF SInv, FilesInv
  <2>3. RunsKept /\ RunIds' = RunIds
    BY <1>3, <1>7, WrittenKeeps
  <2> QED
    BY <1>3, <1>7, <2>1, <2>2, <2>3 DEF Written, Closed, ClosedStays
<1>9. RunsInv'
  <2>1. RecordsKept
    <3>1. runs[r].mode = "live" =>
            x.local.outcome \in {"moved", "already-completed", "skipped", "failed"}
      BY <1>4 DEF OutcomesOf, Successes
    <3>2. ASSUME NEW q \in RunIds, NEW p \in Operations
          PROVE  /\ HasMoved(q, p) => HasMoved(q, p)'
                 /\ runs[q].mode = "live" /\ runs[q].items[p] = "none" =>
                      \/ runs'[q].items[p] = "none" \/ HasMoved(q, p)'
                      \/ p \in touched' \cup obscured' \/ files'[p]["source"] = "ours"
      <4>1. CASE q # r \/ p # o
        BY <1>6, <1>8, <4>1 DEF HasMoved
      <4>2. CASE q = r /\ p = o
        BY <1>4, <1>6, <1>7, <1>8, <3>1, <4>2 DEF HasMoved
      <4> QED
        BY <4>1, <4>2
    <3> QED
      BY <3>2 DEF RecordsKept
  <2>2. ASSUME NEW p \in Operations
        PROVE  items[p] \in OutcomesOf(runs[r].mode) /\ TrueOutcome(r, p, items[p])
    BY <1>3, <1>4, <1>6 DEF SInv, RunsInv, RunTruth
  <2> QED
    BY <1>8, <2>1, <2>2, RunsStay DEF SInv
<1>10. Wanted(r)' = Wanted(r) /\ Wanted(r) \subseteq Operations
  BY <1>3, <1>7, OpenRun DEF Wanted
<1>11. x.local.todo \subseteq Operations
  BY <1>2, HandlerFacts DEF Locals
<1>12. Remains(workers[w], r)'
  BY <1>1, <1>3, <1>4, <1>6, <1>8, <1>10, <1>11 DEF Remains, InHand, o
<1>13. WorkInv(workers[w], r)'
  BY <1>1, <1>8, <1>12 DEF WorkInv, InHand
<1> QED
  BY <1>8, <1>9, <1>13 DEF After

\* The worker still has its operation in hand.
LEMMA HandAfter ==
  ASSUME OInv, SInv, NEW w \in Workers, UNCHANGED <<plan, touched>>, obscured \subseteq obscured',
         NEW r \in RunIds, WorkInv(workers[w], r), workers[w].pc \in InHand, Looks(r),
         workers'[w].pc \in InHand \/ workers'[w].pc = "retryRun",
         workers'[w].pc \in InHand => /\ workers'[w].local.op = workers[w].local.op
                                      /\ workers'[w].local.todo = workers[w].local.todo
                                      /\ Knows(workers[w], r)'
  PROVE  After(w, r)
<1> DEFINE x == workers[w]
           y == workers'[w]
<1>1. ~Closed(r) /\ Remains(x, r)
  BY DEF WorkInv, InHand, HandlerPoints
<1>2. y.pc \in InHand => Remains(y, r)
  BY <1>1 DEF Remains
<1>3. FilesInv' /\ RunsInv' /\ WorkInv(workers[w], r)'
  BY <1>1, <1>2, OpenStep DEF Looks, Closed, InHand
<1> QED
  BY <1>3 DEF After

\* The outcome of the operation is decided, by what the worker has just seen.
LEMMA DecidedAfter ==
  ASSUME OInv, SInv, NEW w \in Workers, UNCHANGED <<plan, touched, files>>,
         obscured \subseteq obscured', NEW r \in RunIds, WorkInv(workers[w], r),
         workers[w].pc \in InHand, Looks(r),
         NEW o, o = workers[w].local.op, NEW outcome \in OutcomesOf(runs[r].mode) \ {"none"},
         LET y == workers'[w]
         IN /\ y.pc = "record" /\ y.local.op = o /\ y.local.todo = workers[w].local.todo
            /\ y.local.outcome = outcome,
         runs[r].mode = "live" /\ outcome \in {"moved", "already-completed"} =>
           o \in touched \/ files[o]["destination"] = "ours",
         runs[r].mode = "live" /\ outcome \in {"skipped", "failed"} =>
           o \in touched \cup obscured' \/ files[o]["source"] = "ours",
         runs[r].mode = "rollback-live" /\ outcome \in Successes("rollback-live") =>
           o \in touched \/ files[o]["source"] = "ours"
  PROVE  After(w, r)
<1>1. /\ o \in Wanted(r) \ workers[w].local.todo /\ runs[r].items[o] = "none"
      /\ ~Closed(r)
  BY DEF WorkInv, Knows, InHand, HandlerPoints
<1>2. runs'[r].items = runs[r].items /\ runs'[r].mode = runs[r].mode /\ Wanted(r)' = Wanted(r)
  BY <1>1, OpenRun DEF Looks, Sets, Written
<1>3. TrueOutcome(r, o, outcome)'
  BY <1>2 DEF TrueOutcome
<1>4. Knows(workers[w], r)'
  BY <1>1, <1>2, <1>3 DEF Knows
<1> QED
  BY <1>4, HandAfter DEF InHand

\* What the mode of an open run says of its paths, and what the file of an operation is.
LEMMA Sides ==
  ASSUME OInv, SInv, NEW r \in RunIds, NEW o \in Operations
  PROVE  /\ runs[r].mode \in RunModes
         /\ IF Rollback(r)
            THEN /\ runs[r].mode \in {"rollback-simulation", "rollback-live"}
                 /\ From(r) = "destination" /\ To(r) = "source"
            ELSE /\ runs[r].mode \in {"simulation", "live"}
                 /\ From(r) = "source" /\ To(r) = "destination"
         /\ \A p \in Paths : files[o][p] \in {"ours", "absent", "other"}
         /\ o \notin touched => ((files[o]["source"] = "ours") <=> (files[o]["destination"] # "ours"))
         /\ o \notin touched \cup obscured =>
              files[o]["source"] # "other" /\ files[o]["destination"] # "other"
<1>1. ModeInv(r)
  BY DEF SInv, RunsInv, RunTruth
<1>2. files[o] \in [Paths -> {"ours", "absent", "other"}]
  BY DEF OInv, FilesTyped
<1>3. /\ o \notin touched => ((files[o]["source"] = "ours") <=> (files[o]["destination"] # "ours"))
      /\ o \notin touched \cup obscured =>
              files[o]["source"] # "other" /\ files[o]["destination"] # "other"
  BY DEF SInv, FilesInv
<1> QED
  BY <1>1, <1>2, <1>3 DEF ModeInv, From, To, RunModes

\* The file that the worker looks at is the one that the run may move.
LEMMA InspectAfter ==
  ASSUME OInv, SInv, NEW w \in Workers, UNCHANGED <<plan, touched>>, NEW r, r = RunOf(w), Inspect(w)
  PROVE  After(w, r)
<1> DEFINE x == workers[w]
           y == workers'[w]
           o == x.local.op
<1>1. /\ x.pc = "inspect" /\ Looks(r) /\ y.local.op = o /\ y.local.todo = x.local.todo
      /\ \/ y.pc = "recheck" /\ Found(w) = "none" /\ UNCHANGED obscured
         \/ y.pc = "record" /\ y.local.outcome = Found(w) /\ Found(w) # "none" /\ UNCHANGED obscured
         \/ y.pc = "record" /\ y.local.outcome = "failed" /\ obscured' = obscured \cup {o}
  <2>1. "none" \notin ItemOutcomes
    BY DEF ItemOutcomes, RunModes, Successes
  <2> QED
    BY <2>1, InspectStep
<1>2. x.pc \in HandlerPoints /\ x.pc \in InHand
  BY <1>1 DEF HandlerPoints, InHand
<1>3. r \in RunIds /\ WorkInv(x, r) /\ RunTruth(r)
  BY <1>2, KnownBefore DEF SInv, RunsInv
<1>4. /\ ~Closed(r) /\ o \in Wanted(r) \ x.local.todo /\ runs[r].items[o] = "none"
      /\ o \in Operations
  BY <1>2, <1>3 DEF WorkInv, Knows, HandlerPoints, InHand, Wanted
<1>5. /\ runs'[r].items = runs[r].items /\ runs'[r].mode = runs[r].mode
      /\ runs'[r].sourceRun = runs[r].sourceRun /\ UNCHANGED files
      /\ Wanted(r)' = Wanted(r)
  BY <1>1, <1>3, <1>4, OpenRun DEF Looks, Sets, Written
<1>6. CASE Found(w) = "none" /\ y.pc = "recheck" /\ UNCHANGED obscured
  <2>1. Live(r) /\ files[o][From(r)] \notin {"absent", "other"} /\ From(r) \in Paths
    BY <1>6, FoundFacts DEF Here, Op, Local, From, Paths
  <2>2. files[o][From(r)] = "ours"
    BY <1>4, <2>1 DEF OInv, FilesTyped
  <2>3. Live(r)' /\ From(r)' = From(r)
    BY <1>5, <2>1 DEF Live, From, Rollback
  <2>4. Knows(workers[w], r)'
    BY <1>1, <1>4, <1>5, <1>6, <2>2, <2>3 DEF Knows
  <2> QED
    BY <1>1, <1>2, <1>3, <1>6, <2>4, HandAfter DEF InHand
<1>7. /\ runs[r].mode \in RunModes
      /\ IF Rollback(r)
         THEN /\ runs[r].mode \in {"rollback-simulation", "rollback-live"}
              /\ From(r) = "destination" /\ To(r) = "source"
         ELSE /\ runs[r].mode \in {"simulation", "live"}
              /\ From(r) = "source" /\ To(r) = "destination"
      /\ o \notin touched => ((files[o]["source"] = "ours") <=> (files[o]["destination"] # "ours"))
      /\ o \notin touched \cup obscured =>
              files[o]["source"] # "other" /\ files[o]["destination"] # "other"
  BY <1>3, <1>4, Sides
<1>8. CASE y.pc = "record" /\ y.local.outcome = "failed" /\ obscured' = obscured \cup {o}
  <2>1. "failed" \in OutcomesOf(runs[r].mode) \ {"none"} /\ "failed" \notin Successes("rollback-live")
    BY DEF OutcomesOf, Successes
  <2> QED
    BY <1>1, <1>2, <1>3, <1>5, <1>8, <2>1, DecidedAfter
<1>9. CASE y.pc = "record" /\ y.local.outcome = Found(w) /\ Found(w) # "none" /\ UNCHANGED obscured
  <2> DEFINE from == files[o][From(r)]
             to == files[o][To(r)]
  <2>1. Found(w) = CASE from = "absent" -> IF to # "ours" THEN "failed"
                                           ELSE IF Rollback(r) THEN "already-rolled-back"
                                           ELSE "already-completed"
                     [] from = "other" -> "skipped"
                     [] OTHER -> IF to # "absent" THEN "skipped"
                                 ELSE IF Live(r) THEN "none"
                                 ELSE IF Rollback(r) THEN "would-rollback" ELSE "simulated"
    BY DEF Found, Here, Op, Local
  <2>2. \/ Found(w) = "failed" /\ from = "absent" /\ to # "ours"
        \/ Found(w) = "already-rolled-back" /\ Rollback(r) /\ to = "ours"
        \/ Found(w) = "already-completed" /\ ~Rollback(r) /\ to = "ours"
        \/ Found(w) = "skipped" /\ from \in {"ours", "other"}
        \/ Found(w) = "would-rollback" /\ Rollback(r) /\ ~Live(r)
        \/ Found(w) = "simulated" /\ ~Rollback(r) /\ ~Live(r)
    <3>1. from \in {"ours", "absent", "other"}
      BY <1>3, <1>4, Sides DEF From, Paths
    <3> QED
      BY <1>9, <2>1, <3>1
  <2>3. Found(w) \in OutcomesOf(runs[r].mode) \ {"none"}
    BY <1>7, <2>2 DEF OutcomesOf, Successes, Live
  <2>4. runs[r].mode = "live" /\ Found(w) \in {"moved", "already-completed"} =>
           o \in touched \/ files[o]["destination"] = "ours"
    BY <1>7, <2>2
  <2>5. runs[r].mode = "live" /\ Found(w) \in {"skipped", "failed"} =>
           o \in touched \cup obscured' \/ files[o]["source"] = "ours"
    BY <1>7, <1>9, <2>2
  <2>6. runs[r].mode = "rollback-live" /\ Found(w) \in Successes("rollback-live") =>
           o \in touched \/ files[o]["source"] = "ours"
    BY <1>7, <2>2 DEF Successes
  <2> HIDE DEF from, to
  <2> QED
    BY <1>1, <1>2, <1>3, <1>5, <1>9, <2>3, <2>4, <2>5, <2>6, DecidedAfter
<1> QED
  BY <1>1, <1>6, <1>8, <1>9

LEMMA RecheckAfter ==
  ASSUME OInv, SInv, NEW w \in Workers, UNCHANGED <<plan, touched, obscured>>, NEW r, r = RunOf(w),
         Recheck(w)
  PROVE  After(w, r)
<1> DEFINE x == workers[w]
           y == workers'[w]
           o == x.local.op
<1>1. /\ x.pc = "recheck" /\ Looks(r) /\ y.local.op = o /\ y.local.todo = x.local.todo
      /\ \/ y.pc = "rename" /\ files[o][From(r)] = "ours"
         \/ y.pc = "record" /\ y.local.outcome \in {"skipped", "failed"}
  BY RecheckStep DEF Here, Op, Local
<1>2. x.pc \in HandlerPoints /\ x.pc \in InHand
  BY <1>1 DEF HandlerPoints, InHand
<1>3. r \in RunIds /\ WorkInv(x, r)
  BY <1>2, KnownBefore
<1>4. /\ ~Closed(r) /\ o \in Wanted(r) \ x.local.todo /\ runs[r].items[o] = "none"
      /\ o \in Operations /\ Live(r) /\ (o \in touched \/ files[o][From(r)] = "ours")
  BY <1>1, <1>2, <1>3 DEF WorkInv, Knows, HandlerPoints, InHand, Wanted
<1>5. /\ runs'[r].items = runs[r].items /\ runs'[r].mode = runs[r].mode
      /\ runs'[r].sourceRun = runs[r].sourceRun /\ UNCHANGED files
      /\ Wanted(r)' = Wanted(r)
  BY <1>1, <1>3, <1>4, OpenRun DEF Looks, Sets, Written
<1>6. CASE y.pc = "rename" /\ files[o][From(r)] = "ours"
  <2>1. Live(r)' /\ From(r)' = From(r)
    BY <1>4, <1>5 DEF Live, From, Rollback
  <2>2. Knows(workers[w], r)'
    BY <1>1, <1>4, <1>5, <1>6, <2>1 DEF Knows
  <2> QED
    BY <1>1, <1>2, <1>3, <1>6, <2>2, HandAfter DEF InHand
<1>7. ASSUME NEW outcome \in {"skipped", "failed"}, y.pc = "record", y.local.outcome = outcome
      PROVE  After(w, r)
  <2>1. outcome \in OutcomesOf(runs[r].mode) \ {"none"} /\ outcome \notin Successes("rollback-live")
    BY DEF OutcomesOf, Successes
  <2>2. runs[r].mode = "live" => o \in touched \cup obscured' \/ files[o]["source"] = "ours"
    BY <1>3, <1>4, Sides
  <2>3. outcome \notin {"moved", "already-completed"}
    OBVIOUS
  <2> QED
    BY <1>1, <1>2, <1>3, <1>5, <1>7, <2>1, <2>2, <2>3, DecidedAfter
<1> QED
  BY <1>1, <1>6, <1>7

LEMMA VerifyAfter ==
  ASSUME OInv, SInv, NEW w \in Workers, UNCHANGED <<plan, touched, obscured>>, NEW r, r = RunOf(w),
         Verify(w)
  PROVE  After(w, r)
<1> DEFINE x == workers[w]
           y == workers'[w]
           o == x.local.op
           outcome == IF Rollback(r) THEN "rolled-back" ELSE "moved"
<1>1. /\ x.pc = "verify" /\ Looks(r)
      /\ \/ /\ y.pc = "record" /\ y.local.op = o /\ y.local.todo = x.local.todo
            /\ files[o][To(r)] = "ours" /\ y.local.outcome = outcome
         \/ y.pc = "retryRun"
  BY VerifyStep DEF Here, Op, Local
<1>2. x.pc \in HandlerPoints /\ x.pc \in InHand
  BY <1>1 DEF HandlerPoints, InHand
<1>3. r \in RunIds /\ WorkInv(x, r)
  BY <1>2, KnownBefore
<1>4. o \in Operations /\ Live(r)
  BY <1>1, <1>2, <1>3 DEF WorkInv, Knows, InHand, Wanted
<1>5. UNCHANGED files
  BY <1>1 DEF Looks, Sets
<1>6. CASE y.pc = "retryRun"
  BY <1>1, <1>2, <1>3, <1>6, HandAfter DEF InHand
<1>7. CASE y.pc = "record" /\ y.local.op = o /\ y.local.todo = x.local.todo
            /\ files[o][To(r)] = "ours" /\ y.local.outcome = outcome
  <2>1. /\ outcome \in OutcomesOf(runs[r].mode) \ {"none"}
        /\ runs[r].mode = "live" /\ outcome \in {"moved", "already-completed"} =>
             files[o]["destination"] = "ours"
        /\ runs[r].mode = "live" => outcome \notin {"skipped", "failed"}
        /\ runs[r].mode = "rollback-live" => files[o]["source"] = "ours"
    BY <1>3, <1>4, <1>7, Sides DEF OutcomesOf, Successes, Live
  <2> HIDE DEF outcome
  <2> QED
    BY <1>1, <1>2, <1>3, <1>5, <1>7, <2>1, DecidedAfter
<1> QED
  BY <1>1, <1>6, <1>7

\* The rename.  What other runs have recorded of the file is accounted for by this one: it is
\* open, so that it is nobody's source, and it has no receipt for the file yet, or rolls back
\* a run that has one.
LEMMA RenameAfter ==
  ASSUME OInv, SInv, NEW w \in Workers, UNCHANGED <<plan, touched, obscured>>,
         NEW r, r = RunOf(w), Rename(w)
  PROVE  After(w, r)
<1> DEFINE x == workers[w]
           y == workers'[w]
<1>1. PICK o : o = x.local.op
  OBVIOUS
<1>2. /\ x.pc = "rename" /\ o \in Operations /\ y.local.op = o /\ y.local.todo = x.local.todo
      /\ FilesTyped' /\ RunsTyped' /\ Written(r, runs[r].status, runs[r].items)
      /\ \/ /\ y.pc = "verify"
            /\ \A p \in Operations \ {o} : files'[p] = files[p]
            /\ files'[o][To(r)] = files[o][From(r)] /\ files'[o][From(r)] = "absent"
         \/ y.pc = "record" /\ y.local.outcome = "failed" /\ UNCHANGED files
  BY <1>1, RenameStep
<1>3. x.pc \in HandlerPoints /\ x.pc \in InHand
  BY <1>2 DEF HandlerPoints, InHand
<1>4. r \in RunIds /\ WorkInv(x, r)
  BY <1>3, KnownBefore
<1>5. /\ ~Closed(r) /\ o \in Wanted(r) \ x.local.todo /\ runs[r].items[o] = "none" /\ Remains(x, r)
      /\ Live(r) /\ (o \in touched \/ files[o][From(r)] = "ours")
  BY <1>1, <1>2, <1>3, <1>4 DEF WorkInv, Knows, HandlerPoints, InHand
<1>6. CASE y.pc = "record" /\ y.local.outcome = "failed" /\ UNCHANGED files
  <2>1. "failed" \in OutcomesOf(runs[r].mode) \ {"none"} /\ "failed" \notin Successes("rollback-live")
    BY DEF OutcomesOf, Successes
  <2>2. runs[r].mode = "live" => o \in touched \cup obscured' \/ files[o]["source"] = "ours"
    BY <1>2, <1>4, <1>5, Sides
  <2>3. Looks(r)
    BY <1>2, <1>6 DEF Looks, Sets
  <2> QED
    BY <1>1, <1>2, <1>3, <1>4, <1>6, <2>1, <2>2, <2>3, DecidedAfter
<1>7. CASE /\ y.pc = "verify"
           /\ \A p \in Operations \ {o} : files'[p] = files[p]
           /\ files'[o][To(r)] = files[o][From(r)] /\ files'[o][From(r)] = "absent"
  <2>1. /\ runs[r].mode \in RunModes
        /\ IF Rollback(r)
           THEN /\ runs[r].mode \in {"rollback-simulation", "rollback-live"}
                /\ From(r) = "destination" /\ To(r) = "source"
           ELSE /\ runs[r].mode \in {"simulation", "live"}
                /\ From(r) = "source" /\ To(r) = "destination"
    BY <1>2, <1>4, Sides
  <2>2. o \notin touched => files'[o][To(r)] = "ours" /\ files'[o][From(r)] = "absent"
    BY <1>5, <1>7
  <2>3. FilesInv'
    <3>1. ASSUME NEW p \in Operations
          PROVE  /\ p \notin touched' =>
                      ((files'[p]["source"] = "ours") <=> (files'[p]["destination"] # "ours"))
                 /\ p \notin touched' \cup obscured' =>
                      "other" \notin {files'[p]["source"], files'[p]["destination"]}
      <4>1. CASE p = o
        BY <2>1, <2>2, <4>1
      <4>2. CASE p # o
        BY <1>7, <4>2 DEF SInv, FilesInv
      <4> QED
        BY <4>1, <4>2
    <3> QED
      BY <3>1, SameTypes DEF FilesInv
  <2>4. /\ RunsKept /\ RunIds' = RunIds
        /\ \A q \in RunIds : /\ runs'[q].items = runs[q].items /\ runs'[q].mode = runs[q].mode
                             /\ runs'[q].status = runs[q].status
                             /\ runs'[q].sourceRun = runs[q].sourceRun
    BY <1>2, <1>4, WrittenKeeps DEF Written
  <2>5. FilesFollow
    <3>1. ASSUME Rollback(r), NEW q \in RunIds, ~Closed(q)
          PROVE  Undone(q, o)'
      <4>1. runs[r].mode = "rollback-live"
        BY <1>5, <2>1, <3>1 DEF Live
      <4>2. HasMoved(runs[r].sourceRun, o) /\ runs[r].sourceRun \in RunIds /\ runs[r].sourceRun # q
        BY <1>4, <1>5, <3>1 DEF Wanted, SInv, RunsInv, RunTruth, ModeInv
      <4> QED
        BY <1>4, <2>4, <4>1, <4>2 DEF Undone, HasMoved
    <3>2. ASSUME ~Rollback(r), NEW q, q # r
          PROVE  Accounted(q, o)'
      <4>1. runs[r].mode = "live"
        BY <1>5, <2>1, <3>2 DEF Live
      <4> QED
        BY <1>4, <1>5, <2>4, <3>2, <4>1 DEF Accounted
    <3>3. /\ \A q \in RunIds : Closed(q) => q # r
          /\ 0 # r
      BY <1>4, <1>5, RunFacts DEF OInv
    <3>4. ASSUME NEW p \in Operations
          PROVE  /\ files[p]["destination"] = "ours" =>
                      \/ files'[p]["destination"] = "ours" \/ p \in touched'
                      \/ \A q \in RunIds : ~Closed(q) => Undone(q, p)'
                 /\ files[p]["source"] = "ours" =>
                      \/ files'[p]["source"] = "ours" \/ p \in touched'
                      \/ \A q \in RunIds : Closed(q) => Accounted(q, p)'
                 /\ files'[p]["destination"] = "ours" =>
                      files[p]["destination"] = "ours" \/ Accounted(0, p)'
      <4>1. CASE p # o
        BY <1>7, <4>1
      <4>2. CASE p = o /\ Rollback(r)
        BY <1>7, <2>1, <2>2, <3>1, <4>2
      <4>3. CASE p = o /\ ~Rollback(r)
        BY <1>7, <2>1, <2>2, <3>2, <3>3, <4>3
      <4> QED
        BY <4>1, <4>2, <4>3
    <3> QED
      BY <3>4 DEF FilesFollow
  <2>6. RunsInv'
    BY <2>3, <2>4, <2>5, RunsStay, SameRecords DEF SInv, ClosedStays, Closed
  <2>7. /\ Wanted(r)' = Wanted(r) /\ Live(r)' = Live(r) /\ To(r)' = To(r)
    BY <1>2, <1>4, <1>5, OpenRun
  <2>8. Remains(workers[w], r)'
    BY <1>1, <1>2, <1>3, <1>4, <1>5, <1>7, <2>4, <2>7 DEF Remains, InHand
  <2>9. Knows(workers[w], r)'
    BY <1>2, <1>4, <1>5, <1>7, <2>2, <2>4, <2>7 DEF Knows
  <2>10. ~Closed(r)'
    BY <1>4, <1>5, <2>4 DEF Closed
  <2>11. WorkInv(workers[w], r)'
    BY <1>7, <2>8, <2>9, <2>10 DEF WorkInv, InHand
  <2> QED
    BY <2>3, <2>6, <2>11 DEF After
<1> QED
  BY <1>2, <1>6, <1>7

-----------------------------------------------------------------------------
(* One worker: the invariant.                                              *)

\* A step of the handler.
LEMMA InsideKeeps ==
  ASSUME OInv, SInv, NEW w \in Workers, Workers = {w}, UNCHANGED plan, Steps(w),
         workers[w].pc \in HandlerPoints, workers'[w].job = workers[w].job,
         NEW r, r = RunOf(w), After(w, r)
  PROVE  SInv'
<1>1. RunIds' = RunIds /\ \A q \in RunIds : runs'[q].job = runs[q].job
  BY DEF Steps
<1>2. workers[w].job \in Ids
  BY HandlerFacts
<1>3. \A q \in RunIds : runs[q].job = workers[w].job => q = r
  BY <1>2, RunOfJob DEF OInv, LinkInv, Job
<1>4. ASSUME NEW q \in RunIds', workers'[w].pc \in HandlerPoints, runs'[q].job = workers'[w].job
      PROVE  WorkInv(workers[w], q)'
  <2>1. q = r
    BY <1>1, <1>3, <1>4
  <2> QED
    BY <1>4, <2>1 DEF After
<1>5. WorkersInv'
  BY <1>4 DEF WorkersInv
<1> QED
  BY <1>5 DEF After, SInv

\* A step that writes none of the files and runs.
LEMMA SameTruth ==
  ASSUME OInv, SInv, UNCHANGED <<plan, runs, files, touched, obscured>>
  PROVE  FilesInv' /\ RunsInv' /\ FilesKept /\ RunsKept
<1>1. FilesKept /\ RunsKept /\ RunIds' = RunIds
  BY DEF FilesKept, RunsKept, RunIds
<1>2. FilesInv'
  BY SameTypes DEF SInv, FilesInv
<1>3. RunsInv'
  BY <1>1, <1>2, KeptFollow, SameRecords, RunsStay DEF SInv, ClosedStays, Closed
<1> QED
  BY <1>1, <1>2, <1>3

LEMMA WorkerKeeps ==
  ASSUME OInv, SInv, NEW w \in Workers, Workers = {w}, UNCHANGED <<plan, touched>>,
         WorkerMoves(w)
  PROVE  SInv'
<1>1. Steps(w)
  BY WorkerSteps
<1>2. PICK r : r = RunOf(w)
  OBVIOUS
<1>3. ASSUME workers[w].pc \in HandlerPoints, Goes(w, workers'[w].pc, workers'[w].local), After(w, r)
      PROVE  SInv'
  BY <1>1, <1>2, <1>3, InsideKeeps DEF Goes
<1>4. CASE EngineMoves(w) /\ ~Load(w) /\ UNCHANGED obscured
  <2>1. CASE Begin(w)
    BY <1>2, <1>3, <1>4, <2>1, BeginAfter, BeginStep DEF HandlerPoints
  <2>2. CASE StartRun(w)
    BY <1>2, <1>3, <1>4, <2>2, PlainAfter, StartStep DEF HandlerPoints
  <2>3. CASE List(w)
    BY <1>2, <1>3, <1>4, <2>3, ListAfter, ListStep DEF HandlerPoints
  <2>4. CASE TakeOperation(w)
    BY <1>2, <1>3, <1>4, <2>4, TakeAfter, TakeStep DEF HandlerPoints
  <2>5. CASE InterruptRun(w)
    BY <1>2, <1>3, <1>4, <2>5, PlainAfter, InterruptStep DEF HandlerPoints
  <2>6. CASE Leave(w)
    BY <1>2, <1>3, <1>4, <2>6, PlainAfter, LeaveStep DEF HandlerPoints
  <2>7. CASE RecordRunItem(w)
    BY <1>2, <1>3, <1>4, <2>7, RecordAfter, RecordStep DEF HandlerPoints
  <2>8. CASE ReportItem(w)
    BY <1>2, <1>3, <1>4, <2>8, ReportAfter, ReportStep DEF HandlerPoints
  <2>9. CASE CloseRun(w)
    BY <1>2, <1>3, <1>4, <2>9, CloseAfter, CloseStep DEF HandlerPoints
  <2>10. CASE FailRun(w)
    BY <1>2, <1>3, <1>4, <2>10, PlainAfter, FailStep DEF HandlerPoints
  <2>11. CASE Recheck(w)
    BY <1>2, <1>3, <1>4, <2>11, RecheckAfter, RecheckStep DEF HandlerPoints
  <2>12. CASE Rename(w)
    BY <1>2, <1>3, <1>4, <2>12, RenameAfter, RenameStep DEF HandlerPoints
  <2>13. CASE Verify(w)
    BY <1>2, <1>3, <1>4, <2>13, VerifyAfter, VerifyStep DEF HandlerPoints
  <2> QED
    BY <1>4, <2>1, <2>2, <2>3, <2>4, <2>5, <2>6, <2>7, <2>8, <2>9, <2>10, <2>11, <2>12, <2>13
       DEF EngineMoves
<1>5. CASE Inspect(w)
  BY <1>2, <1>3, <1>5, InspectAfter, InspectStep DEF HandlerPoints
<1>6. CASE (Load(w) \/ ProcessMoves(w)) /\ UNCHANGED <<runs, files, obscured>>
  <2>1. FilesInv' /\ RunsInv'
    BY <1>6, SameTruth
  <2>2. workers'[w].pc \in Points \cup {"begin"}
    BY <1>6, OutsideSteps
  <2>3. WorkersInv'
    BY <2>2 DEF WorkersInv, WorkInv, Points, HandlerPoints, InHand
  <2> QED
    BY <2>1, <2>3 DEF SInv
<1> QED
  BY <1>4, <1>5, <1>6 DEF WorkerMoves, Load

\* A step of no worker, or the end of one.
LEMMA ElsewhereKeeps ==
  ASSUME OInv, OInv', SInv, UNCHANGED plan, FilesKept, FilesInv', RunsKept,
         \A q \in RunIds : /\ runs'[q].items = runs[q].items
                           /\ Closed(q) <=> Closed(q)',
         \A q \in RunIds' : q \notin RunIds => RunTruth(q)',
         \A v \in Workers : workers'[v] = workers[v] \/ workers'[v].pc = "down"
  PROVE  SInv'
<1>1. RunsInv'
  BY KeptFollow, SameRecords, RunsStay DEF SInv, ClosedStays
<1>2. ASSUME NEW v \in Workers, NEW q \in RunIds', workers'[v].pc \in HandlerPoints,
             runs'[q].job = workers'[v].job
      PROVE  WorkInv(workers[v], q)'
  <2>1. workers'[v] = workers[v]
    BY <1>2 DEF HandlerPoints
  <2>2. q \in RunIds /\ runs[q].job = workers[v].job
    <3>1. workers[v].job \in Ids /\ workers[v].job # 0
      BY <1>2, <2>1, HandlerFacts DEF OInv, LinkInv, Bounded
    <3>2. PICK p \in RunIds : runs[p].job = workers[v].job
      BY <3>1 DEF OInv, JobsInv
    <3>3. p \in RunIds' /\ runs'[p].job = workers[v].job
      BY <3>1, <3>2 DEF RunsKept
    <3>4. RunIds' \subseteq 1 .. MaxRuns
      BY RunsBounded DEF OInv, RunsTyped, RunIds
    <3>5. \A i \in RunIds' : runs'[i].job # 0 => jobs'[runs'[i].job].sub = SubmissionOf[i]
      BY DEF OInv, JobsInv
    <3>6. q = p
      BY <1>2, <2>1, <3>1, <3>3, <3>4, <3>5, OneRun DEF RunIds
    <3> QED
      BY <3>2, <3>6
  <2>3. WorkInv(workers[v], q) /\ ModeInv(q)
    BY <1>2, <2>1, <2>2 DEF SInv, WorkersInv, RunsInv, RunTruth
  <2>4. /\ runs'[q].items = runs[q].items /\ (Closed(q) <=> Closed(q)')
        /\ runs'[q].mode = runs[q].mode /\ runs'[q].sourceRun = runs[q].sourceRun
    BY <2>2 DEF RunsKept
  <2>5. /\ Rollback(q)' = Rollback(q) /\ Live(q)' = Live(q)
        /\ From(q)' = From(q) /\ To(q)' = To(q)
    BY <2>4 DEF Rollback, Live, From, To
  <2>6. Wanted(q)' = Wanted(q)
    <3>1. Rollback(q) => runs[q].sourceRun \in RunIds
      BY <2>3 DEF ModeInv
    <3> QED
      BY <2>4, <2>5, <3>1, SameTypes DEF Wanted, HasMoved
  <2>7. Remains(workers[v], q) => Remains(workers[v], q)'
    BY <2>1, <2>4, <2>6 DEF Remains
  <2>8. ASSUME workers[v].pc \in InHand PROVE Knows(workers[v], q)'
    <3>1. PICK o : o = workers[v].local.op
      OBVIOUS
    <3>2. Knows(workers[v], q) /\ o \in Operations
      BY <2>3, <2>8, <3>1 DEF WorkInv, Knows, Wanted
    <3>3. /\ o \in touched => o \in touched'
          /\ o \in touched \cup obscured => o \in touched' \cup obscured'
          /\ \A p \in Paths : files[o][p] = "ours" => files'[o][p] = "ours" \/ o \in touched'
      BY <3>2 DEF FilesKept
    <3>4. From(q) \in Paths /\ To(q) \in Paths /\ "source" \in Paths /\ "destination" \in Paths
      BY DEF From, To, Paths
    <3>5. PICK outcome : outcome = workers[v].local.outcome
      OBVIOUS
    <3>6. ASSUME TrueOutcome(q, o, outcome), runs[q].items[o] = "none"
          PROVE  TrueOutcome(q, o, outcome)'
      <4>1. \A p \in RunIds : ModeInv(p)
        BY DEF SInv, RunsInv, RunTruth
      <4>2. Undone(q, o) => Undone(q, o)'
        BY <3>2, <4>1, UndoneStays, SameRecords
      <4>3. PICK s : s = runs[q].sourceRun
        OBVIOUS
      <4>4. Accounted(s, o) => Accounted(s, o)' \/ o \in touched' \/ files'[o]["source"] = "ours"
        BY <3>2, AccountedStays, SameRecords DEF FilesKept
      <4>5. Accounted(s, o) <=> Accounted(runs[q].sourceRun, o)
        BY <4>3
      <4>6. Accounted(s, o)' <=> Accounted(runs[q].sourceRun, o)'
        BY <2>4, <4>3 DEF Accounted
      <4>7. outcome' = outcome
        BY <2>1, <3>5
      <4> QED
        BY <2>4, <3>3, <3>4, <3>6, <4>2, <4>4, <4>5, <4>6, <4>7 DEF TrueOutcome
    <3> QED
      BY <2>1, <2>4, <2>5, <2>6, <3>1, <3>2, <3>3, <3>4, <3>5, <3>6 DEF Knows
  <2> QED
    BY <2>1, <2>3, <2>4, <2>6, <2>7, <2>8 DEF WorkInv
<1> QED
  BY <1>1, <1>2 DEF SInv, WorkersInv

LEMMA ServerKeeps ==
  ASSUME OInv, OInv', SInv, UNCHANGED plan, Server
  PROVE  SInv'
<1>1. UNCHANGED <<workers, files, touched, obscured>>
  BY DEF Server, history
<1>2. FilesKept /\ FilesInv'
  BY <1>1, SameTypes DEF FilesKept, SInv, FilesInv
<1>3. ASSUME NEW mode \in plan.modes, NEW src \in {0} \cup RunIds, CreateRun(mode, src)
      PROVE  SInv'
  <2> DEFINE n == Len(runs) + 1
  <2>1. PICK m : m = n
    OBVIOUS
  <2>2. /\ RunsKept /\ RunIds' = RunIds \cup {m} /\ m \notin RunIds
        /\ \A r \in RunIds : runs'[r] = runs[r]
        /\ runs'[m] = NewRun(mode, src)
    BY <1>3, <2>1, CreateEffect
  <2> HIDE DEF n
  <2>3. /\ runs'[m].mode = mode /\ runs'[m].sourceRun = src
        /\ runs'[m].items = [o \in Operations |-> "none"]
    BY <2>2 DEF NewRun
  <2>4. /\ startRun(mode, src) \/ startRollback(mode, src)
        /\ 0 \notin RunIds
    BY <1>3, RunFacts DEF CreateRun, OInv
  <2>5. ModeInv(m)'
    <3>1. CASE startRun(mode, src)
      BY <2>3, <3>1 DEF startRun, ModeInv, Rollback
    <3>2. CASE startRollback(mode, src)
      BY <2>2, <2>3, <2>4, <3>2 DEF startRollback, ModeInv, Rollback, Closed
    <3> QED
      BY <2>4, <3>1, <3>2
  <2>6. \A o \in Operations : runs'[m].items[o] = "none"
    BY <2>3
  <2>7. ASSUME NEW o \in Operations
        PROVE  runs'[m].items[o] \in OutcomesOf(runs'[m].mode) /\ TrueOutcome(m, o, runs[m].items[o])'
    BY <2>6 DEF OutcomesOf, TrueOutcome, Successes
  <2>8. RunTruth(m)'
    BY <2>5, <2>7, SameTypes DEF RunTruth
  <2> QED
    BY <1>1, <1>2, <2>2, <2>8, ElsewhereKeeps DEF Closed
<1>4. ASSUME NEW r \in RunIds, SubmitRun(r)
      PROVE  SInv'
  <2>1. /\ RunsKept /\ RunIds' = RunIds
        /\ \A q \in RunIds \ {r} : runs'[q] = runs[q]
        /\ runs'[r].items = runs[r].items /\ runs'[r].status \in {runs[r].status, "failed"}
        /\ runs[r].status = "queued"
    BY <1>4, SubmitRunEffect
  <2>2. \A q \in RunIds : runs'[q].items = runs[q].items /\ (Closed(q) <=> Closed(q)')
    BY <2>1 DEF Closed
  <2> QED
    BY <1>1, <1>2, <2>1, <2>2, ElsewhereKeeps
<1> QED
  BY <1>3, <1>4 DEF Server

\* A step that leaves the runs, and the files but for what the user does.
LEMMA QuietKeeps ==
  ASSUME OInv, OInv', SInv, UNCHANGED <<plan, runs>>, FilesKept, FilesInv',
         \A v \in Workers : workers'[v] = workers[v] \/ workers'[v].pc = "down"
  PROVE  SInv'
<1>1. RunsKept /\ RunIds' = RunIds
  BY SameRuns
<1> QED
  BY <1>1, ElsewhereKeeps DEF Closed

LEMMA EditKeeps ==
  ASSUME OInv, SInv, UNCHANGED plan, NEW o \in Operations, NEW path \in Paths, Edit(o, path)
  PROVE  FilesKept /\ FilesInv'
<1>1. /\ \A p \in Operations : p # o => files'[p] = files[p]
      /\ \A q \in Paths : files'[o][q] = IF q = path
                                         THEN IF files[o][q] = "other" THEN "absent" ELSE "other"
                                         ELSE files[o][q]
  BY EditFiles
<1>2. IF files[o][path] = "ours" THEN touched' = touched \cup {o} /\ UNCHANGED obscured
      ELSE obscured' = obscured \cup {o} /\ UNCHANGED touched
  BY DEF Edit
<1>3. FilesKept
  <2>1. ASSUME NEW p \in Operations, NEW q \in Paths, files[p][q] = "ours"
        PROVE  files'[p][q] = "ours" \/ p \in touched'
    BY <1>1, <1>2, <2>1
  <2>2. ASSUME NEW p \in Operations, NEW q \in Paths, files'[p][q] = "ours"
        PROVE  files[p][q] = "ours"
    BY <1>1, <2>2
  <2> QED
    BY <1>2, <2>1, <2>2 DEF FilesKept
<1>4. ASSUME NEW p \in Operations
      PROVE  /\ p \notin touched' =>
                  ((files'[p]["source"] = "ours") <=> (files'[p]["destination"] # "ours"))
             /\ p \notin touched' \cup obscured' =>
                  "other" \notin {files'[p]["source"], files'[p]["destination"]}
  <2>1. /\ p \notin touched => ((files[p]["source"] = "ours") <=> (files[p]["destination"] # "ours"))
        /\ p \notin touched \cup obscured => "other" \notin {files[p]["source"], files[p]["destination"]}
    BY DEF SInv, FilesInv
  <2>2. CASE p # o
    BY <1>1, <1>2, <2>1, <2>2
  <2>3. CASE p = o
    <3>1. CASE files[o][path] = "ours"
      BY <1>2, <2>3, <3>1
    <3>2. CASE files[o][path] # "ours"
      <4>1. p \in obscured' /\ (p \notin touched' => p \notin touched)
        BY <1>2, <2>3, <3>2
      <4>2. /\ files'[p]["source"] = "ours" <=> files[p]["source"] = "ours"
            /\ files'[p]["destination"] = "ours" <=> files[p]["destination"] = "ours"
        BY <1>1, <2>3, <3>2 DEF Paths
      <4> QED
        BY <2>1, <4>1, <4>2
    <3> QED
      BY <3>1, <3>2
  <2> QED
    BY <2>2, <2>3
<1>5. FilesInv'
  BY <1>4, SameTypes DEF FilesInv
<1> QED
  BY <1>3, <1>5

LEMMA SInvInit == OInit => SInv
<1> SUFFICES ASSUME OInit PROVE SInv
  OBVIOUS
<1>1. FilesInv
  BY DEF OInit, FilesInv, Paths
<1>2. RunIds = {}
  BY DEF OInit, RunIds
<1> QED
  BY <1>1, <1>2 DEF SInv, RunsInv, WorkersInv, ReceiptsInv, OInit, Paths

LEMMA SInvNext ==
  ASSUME OInv, OInv', SInv, NEW x, Workers = {x}, [ONext]_vars
  PROVE  SInv'
<1>1. ASSUME UNCHANGED <<plan, runs, files, touched, obscured>>,
             \A v \in Workers : workers'[v] = workers[v] \/ workers'[v].pc = "down"
      PROVE  SInv'
  BY <1>1, SameTruth, QuietKeeps
<1>2. CASE UNCHANGED vars
  BY <1>1, <1>2 DEF vars, history
<1>3. CASE UNCHANGED plan /\ Server
  BY <1>3, ServerKeeps
<1>4. ASSUME UNCHANGED <<plan, touched>>, NEW w \in Workers, WorkerMoves(w)
      PROVE  SInv'
  BY <1>4, WorkerKeeps
<1>5. ASSUME NEW w \in Workers, Crash(w), UNCHANGED <<plan, runs, files, gate, history, late>>
      PROVE  SInv'
  BY <1>1, <1>5, OInvCrash DEF history
<1>6. CASE Tick /\ UNCHANGED <<plan, workers, crashes, runs, files, gate, history, late>>
  BY <1>1, <1>6 DEF history
<1>7. CASE UNCHANGED <<plan, workers, crashes, runs>> /\ User
  <2>1. CASE Control /\ UNCHANGED <<files, gate, history, late>>
    BY <1>1, <1>7, <2>1 DEF history
  <2>2. CASE MoveGate /\ UNCHANGED <<jobs, files, touched, obscured>>
    BY <1>1, <1>7, <2>2
  <2>3. CASE \E o \in Operations, path \in Paths : Edit(o, path)
    BY <1>7, <2>3, EditKeeps, QuietKeeps
  <2> QED
    BY <1>7, <2>1, <2>2, <2>3 DEF User
<1> QED
  BY <1>2, <1>3, <1>4, <1>5, <1>6, <1>7 DEF ONext

LEMMA SInvAlways ==
  ASSUME NEW x, Workers = {x}
  PROVE  OSpec => []SInv
<1>1. OInv /\ OInv' /\ SInv /\ [ONext]_vars => SInv'
  BY SInvNext
<1> QED
  BY <1>1, SInvInit, OInvAlways, PTL DEF OSpec

-----------------------------------------------------------------------------
(* One worker: what a run that has closed says of the files.               *)

\* Only the worker of a run closes it.
LEMMA WhoCloses ==
  ASSUME OInv, [ONext]_vars, NEW r \in RunIds, Closes(r, {"completed", "partial"})
  PROVE  UNCHANGED plan /\ \E w \in Workers : CloseRun(w) /\ r = RunOf(w)
<1>1. runs'[r].status # runs[r].status /\ runs'[r].status \in {"completed", "partial"}
  BY DEF Closes
<1>2. ASSUME NEW q, NEW s, NEW items, Written(q, s, items)
      PROVE  r = q /\ runs'[r].status = s
  BY <1>1, <1>2 DEF Written
<1>3. ~(UNCHANGED vars)
  BY <1>1 DEF vars
<1>4. ASSUME UNCHANGED plan, Server PROVE FALSE
  <2>1. ASSUME NEW mode \in plan.modes, NEW src \in {0} \cup RunIds, CreateRun(mode, src)
        PROVE  FALSE
    BY <1>1, <1>4, <2>1, CreateEffect
  <2>2. ASSUME NEW q \in RunIds, SubmitRun(q) PROVE FALSE
    <3>1. CASE q = r
      BY <1>1, <1>4, <2>2, <3>1, SubmitRunEffect
    <3>2. CASE q # r
      BY <1>1, <1>4, <2>2, <3>2, SubmitRunEffect
    <3> QED
      BY <3>1, <3>2
  <2> QED
    BY <1>4, <2>1, <2>2 DEF Server
<1>5. ASSUME UNCHANGED plan, NEW w \in Workers, WorkerMoves(w)
      PROVE  CloseRun(w) /\ r = RunOf(w)
  <2>1. ~Looks(RunOf(w)) /\ \A s : Sets(RunOf(w), s, runs[RunOf(w)].items) =>
                                     r = RunOf(w) /\ runs'[r].status = s
    BY <1>1, <1>2 DEF Looks, Sets
  <2>2. ~(UNCHANGED runs)
    BY <1>1
  <2>3. EngineMoves(w) /\ ~Load(w)
    BY <1>5, <2>1, <2>2, InspectStep DEF WorkerMoves, Load
  <2>4. ~Begin(w) /\ ~List(w) /\ ~TakeOperation(w) /\ ~Leave(w) /\ ~ReportItem(w)
        /\ ~Recheck(w) /\ ~Verify(w) /\ ~Rename(w)
    BY <1>5, <2>2 DEF Begin, List, TakeOperation, Leave, ReportItem, Recheck, Verify, Rename
  <2>5. ~StartRun(w)
    BY <1>1, <1>5, <2>1, StartStep
  <2>6. ~InterruptRun(w)
    BY <1>1, <1>5, <2>1, InterruptStep
  <2>7. ~FailRun(w)
    BY <1>1, <1>5, <2>1, FailStep
  <2>8. ~RecordRunItem(w)
    BY <1>1, <1>2, <1>5, RecordStep DEF Sets
  <2>9. CloseRun(w)
    BY <2>3, <2>4, <2>5, <2>6, <2>7, <2>8 DEF EngineMoves
  <2> QED
    BY <1>5, <2>1, <2>9, CloseStep
<1> QED
  BY <1>1, <1>3, <1>4, <1>5 DEF ONext

\* What is known when a run closes.
LEMMA Closing ==
  ASSUME OInv, SInv, [ONext]_vars, NEW r \in RunIds, Closes(r, {"completed", "partial"})
  PROVE  /\ ~Closed(r) /\ RunTruth(r)
         /\ \A o \in Wanted(r) : runs[r].items[o] # "none"
         /\ runs'[r].status = "completed" =>
              \A o \in Operations : runs[r].items[o] \notin {"skipped", "failed"}
         /\ UNCHANGED files
<1>1. PICK w \in Workers : CloseRun(w) /\ r = RunOf(w)
  BY WhoCloses
<1>2. /\ workers[w].pc = "close"
      /\ Sets(r, IF \E o \in Operations : runs[r].items[o] \in {"skipped", "failed"}
                 THEN "partial" ELSE "completed", runs[r].items)
  BY <1>1, WhoCloses, CloseStep
<1>3. WorkInv(workers[w], r)
  BY <1>1, <1>2, KnownBefore DEF HandlerPoints
<1>4. ~Closed(r) /\ (\A o \in Wanted(r) : runs[r].items[o] # "none") /\ RunTruth(r)
  BY <1>2, <1>3 DEF WorkInv, HandlerPoints, SInv, RunsInv
<1>5. runs'[r].status = "completed" =>
              \A o \in Operations : runs[r].items[o] \notin {"skipped", "failed"}
  BY <1>2 DEF Sets, Written
<1> QED
  BY <1>2, <1>4, <1>5 DEF Sets

\* When a live run closes, its receipts and the files agree, but for what a second live run
\* has done: what it has receipts for is at the destinations, or another run has been rolled
\* back, and what is there has its receipt, here or in another live run.
THEOREM RunsAccounted ==
  ASSUME NEW x, Workers = {x}
  PROVE  OSpec => ClosedRunAccountsForEveryMove
<1> DEFINE Accounts ==
      \A r \in RunIds : Closes(r, {"completed", "partial"}) /\ runs[r].mode = "live" =>
        \A o \in Operations \ (touched \cup obscured) :
          /\ HasMoved(r, o) => files[o]["destination"] = "ours" \/ Undone(r, o)
          /\ files[o]["destination"] = "ours" => HasMoved(r, o) \/ Accounted(r, o)
<1>1. ASSUME OInv, SInv, [ONext]_vars PROVE Accounts
  <2> SUFFICES ASSUME NEW r \in RunIds, Closes(r, {"completed", "partial"}), runs[r].mode = "live",
                      NEW o \in Operations \ (touched \cup obscured)
               PROVE  /\ HasMoved(r, o) => files[o]["destination"] = "ours" \/ Undone(r, o)
                      /\ files[o]["destination"] = "ours" => HasMoved(r, o) \/ Accounted(r, o)
    OBVIOUS
  <2>1. ~Closed(r) /\ RunTruth(r) /\ \A p \in Wanted(r) : runs[r].items[p] # "none"
    BY <1>1, Closing
  <2>2. runs[r].items[o] # "none"
    BY <2>1 DEF RunTruth, ModeInv, Wanted
  <2>3. TrueOutcome(r, o, runs[r].items[o])
    BY <2>1 DEF RunTruth
  <2>4. HasMoved(r, o) => files[o]["destination"] = "ours" \/ Undone(r, o)
    BY <2>1, <2>3 DEF TrueOutcome, HasMoved
  <2>5. ASSUME files[o]["destination"] = "ours" PROVE HasMoved(r, o) \/ Accounted(r, o)
    \* The receipt is that of some live run; this one has nothing left to look at.
    <3>1. PICK s \in RunIds : /\ runs[s].mode = "live"
                              /\ HasMoved(s, o) \/ runs[s].items[o] = "none"
      BY <1>1, <2>5 DEF SInv, RunsInv, ReceiptsInv, Accounted
    <3> QED
      BY <2>2, <3>1 DEF Accounted
  <2> QED
    BY <2>4, <2>5
<1>2. OSpec => [][ONext]_vars
  BY DEF OSpec
<1>3. OInv /\ SInv /\ [ONext]_vars => [Accounts]_vars
  BY <1>1
<1>4. ClosedRunAccountsForEveryMove <=> [][Accounts]_vars
  BY DEF ClosedRunAccountsForEveryMove
<1> HIDE DEF Accounts
<1> QED
  BY <1>2, <1>3, <1>4, OInvAlways, SInvAlways, PTL

\* A rollback that closes as completed has brought back every file that its live run
\* moved, but for those that the user has touched or that another live run moves again.
THEOREM RollbacksRestore ==
  ASSUME NEW x, Workers = {x}
  PROVE  OSpec => CompletedRollbackRestoresAll
<1> DEFINE Restores ==
      \A r \in RunIds : Closes(r, {"completed"}) /\ runs[r].mode = "rollback-live" =>
        \A o \in Operations \ touched :
          HasMoved(runs[r].sourceRun, o) =>
            files[o]["source"] = "ours" \/ Accounted(runs[r].sourceRun, o)
<1>1. ASSUME OInv, SInv, [ONext]_vars PROVE Restores
  <2> SUFFICES ASSUME NEW r \in RunIds, Closes(r, {"completed"}), runs[r].mode = "rollback-live",
                      NEW o \in Operations \ touched, HasMoved(runs[r].sourceRun, o)
               PROVE  files[o]["source"] = "ours" \/ Accounted(runs[r].sourceRun, o)
    OBVIOUS
  <2>1. Closes(r, {"completed", "partial"}) /\ runs'[r].status = "completed"
    BY DEF Closes
  <2>2. /\ RunTruth(r) /\ \A p \in Wanted(r) : runs[r].items[p] # "none"
        /\ runs[r].items[o] \notin {"skipped", "failed"}
    BY <1>1, <2>1, Closing
  <2>3. o \in Wanted(r)
    BY DEF Wanted
  <2>4. runs[r].items[o] \in Successes("rollback-live") /\ TrueOutcome(r, o, runs[r].items[o])
    BY <2>2, <2>3 DEF RunTruth, OutcomesOf
  <2> QED
    BY <2>4 DEF TrueOutcome
<1>2. OSpec => [][ONext]_vars
  BY DEF OSpec
<1>3. OInv /\ SInv /\ [ONext]_vars => [Restores]_vars
  BY <1>1
<1>4. CompletedRollbackRestoresAll <=> [][Restores]_vars
  BY DEF CompletedRollbackRestoresAll
<1> HIDE DEF Restores
<1> QED
  BY <1>2, <1>3, <1>4, OInvAlways, SInvAlways, PTL
=============================================================================
