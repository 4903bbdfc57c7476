----------------------------- MODULE IngestPlan -----------------------------
(***************************************************************************)
(* The life of one ingest plan in transfers.sqlite: createIngestPlan,      *)
(* resolveItem and approve of src/transfer/transfer-service.ts, which run  *)
(* in the server, and the handler of ingest.analyze in                     *)
(* src/transfer/ingest-analysis-job.ts, which lists the source, a          *)
(* directory at a time, and then reads and classifies the files, a page at *)
(* a time.                                                                 *)
(*                                                                         *)
(* Every call to the store is a step, and so is each look at a file. The   *)
(* plan is moved by the server, by the analysis and by the transfer, each  *)
(* on its own, and no write looks at the status that it replaces.          *)
(*                                                                         *)
(* Abstractions. A file is a version of its content, 0 when it is absent;  *)
(* links and other devices are not listed, and absent here. The transfer   *)
(* of what is ready is one step, and so is approve(): their own steps are  *)
(* in TransferExecution. The checkpoint is 0 in the discovery and then 2   *)
(* more than afterOrdinal; its counters are left out.                      *)
(***************************************************************************)
EXTENDS WorkerProcess

CONSTANTS
  Root,        \* the ingest source, as a path
  Children,    \* the paths that can be in each directory
  NoDir,       \* the directory of a worker that lists none
  Duplicates,  \* the files whose first content an enrolled library has
  Unsure,      \* the files whose type is not known well enough
  BatchSize,   \* files recorded together
  PageSize,    \* items read together
  MaxActs      \* bound: what the user does to files, approval and items

Dirs == DOMAIN Children
Files == (UNION {Children[d] : d \in Dirs}) \ Dirs
Paths == Dirs \cup Files
Ordinals == 0 .. Cardinality(Files) - 1

ASSUME IngestAssumption ==
  /\ Root \in Dirs /\ NoDir \notin Paths /\ Paths \subseteq Nat /\ IsFiniteSet(Paths)
  /\ \A S \in SUBSET Dirs : Root \in S /\ (\A d \in S : Children[d] \cap Dirs \subseteq S) => S = Dirs
  /\ Duplicates \subseteq Files /\ Unsure \subseteq Files
  /\ BatchSize \in Nat \ {0} /\ PageSize \in Nat \ {0} /\ MaxActs \in Nat
  /\ MaxUnits >= Cardinality(Files) + 1
  /\ NoLocal = [dir |-> NoDir, todo |-> {}, batch |-> {}, after |-> -1, item |-> NoDir,
                review |-> FALSE]

VARIABLES
  plan,      \* status in transfer_plans
  dirs,      \* transfer_directories
  items,     \* transfer_items
  disk,      \* the version of each file, and whether each directory is there
  approval,  \* the source is "approved", or it is "revoked" or away
  request,   \* how far createIngestPlan has come, and a resolveItem under way
  acts,      \* how often the user has acted
  touched,   \* the paths that the user has changed
  early      \* has a review set the status of the plan while it was analysed?

db == <<plan, dirs, items>>
user == <<disk, approval, request, acts, touched, early>>
vars == <<jobs, workers, crashes, db, user>>

PlanStatuses == {"none", "analysis-queued", "analyzing", "needs-review", "ready-for-approval",
                 "approved", "transfer-queued", "completed", "partial", "failed"}
ItemStatuses == {"none", "discovered", "exact-duplicate", "ready", "needs-review", "completed",
                 "failed"}
Versions == 0 .. MaxActs + 1

NoItem == [status |-> "none", ordinal |-> 0, seen |-> 0, digest |-> 0]

Listed == {f \in Files : items[f].status # "none"}
With(status) == {f \in Files : items[f].status = status}

setPlanState(status) == plan' = status
setItemState(f, status) == items' = [items EXCEPT ![f].status = status]

-----------------------------------------------------------------------------
(* The store.                                                              *)

addDirectory(d) == dirs' = [dirs EXCEPT ![d] = IF @ = "none" THEN "pending" ELSE @]

\* Faulty: a directory that was being listed when a worker died stays so.
OpenDiscovery_NoReset == addDirectory(Root)

\* addDirectory of the root, and resetScanningDirectories.
OpenDiscovery ==
  dirs' = [d \in Dirs |-> IF dirs[d] = "scanning" \/ (d = Root /\ dirs[d] = "none")
                          THEN "pending" ELSE dirs[d]]

Pending == {d \in Dirs : dirs[d] = "pending"}

\* Faulty: the ordinals of a batch start again from the first.
addDiscoveredItems_FromZero(batch) ==
  LET new == {found \in batch : items[found.file].status = "none"}
  IN items' = [f \in Files |->
       IF \E found \in new : found.file = f
       THEN [status |-> "discovered", ordinal |-> 0, digest |-> 0,
             seen |-> (CHOOSE found \in new : found.file = f).seen]
       ELSE items[f]]

\* Files are listed once, in some order, behind those that are already.
addDiscoveredItems(batch) ==
  LET new == {found \in batch : items[found.file].status = "none"}
      count == Cardinality(Listed)
  IN \E order \in [new -> count .. count + Cardinality(new) - 1] :
       /\ \A x, y \in new : order[x] = order[y] => x = y
       /\ items' = [f \in Files |->
            IF \E found \in new : found.file = f
            THEN LET found == CHOOSE found \in new : found.file = f
                 IN [status |-> "discovered", ordinal |-> order[found], seen |-> found.seen,
                     digest |-> 0]
            ELSE items[f]]

\* The first items after the cursor that are still to be analysed.
workItems(after) ==
  LET rest == {f \in With("discovered") : items[f].ordinal > after}
  IN {f \in rest : Cardinality({g \in rest : items[g].ordinal <= items[f].ordinal}) <= PageSize}

-----------------------------------------------------------------------------
(* The handler of ingest.analyze.                                          *)

Found == [file : Files, seen : Versions]
Locals == [dir : Dirs \cup {NoDir}, todo : SUBSET Paths, batch : SUBSET Found,
           after : -1 .. Cardinality(Files) - 1, item : Files \cup {NoDir}, review : BOOLEAN]
Nothing == [dir |-> NoDir, todo |-> {}, batch |-> {}, after |-> -1, item |-> NoDir,
            review |-> FALSE]

HandlerPoints ==
  {"start", "validate", "discover", "checkDir", "read", "saveDir", "reportDir", "savePhase",
   "checkPage", "checkItem", "hash", "save", "report", "count", "close", "failPlan", "transfer"}

Local(w) == workers[w].local
Dir(w) == Local(w).dir
Ordinal(f) == items[f].ordinal

Load(w) ==
  /\ LoadJob(w, IF jobs[Job(w)].sub.kind = "analyze" THEN "start" ELSE "transfer", Nothing)
  /\ UNCHANGED db

\* A plan that has its analysis is left alone.
Start(w) ==
  /\ At(w, "start") /\ UNCHANGED <<jobs, dirs, items>>
  /\ IF plan \in {"ready-for-approval", "needs-review", "completed"}
     THEN Goto(w, "finish") /\ UNCHANGED plan
     ELSE Goto(w, "validate") /\ setPlanState("analyzing")

Validate(w) ==
  /\ At(w, "validate") /\ UNCHANGED <<jobs, db>>
  /\ IF approval # "approved" THEN Goto(w, "failPlan")
     ELSE IF workers[w].saved = 0 THEN Goto(w, "discover")
     ELSE Continue(w, "checkPage", [Nothing EXCEPT !.after = workers[w].saved - 2])

Discover(w) ==
  /\ At(w, "discover") /\ Goto(w, "checkDir") /\ UNCHANGED <<jobs, plan, items>>
  /\ OpenDiscovery

\* throwIfControlRequested; a lost lease ends in the catch of run().
Controlled(w, next) ==
  CASE controlSignal(w) = "stale" -> Goto(w, "failPlan")
    [] controlSignal(w) = "cancel" -> Goto(w, "ackCancel")
    [] controlSignal(w) = "pause" -> Goto(w, "ackPause")
    [] OTHER -> next

\* The next directory, by name, which must still be there; the entries that
\* the enumeration will find.
ClaimDirectory(w) ==
  /\ At(w, "checkDir") /\ UNCHANGED <<jobs, plan, items>>
  /\ \/ controlSignal(w) # "continue" /\ Controlled(w, FALSE) /\ UNCHANGED dirs
     \/ /\ controlSignal(w) = "continue" /\ approval # "approved"
        /\ Goto(w, "failPlan") /\ UNCHANGED dirs
     \/ /\ controlSignal(w) = "continue" /\ approval = "approved" /\ Pending = {}
        /\ Goto(w, "savePhase") /\ UNCHANGED dirs
     \/ /\ controlSignal(w) = "continue" /\ approval = "approved" /\ Pending # {}
        /\ LET d == CHOOSE d \in Pending : \A e \in Pending : d <= e
           IN /\ dirs' = [dirs EXCEPT ![d] = "scanning"]
              /\ IF disk[d] = 0 THEN Goto(w, "failPlan")
                 ELSE Continue(w, "read", [Nothing EXCEPT !.dir = d,
                        !.todo = {p \in Children[d] : disk[p] # 0}])

\* One entry: a directory is recorded at once, a file goes into the batch
\* with what lstat says of it now.
ReadEntry(w) ==
  /\ At(w, "read") /\ UNCHANGED <<jobs, plan, items>>
  /\ Cardinality(Local(w).batch) < BatchSize
  /\ \E p \in Local(w).todo :
       LET rest == [Local(w) EXCEPT !.todo = @ \ {p}]
       IN IF p \in Dirs THEN addDirectory(p) /\ Continue(w, "read", rest)
          ELSE /\ UNCHANGED dirs
               /\ Continue(w, "read", IF disk[p] = 0 THEN rest
                    ELSE [rest EXCEPT !.batch = @ \cup {[file |-> p, seen |-> disk[p]]}])

FlushBatch(w) ==
  /\ At(w, "read") /\ UNCHANGED <<jobs, plan, dirs>>
  /\ Local(w).batch # {}
  /\ Cardinality(Local(w).batch) = BatchSize \/ Local(w).todo = {}
  /\ addDiscoveredItems(Local(w).batch)
  /\ Continue(w, "read", [Local(w) EXCEPT !.batch = {}])

CompleteDirectory(w) ==
  /\ At(w, "read") /\ UNCHANGED <<jobs, plan, items>>
  /\ Local(w).todo = {} /\ Local(w).batch = {}
  /\ dirs' = [dirs EXCEPT ![Dir(w)] = "completed"]
  /\ Continue(w, "saveDir", Nothing)

\* context.saveCheckpoint and context.reportProgress, which throw when the
\* lease is lost.
OutOfLease(w, points) ==
  /\ \E p \in points : At(w, p)
  /\ LeaseLost(w) /\ Goto(w, "failPlan") /\ UNCHANGED jobs

RecordDirectory(w) ==
  /\ UNCHANGED db
  /\ \/ At(w, "saveDir") /\ SaveContext(w, 0, "reportDir", Nothing)
     \/ At(w, "reportDir") /\ ReportContext(w, "checkDir", Nothing)
     \/ At(w, "savePhase") /\ SaveContext(w, 1, "checkPage", Nothing)
     \/ OutOfLease(w, {"saveDir", "reportDir", "savePhase"})

RecordItem(w) ==
  /\ UNCHANGED db
  /\ \/ At(w, "save") /\ SaveContext(w, Local(w).after + 2, "report", Local(w))
     \/ At(w, "report") /\ ReportContext(w, "checkPage", Local(w))
     \/ OutOfLease(w, {"save", "report"})

ReadPage(w) ==
  /\ At(w, "checkPage") /\ UNCHANGED <<jobs, db>>
  /\ LET page == workItems(Local(w).after)
     IN Controlled(w, IF approval # "approved" THEN Goto(w, "failPlan")
                      ELSE IF page = {} THEN Goto(w, "count")
                      ELSE Continue(w, "checkItem", [Local(w) EXCEPT !.todo = page]))

\* The next item of the page, and the first look at its file.
TakeItem(w) ==
  /\ At(w, "checkItem") /\ UNCHANGED <<jobs, db>>
  /\ IF Local(w).todo = {} THEN Goto(w, "save")
     ELSE LET f == CHOOSE f \in Local(w).todo : \A g \in Local(w).todo : Ordinal(f) <= Ordinal(g)
          IN Controlled(w, Continue(w, "hash", [Local(w) EXCEPT
               !.todo = @ \ {f}, !.item = f, !.after = Ordinal(f),
               !.review = (disk[f] # items[f].seen)]))

Classified(f) ==
  IF f \in Duplicates /\ items[f].seen = 1 THEN "exact-duplicate"
  ELSE IF f \in Unsure THEN "needs-review" ELSE "ready"

\* Faulty: the digest is trusted when the file looked right before it was read.
AnalyzeItem_NoSecondLook(w) ==
  LET f == Local(w).item
  IN /\ At(w, "hash") /\ UNCHANGED <<jobs, plan, dirs>>
     /\ IF Local(w).review THEN setItemState(f, "needs-review")
        ELSE items' = [items EXCEPT ![f].status = Classified(f), ![f].digest = disk[f]]
     /\ Continue(w, "checkItem", [Local(w) EXCEPT !.item = NoDir, !.review = FALSE])

\* The digest, when the file is still what was discovered after it was read;
\* else the item is one to review.
AnalyzeItem(w) ==
  LET f == Local(w).item
  IN /\ At(w, "hash") /\ UNCHANGED <<jobs, plan, dirs>>
     /\ IF Local(w).review \/ disk[f] # items[f].seen THEN setItemState(f, "needs-review")
        ELSE items' = [items EXCEPT ![f].status = Classified(f), ![f].digest = disk[f]]
     /\ Continue(w, "checkItem", [Local(w) EXCEPT !.item = NoDir, !.review = FALSE])

\* The counts are read, and then the status written.
CountItems(w) ==
  /\ At(w, "count") /\ UNCHANGED <<jobs, db>>
  /\ Continue(w, "close", [Nothing EXCEPT
       !.review = (With("needs-review") \cup With("failed") # {})])

CloseAnalysis(w) ==
  /\ At(w, "close") /\ Goto(w, "finish") /\ UNCHANGED <<jobs, dirs, items>>
  /\ setPlanState(IF Local(w).review THEN "needs-review" ELSE "ready-for-approval")

\* The catch of run(): everything but a request fails the plan, and is tried
\* again.
FailPlan(w) ==
  /\ At(w, "failPlan") /\ Throw(w, TRUE) /\ UNCHANGED <<jobs, dirs, items>>
  /\ setPlanState("failed")

\* The transfer of the plan: what is ready when it runs.
Transfer(w) ==
  /\ At(w, "transfer") /\ UNCHANGED <<jobs, dirs>>
  /\ IF plan \in {"completed", "partial"} THEN Goto(w, "finish") /\ UNCHANGED <<plan, items>>
     ELSE IF plan \notin {"approved", "transfer-queued"}
          THEN Throw(w, FALSE) /\ UNCHANGED <<plan, items>>
     ELSE LET good == {f \in With("ready") : items[f].digest # 0 /\ disk[f] = items[f].digest}
          IN /\ items' = [f \in Files |->
                  IF f \notin With("ready") THEN items[f]
                  ELSE [items[f] EXCEPT !.status = IF f \in good THEN "completed" ELSE "failed"]]
             /\ setPlanState(IF With("ready") = good /\ With("failed") = {}
                             THEN "completed" ELSE "partial")
             /\ Goto(w, "finish")

WorkerMoves(w) ==
  \/ Load(w) \/ Start(w) \/ Validate(w) \/ Discover(w) \/ ClaimDirectory(w) \/ ReadEntry(w)
  \/ FlushBatch(w) \/ CompleteDirectory(w) \/ RecordDirectory(w) \/ ReadPage(w)
  \/ TakeItem(w) \/ AnalyzeItem(w) \/ RecordItem(w) \/ CountItems(w) \/ CloseAnalysis(w) \/ FailPlan(w) \/ Transfer(w)
  \/ ProcessMoves(w) /\ UNCHANGED db

-----------------------------------------------------------------------------
(* The server.                                                             *)

Ask(point) == request' = [request EXCEPT !.create = point]

\* createIngestPlan: the plan, the job, and the status again.
CreatePlan ==
  /\ request.create = "new" /\ approval = "approved"
  /\ setPlanState("analysis-queued") /\ Ask("created")
  /\ UNCHANGED <<jobs, dirs, items, acts, early>>

SubmitAnalysis ==
  /\ request.create = "created" /\ Ask("submitted")
  /\ \E s \in Submissions : s.kind = "analyze" /\ Submit(s)
  /\ UNCHANGED <<plan, dirs, items, acts, early>>

AnswerPlan ==
  /\ request.create = "submitted" /\ Ask("answered")
  /\ setPlanState("analysis-queued")
  /\ UNCHANGED <<jobs, dirs, items, acts, early>>

\* resolveItem, in its two writes; the second one when nothing is left to
\* review, whatever the plan is doing.
Resolve(f) ==
  /\ items[f].status = "needs-review" /\ acts < MaxActs /\ acts' = acts + 1
  /\ setItemState(f, "ready") /\ request' = [request EXCEPT !.resolved = TRUE]
  /\ UNCHANGED <<jobs, plan, dirs, early>>

Analysed == \E j \in Ids : jobs[j].sub.kind = "analyze" /\ jobs[j].status = "completed"

Settle ==
  /\ request.resolved /\ request' = [request EXCEPT !.resolved = FALSE]
  /\ IF With("needs-review") = {} THEN setPlanState("ready-for-approval") ELSE UNCHANGED plan
  /\ early' = (early \/ (With("needs-review") = {} /\ ~Analysed))
  /\ UNCHANGED <<jobs, dirs, items, acts>>

\* The user types a phrase with the number of items that are ready.
Approve ==
  /\ plan = "ready-for-approval"
  /\ With("needs-review") \cup With("failed") = {} /\ approval = "approved"
  /\ setPlanState("transfer-queued")
  /\ \/ \E s \in Submissions : s.kind = "transfer" /\ Submit(s)
     \/ (\E j \in Ids : jobs[j].sub.kind = "transfer") /\ UNCHANGED jobs
  /\ UNCHANGED <<dirs, items, request, acts, early>>

Server ==
  /\ \/ CreatePlan \/ SubmitAnalysis \/ AnswerPlan \/ (\E f \in Files : Resolve(f)) \/ Settle
     \/ Approve
  /\ UNCHANGED <<workers, crashes, disk, approval, touched>>

Control ==
  /\ \E j \in Ids : RequestPause(j) \/ Resume(j) \/ Cancel(j)
  /\ UNCHANGED <<workers, crashes, db, user>>

\* The user changes or deletes a file or an empty directory, or the source
\* goes or comes back.
User ==
  /\ acts < MaxActs /\ acts' = acts + 1
  /\ \/ /\ \E p \in Paths \ {Root} :
             /\ disk[p] # 0 /\ touched' = touched \cup {p}
             /\ \/ disk' = [disk EXCEPT ![p] = 0]
                   /\ (p \in Dirs => \A c \in Children[p] : disk[c] = 0)
                \/ p \in Files /\ disk' = [disk EXCEPT ![p] = @ + 1]
        /\ UNCHANGED approval
     \/ /\ approval' = (IF approval = "approved" THEN "revoked" ELSE "approved")
        /\ UNCHANGED <<disk, touched>>
  /\ UNCHANGED <<jobs, workers, crashes, db, request, early>>

GInit ==
  /\ ProcessInit
  /\ plan = "none"
  /\ dirs = [d \in Dirs |-> "none"]
  /\ items = [f \in Files |-> NoItem]
  /\ disk = [p \in Paths |-> 1]
  /\ approval = "approved"
  /\ request = [create |-> "new", resolved |-> FALSE]
  /\ acts = 0 /\ touched = {} /\ early = FALSE

GNext ==
  \/ Server \/ Control \/ User
  \/ Tick /\ UNCHANGED <<workers, crashes, db, user>>
  \/ \E w \in Workers : WorkerMoves(w) /\ UNCHANGED <<crashes, user>>
  \/ \E w \in Workers : Crash(w) /\ UNCHANGED <<db, user>>

GSpec == GInit /\ [][GNext]_vars

-----------------------------------------------------------------------------
(* Properties.                                                             *)

\* Every table and process has its type, and no two items have one ordinal.
GTypeOK ==
  /\ TypeOK
  /\ workers \in [Workers -> Worker(HandlerPoints, Locals)]
  /\ crashes \in 0 .. MaxCrashes
  /\ plan \in PlanStatuses
  /\ dirs \in [Dirs -> {"none", "pending", "scanning", "completed"}]
  /\ items \in [Files -> [status : ItemStatuses, ordinal : Ordinals, seen : Versions,
                          digest : Versions]]
  /\ \A f, g \in Listed : Ordinal(f) = Ordinal(g) => f = g
  /\ disk \in [Paths -> Versions]
  /\ approval \in {"approved", "revoked"}
  /\ request \in [create : {"new", "created", "submitted", "answered"}, resolved : BOOLEAN]
  /\ acts \in 0 .. MaxActs /\ touched \subseteq Paths /\ early \in BOOLEAN

\* "checkpoints keep recovery idempotent": unless a review has set the plan
\* ready while it was still analysed, an analysis that has completed has an
\* item for every file that the user has left alone, and has looked at all,
\* however often it was interrupted.
CompletedAnalysisIsComplete ==
  Analysed /\ ~early =>
    /\ \A f \in Files \ touched : f \in Listed
    /\ With("discovered") = {}

\* What a later transfer verifies its copies against is the digest of the very
\* content that was discovered, whoever wrote to the file in the meantime, and
\* a file is called a duplicate only for the content that the library has.
DigestsAreOfWhatWasDiscovered ==
  \A f \in Files :
    /\ items[f].digest \in {0, items[f].seen}
    /\ items[f].status = "exact-duplicate" => items[f].digest = 1 /\ f \in Duplicates

=============================================================================
