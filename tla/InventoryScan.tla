---------------------------- MODULE InventoryScan ----------------------------
(***************************************************************************)
(* One inventory scan: the handler of src/scanner/inventory-scan-job.ts in *)
(* the workers and the scan's session, records and frontier of directories *)
(* in src/catalog/inventory-catalog.ts, of which only the frontier decides *)
(* what is read next.                                                      *)
(*                                                                         *)
(* Every catalog call is a step, and so is the reading of one batch.  The  *)
(* catalog knows of no lease: a worker that has lost its own goes on until *)
(* its next queue call and then writes the status of a scan that somebody  *)
(* else may be working on.                                                 *)
(*                                                                         *)
(* Abstractions. What is at a path is nothing, a file, a directory, or a   *)
(* directory that may not be listed ("denied"); links, ignored and unsafe  *)
(* names and other devices are recorded as skipped like an entry that has  *)
(* vanished, and are "absent" here. An entry that is put into a directory  *)
(* while it is listed is not listed. The checkpoint is written but never   *)
(* read, and is left out of the catalog.                                   *)
(***************************************************************************)
EXTENDS WorkerProcess, SequencesExt

CONSTANTS
  Root,       \* the root, as a path
  Children,   \* the paths that can be in each directory
  NoDir,      \* the directory of a worker that reads none
  BatchSize,  \* entries recorded together
  Touchable,  \* the paths that the user touches
  MaxActs     \* bound: what the user does to the files and to the approval

Dirs == DOMAIN Children
Paths == Dirs \cup UNION {Children[d] : d \in Dirs}
Closed(S) == \A d \in S \cap Dirs : Children[d] \subseteq S

\* The paths are a tree: all of them, and no others, are reached from the root.
ASSUME ScanAssumption ==
  /\ Root \in Dirs /\ NoDir \notin Paths
  /\ \A d \in Dirs : Root \notin Children[d]
  /\ \A d, c \in Dirs : d # c => Children[d] \cap Children[c] = {}
  /\ \A S \in SUBSET Paths : Root \in S /\ Closed(S) => S = Paths
  /\ BatchSize \in Nat \ {0} /\ MaxActs \in Nat /\ Touchable \subseteq Paths \ {Root}
  /\ NoLocal = [dir |-> NoDir, todo |-> {}, batch |-> {}, found |-> {}]

VARIABLES
  scan,      \* inventory_scan_sessions, inventory_records and ..._frontier
  disk,      \* what is at each path
  approval,  \* "approved", "revoked", or the volume is "away"
  acts,      \* how often the user has touched files or approval
  touched,   \* the paths that the user has touched, all of them when the volume went
  late       \* the workers that have written a batch since the approval went

vars == <<jobs, workers, crashes, scan, disk, approval, acts, touched, late>>

ScanStatuses == {"none", "running", "paused", "completed", "failed", "cancelled"}
RowStates == {"pending", "processing", "completed"}
ObservationStatuses == {"observed", "skipped", "error"}
Records == [path : Paths, status : ObservationStatuses]
Counts == [records : Nat, files : Nat, skipped : Nat, errors : Nat, visited : Nat]

Frontier == scan.frontier
Rows(state) == {i \in DOMAIN Frontier : Frontier[i].state = state}
With(status) == {r \in scan.records : r.status = status}

setScanStatus(status) == scan' = [scan EXCEPT !.status = status]

-----------------------------------------------------------------------------
(* The catalog.                                                            *)

NoScan == [status |-> "none", records |-> {}, frontier |-> <<>>,
           counts |-> [records |-> 0, files |-> 0, skipped |-> 0, errors |-> 0, visited |-> 0]]

startOrLoadScan ==
  scan' = IF scan.status = "none"
          THEN [NoScan EXCEPT !.status = "running",
                              !.frontier = <<[path |-> Root, state |-> "pending"]>>]
          ELSE scan

\* Faulty: leaves the directories alone that nobody is reading any more.
resumeScan_KeepsProcessing ==
  IF scan.status \in {"completed", "cancelled"} THEN UNCHANGED scan
  ELSE setScanStatus("running")

resumeScan ==
  IF scan.status \in {"completed", "cancelled"} THEN UNCHANGED scan
  ELSE scan' = [scan EXCEPT
         !.status = "running",
         !.frontier = [i \in DOMAIN @ |->
           IF @[i].state = "processing" THEN [@[i] EXCEPT !.state = "pending"] ELSE @[i]]]

\* claimNextDirectory takes the pending row with the lowest ordinal.
FirstPending == CHOOSE i \in Rows("pending") : \A k \in Rows("pending") : i <= k
claimNextDirectory == scan' = [scan EXCEPT !.frontier[FirstPending].state = "processing"]

Known == {Frontier[i].path : i \in DOMAIN Frontier}

\* INSERT OR IGNORE of the records and of the directories, in the order in which
\* they were listed; the counters grow by the records of `counted`.
InsertBatch(batch, found, counted) ==
  LET Is(s) == {r \in counted : r.status = s}
      c == scan.counts
  IN \E order \in SetToSeqs(found \ Known) : scan' = [scan EXCEPT
       !.records = @ \cup batch,
       !.frontier = @ \o [i \in DOMAIN order |-> [path |-> order[i], state |-> "pending"]],
       !.counts = [c EXCEPT
         !.records = @ + Cardinality(counted),
         !.files = @ + Cardinality({r \in Is("observed") : r.path \notin Dirs}),
         !.skipped = @ + Cardinality(Is("skipped")),
         !.errors = @ + Cardinality(Is("error"))]]

\* Faulty: counts what the batch says and not what was inserted.
writeBatch_CountsAll(batch, found) == InsertBatch(batch, found, batch)

writeBatch(batch, found) == InsertBatch(batch, found, batch \ scan.records)

\* Only a row that is still being processed is completed and counted.
completeDirectory(d) ==
  LET rows == {i \in Rows("processing") : Frontier[i].path = d}
  IN scan' = [scan EXCEPT
       !.frontier = [i \in DOMAIN @ |->
         IF i \in rows THEN [@[i] EXCEPT !.state = "completed"] ELSE @[i]],
       !.counts.visited = @ + Cardinality(rows)]

-----------------------------------------------------------------------------
(* The handler: run() and scan().                                          *)

Locals == [dir : Dirs \cup {NoDir}, todo : SUBSET Paths, batch : SUBSET Records,
           found : SUBSET Dirs]
HandlerPoints == {"start", "resume", "check", "pauseScan", "cancelScan", "leave", "next",
                  "open", "read", "issue", "finishDir", "save", "report", "lastSave",
                  "lastReport", "close", "failScan", "retryScan"}

Local(w) == workers[w].local
Dir(w) == Local(w).dir
Step(w, from, to) == At(w, from) /\ Goto(w, to)
Nothing == [dir |-> NoDir, todo |-> {}, batch |-> {}, found |-> {}]

Load(w) == LoadJob(w, "start", Nothing) /\ UNCHANGED scan

Start(w) ==
  /\ At(w, "start") /\ UNCHANGED jobs
  /\ IF scan.status = "completed" THEN Goto(w, "finish") /\ UNCHANGED scan
     ELSE Goto(w, "resume") /\ startOrLoadScan

\* validateForScan, and resumeScan when it succeeds.
ResumeScan(w) ==
  /\ UNCHANGED jobs
  /\ \/ approval = "approved" /\ Step(w, "resume", "check") /\ resumeScan
     \/ approval # "approved" /\ Step(w, "resume", "failScan") /\ UNCHANGED scan

\* Faulty: the approval is looked at between directories only.
Approved_BetweenDirectories(w) == approval # "revoked" \/ Dir(w) # NoDir

\* loadApprovedLibrary, which does not look whether the volume is there.
Approved(w) == approval # "revoked"

\* checkApprovalAndControl, before each directory and after each batch.
Check(w) ==
  /\ At(w, "check") /\ UNCHANGED <<jobs, scan>>
  /\ Goto(w, IF ~Approved(w) THEN "failScan"
             ELSE CASE controlSignal(w) = "stale" -> "retryScan"
                    [] controlSignal(w) = "cancel" -> "cancelScan"
                    [] controlSignal(w) = "pause" -> "pauseScan"
                    [] OTHER -> IF Dir(w) = NoDir THEN "next" ELSE "read")

InterruptScan(w) ==
  /\ UNCHANGED jobs
  /\ \/ Step(w, "pauseScan", "leave") /\ setScanStatus("paused")
     \/ Step(w, "cancelScan", "leave") /\ setScanStatus("cancelled")

\* saveCheckpoint and throwIfControlRequested; a cancellation comes first.
Leave(w) ==
  /\ At(w, "leave") /\ UNCHANGED scan
  /\ \/ SaveContext(w, 0, IF jobs[Job(w)].cancel THEN "ackCancel" ELSE "ackPause", Nothing)
     \/ LeaseLost(w) /\ Goto(w, "retryScan") /\ UNCHANGED jobs

ClaimDirectory(w) ==
  /\ At(w, "next") /\ UNCHANGED jobs
  /\ \/ /\ Rows("pending") # {} /\ claimNextDirectory
        /\ Continue(w, "open", [Nothing EXCEPT !.dir = Frontier[FirstPending].path])
     \/ Rows("pending") = {} /\ Goto(w, "lastSave") /\ UNCHANGED scan

\* context.saveCheckpoint and context.reportProgress, after a batch, after a
\* directory and before the end.
ReportScan(w) ==
  /\ UNCHANGED scan
  /\ \/ At(w, "save") /\ SaveContext(w, 0, "report", Local(w))
     \/ At(w, "report") /\ ReportContext(w, "check", Local(w))
     \/ At(w, "lastSave") /\ SaveContext(w, 0, "lastReport", Nothing)
     \/ At(w, "lastReport") /\ ReportContext(w, "close", Nothing)
     \/ /\ \E p \in {"save", "report", "lastSave", "lastReport"} : Step(w, p, "retryScan")
        /\ LeaseLost(w) /\ UNCHANGED jobs

CloseScan(w) == Step(w, "close", "finish") /\ setScanStatus("completed") /\ UNCHANGED jobs

\* The catch of run().
FailScan(w) ==
  /\ \/ At(w, "failScan") /\ Throw(w, FALSE)
     \/ At(w, "retryScan") /\ Throw(w, TRUE)
  /\ setScanStatus("failed") /\ UNCHANGED jobs

-----------------------------------------------------------------------------
(* One directory: resolveDirectory, scanDirectory and finishDirectory.     *)

Issue(w, status) == [Nothing EXCEPT !.dir = Dir(w),
                                    !.batch = {[path |-> Dir(w), status |-> status]}]

\* The root must be where it was approved; another directory that cannot be
\* resolved or opened is recorded as an issue.  Any other error of opendir
\* ends the attempt.
OpenDirectory(w) ==
  /\ At(w, "open") /\ UNCHANGED <<jobs, scan>>
  /\ \/ ~Approved(w) /\ Goto(w, "failScan")
     \/ Dir(w) = Root /\ approval = "away" /\ Goto(w, "failScan")
     \/ /\ Approved(w) /\ Dir(w) # Root /\ (approval = "away" \/ disk[Dir(w)] = "absent")
        /\ Continue(w, "issue", Issue(w, "skipped"))
     \/ /\ approval = "approved" /\ disk[Dir(w)] = "denied"
        /\ Continue(w, "issue", Issue(w, "error"))
     \/ /\ approval = "approved" /\ disk[Dir(w)] = "directory"
        /\ Continue(w, "read", [Local(w) EXCEPT
             !.todo = {p \in Children[Dir(w)] : disk[p] # "absent"}])
     \/ approval = "approved" /\ Goto(w, "retryScan")

\* observeEntry; a directory that is observed is found for the frontier.
ObserveEntry(w) ==
  /\ At(w, "read") /\ UNCHANGED <<jobs, scan>>
  /\ Cardinality(Local(w).batch) < BatchSize
  /\ \E p \in Local(w).todo :
       LET status == IF approval = "away" THEN "error"
                     ELSE IF disk[p] = "absent" THEN "skipped" ELSE "observed"
           isDirectory == status = "observed" /\ p \in Dirs
       IN IF isDirectory /\ ~Approved(w) THEN Goto(w, "failScan")
          ELSE Continue(w, "read", [Local(w) EXCEPT
                 !.todo = @ \ {p},
                 !.batch = @ \cup {[path |-> p, status |-> status]},
                 !.found = IF isDirectory THEN @ \cup {p} ELSE @])

\* The enumeration breaks off: what is not written yet is lost.
BreakOff(w) ==
  /\ At(w, "read") /\ UNCHANGED <<jobs, scan>>
  /\ approval = "away" \/ disk[Dir(w)] # "directory"
  /\ Continue(w, "issue", Issue(w, "error"))

FlushBatch(w) ==
  /\ At(w, "read") /\ UNCHANGED jobs
  /\ Local(w).batch # {}
  /\ Cardinality(Local(w).batch) = BatchSize \/ Local(w).todo = {}
  /\ writeBatch(Local(w).batch, Local(w).found)
  /\ Continue(w, "save", [Local(w) EXCEPT !.batch = {}, !.found = {}])

RecordIssue(w) ==
  /\ Step(w, "issue", "finishDir") /\ UNCHANGED jobs
  /\ writeBatch(Local(w).batch, {})

FinishDirectory(w) ==
  /\ \/ At(w, "finishDir")
     \/ At(w, "read") /\ Local(w).todo = {} /\ Local(w).batch = {}
  /\ completeDirectory(Dir(w))
  /\ Continue(w, "save", Nothing) /\ UNCHANGED jobs

WorkerMoves(w) ==
  /\ \/ Load(w) \/ Start(w) \/ ResumeScan(w) \/ Check(w) \/ InterruptScan(w) \/ Leave(w)
     \/ ClaimDirectory(w) \/ ReportScan(w) \/ CloseScan(w) \/ FailScan(w) \/ OpenDirectory(w)
     \/ ObserveEntry(w) \/ BreakOff(w) \/ FlushBatch(w) \/ RecordIssue(w)
     \/ FinishDirectory(w)
     \/ ProcessMoves(w) /\ UNCHANGED scan
  /\ late' = IF scan'.records # scan.records /\ approval = "revoked"
             THEN late \cup {w} ELSE late

-----------------------------------------------------------------------------
(* The clients and the user.                                               *)

\* A scan is submitted for an approved root only.
SubmitScan == approval = "approved" /\ \E s \in Submissions : Submit(s)
Control == \E j \in Ids : RequestPause(j) \/ Resume(j) \/ Cancel(j)

\* A directory goes with everything below it and comes back empty.
Below ==
  [p \in Paths |->
     IF p \in Dirs THEN {q \in Paths : \A S \in SUBSET Paths :
                           Children[p] \subseteq S /\ Closed(S) => q \in S}
     ELSE {}]

Edit(p, what) ==
  /\ disk[p] # what
  /\ \A d \in Dirs : p \in Children[d] => disk[d] # "absent"
  /\ disk' = [q \in Paths |-> IF q = p THEN what
                              ELSE IF q \in Below[p] /\ what = "absent" THEN "absent"
                              ELSE disk[q]]
  /\ touched' = touched \cup {p} \cup Below[p]

\* The approval is revoked, or the volume goes or comes back.
MoveApproval ==
  /\ \/ approval = "approved" /\ approval' \in {"revoked", "away"}
     \/ approval # "approved" /\ approval' = "approved"
  /\ touched' = IF approval' = "away" THEN Paths ELSE touched
  /\ late' = {}

User ==
  /\ acts < MaxActs /\ acts' = acts + 1
  /\ \/ /\ \E p \in Touchable :
             \/ \E what \in {"directory", "denied", "absent"} : p \in Dirs /\ Edit(p, what)
             \/ \E what \in {"file", "absent"} : p \notin Dirs /\ Edit(p, what)
        /\ UNCHANGED <<approval, late>>
     \/ MoveApproval /\ UNCHANGED disk

SInit ==
  /\ ProcessInit
  /\ scan = NoScan
  /\ disk = [p \in Paths |-> IF p \in Dirs THEN "directory" ELSE "file"]
  /\ approval = "approved"
  /\ acts = 0 /\ touched = {} /\ late = {}

SNext ==
  \/ (SubmitScan \/ Control \/ Tick)
       /\ UNCHANGED <<workers, crashes, scan, disk, approval, acts, touched, late>>
  \/ \E w \in Workers :
       WorkerMoves(w) /\ UNCHANGED <<crashes, disk, approval, acts, touched>>
  \/ \E w \in Workers :
       Crash(w) /\ UNCHANGED <<scan, disk, approval, acts, touched, late>>
  \/ User /\ UNCHANGED <<jobs, workers, crashes, scan>>

SSpec == SInit /\ [][SNext]_vars

-----------------------------------------------------------------------------
(* Properties.                                                             *)

\* Every table and process has its type, and a directory is at most once in
\* the frontier.
STypeOK ==
  /\ TypeOK
  /\ workers \in [Workers -> Worker(HandlerPoints, Locals)]
  /\ crashes \in 0 .. MaxCrashes
  /\ scan.status \in ScanStatuses /\ scan.records \subseteq Records
  /\ scan.frontier \in Seq([path : Dirs, state : RowStates])
  /\ \A i, k \in DOMAIN Frontier : Frontier[i].path = Frontier[k].path => i = k
  /\ scan.counts \in Counts
  /\ disk \in [Paths -> {"file", "directory", "denied", "absent"}]
  /\ approval \in {"approved", "revoked", "away"}
  /\ acts \in 0 .. MaxActs /\ touched \subseteq Paths /\ late \subseteq Workers

\* The counters of the session are those of its records and of its completed
\* directories, however often a directory was read again, and by whom.
CountsMatchTheRecords ==
  scan.counts = [records |-> Cardinality(scan.records),
                 files   |-> Cardinality({r \in With("observed") : r.path \notin Dirs}),
                 skipped |-> Cardinality(With("skipped")),
                 errors  |-> Cardinality(With("error")),
                 visited |-> Cardinality(Rows("completed"))]

\* "Traversal is resumable": when the job has completed, its scan has completed
\* too, no directory is left in the frontier, and everything that the user has
\* left alone was observed.
CompletedScanIsComplete ==
  \A j \in Ids : jobs[j].status = "completed" =>
    /\ scan.status = "completed"
    /\ \A i \in DOMAIN Frontier : Frontier[i].state = "completed"
    /\ \A p \in Paths \ (touched \cup {Root}) : [path |-> p, status |-> "observed"] \in scan.records

\* "stops at the next batch boundary if approval is revoked during traversal":
\* no worker writes a second batch after the revocation.
RevocationStopsAtTheNextBatch ==
  [][\A w \in late : ~(At(w, "read") /\ workers'[w].pc = "save" /\ scan'.records # scan.records)]_vars
=============================================================================
