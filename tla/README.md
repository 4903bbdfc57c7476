# A verification model of Local Librarian

Local Librarian keeps file libraries on local disks in order: it inventories
them, analyses and hashes files, plans moves, copies files between volumes, and
puts duplicates and retired sources into quarantine. A web server takes the
requests. Worker processes do the work as durable jobs. This directory holds
TLA+ modules of that system, TLC configurations that check them on small
instances, and proofs that TLAPS checks for every value of the constants.

Paths in this file are relative to the repository (`src/...`, `README.md`).

## 1. The system

| Component | Source | State it keeps | Operations |
|---|---|---|---|
| Job queue | `src/jobs/sqlite-job-queue.ts`, `lifecycle.ts`, `job.ts` | table `jobs` (status, attempts, lease, requests, checkpoint), `job_history` | submit, requestPause, resume, cancel, claimNext, heartbeat, saveCheckpoint, complete, fail, acknowledgePaused, acknowledgeCancelled, recoverExpiredLeases |
| Worker loop | `src/jobs/persistent-worker.ts`, `src/cli/local-worker.ts` | local variables of a process: lease, last checkpoint | runOnce, runUntilStopped, the execution context |
| Diagnostic handler | `src/jobs/diagnostic-count.ts` | loop variable | count with checkpoints |
| Transfer | `src/transfer/` | `transfers.sqlite`: plans, items, quarantine records, receipts, audit; files at source, staging, destination and quarantine paths | create plan, analyse, resolve item, approve, execute, restore |
| Organization | `src/organization/` | `organization.sqlite`: plans, operations, runs, run items, mutation mode, audit chain | plan, submit run, execute, roll back, change mode |
| Inventory scan | `src/scanner/`, `src/catalog/` | `catalog.sqlite`: scans, frontier of directories, observations, checkpoint | start or resume a scan, claim a directory, write a batch, finish |
| Organization planner | `src/organization/organization-planner.ts` | the plan under construction, in memory | create a plan from the latest scan and its reviews |
| Intelligence | `src/intelligence/` | `intelligence.sqlite`: hashes, groups, analyses, review items, relations, settings | detect duplicates, hash, analyse media, relate, decide |
| Reconciliation | `src/intelligence/reconciliation-job.ts`, `src/reconciliation/` | runs and deltas in `intelligence.sqlite` | compare two completed scans, in pages |
| Ingest analysis | `src/transfer/ingest-analysis-job.ts` | the plan and its items, the frontier of its source | create, discover, analyse, review, approve |
| Enrollment | `src/enrollment/` | an append-only journal | propose, approve, change access, revoke, replay |
| Path safety | `src/safety/`, `root-guard.ts`, `inventory-root-guard.ts` | none | resolve, contain, authorize |
| Supervision | `src/web/worker-process-manager.ts`, `src/jobs/worker-status.ts`, `src/cli/local-worker.ts` | a status file | start, boot, heartbeat, stop, view |
| Analysers | `src/intelligence/analyzers.ts` and the modules beside it | none | a file to a value, some by way of a local model |
| Server, API, UI, MCP | `src/web/`, `web/`, `src/mcp/` | none that outlives a request | dispatch to the services |

**How they interact.** The server and the workers are separate processes that
share SQLite files and the file system. The job queue is the only channel
between them: a service writes its own store, submits a job, and writes its own
store again; a worker claims the job under a lease and writes the service's
store and files. Each database has transactions of its own and none spans two
of them, or a database and a file. Only the queue checks the lease. Everything
else a worker writes is not fenced.

**What is hard.** Any number of workers may run: a request to start one
is granted when the others are ten seconds late with their heartbeat in the status
file, and the user may start more. A worker that reads a large file does not renew
its lease, which may run out while it works on, beside the one that took over.
Processes die between any two writes. A
client's pause, cancel or second request may come between any two awaits. The
user works in the same folders.

**What makes each component correct.**

- *Job queue*: one owner per running job; a late call under a lost lease changes
  nothing; attempts are counted to the limit; statuses follow the life cycle; the
  history tells every change.
- *Worker loop*: it never writes outside its lease, its acknowledgements are not
  refused, a resumable job loses no progress, every job settles.
- *Transfer*: no destination is replaced, a source is retired only after its bytes
  were verified at the destination, the plan tells the truth about the files, and a
  completed plan is done, over every interruption.
- *Quarantine*: what is reported restored is back, and a file that was
  moved has its record.
- *Organization*: the receipts of a run that has ended are the moves that were
  made, a rollback brings all of them back, read-only mode stops a run at the
  next file.
- *Inventory scan*: an interrupted scan has every entry of a tree that stays as
  it is exactly once, its counters are those of its records, and it stops when
  the library is revoked.
- *Organization planner*: every file of the scan is accounted for once, no two
  files are sent to one place, and a file that waits for the user stays.
- *Intelligence*: what has completed covers every file, a group of exact
  duplicates has one content, and what the user has decided is not asked again.
- *Reconciliation*: a completed comparison is the difference of the two scans.
- *Ingest analysis*: no file is lost or listed twice, and the digest that a
  transfer will verify is of the content that was discovered.
- *Supervision*: a worker that has died does not go on being taken for one that runs.
- *Enrollment*: what was acknowledged is in the journal under every replay, and
  what was approved is what the user was shown.
- *Path safety*: an authorized path is inside an approved root of the same
  volume.

## 2. The modules

```
JobLifecycle            abstract: the transitions lifecycle.ts allows
     ^  refinement (FollowsLifecycle)
JobQueue                the jobs table
     ^  EXTENDS
WorkerProcess           runOnce, for any handler; crashes and restarts
     ^  EXTENDS
     |-- LocalWorker  <--  Supervision
     |-- QuarantineRestore, TransferExecution, Organization
     |-- InventoryScan  <--  OrganizationPlan
     |-- CatalogAnalysis <-- ContentIdentity, MetadataAnalysis <-- Intelligence
     |-- Reconciliation
     '-- IngestPlan

PathSafety <-- Enrollment <-- RootGuard          TransferPlanning

Theorems:  JobQueueProofs (JobQueue, WorkerProcess)
             <--  HostProofs (Supervision; Enrollment, RootGuard),
                  DuplicateProofs (Intelligence; QuarantineRestore),
                  TransferExecutionProofs, ReconciliationProofs,
                  ScanProofs (InventoryScan, OrganizationPlan),
                  IngestProofs (IngestPlan),
                  OrganizationProofs (Organization)
```

`A <-- B` means that B extends A. `MC*.tla` modules hold the values a configuration
needs (submissions, kinds, trees, symmetry), and each `.cfg` is one question.
Operators whose comment begins with `Faulty:` are not part of the system. Each
stands before the definition it distorts the way a plausible programming error
would, and putting it in the definition's place makes TLC report the property it
is meant for; that is how each property was tried for sensitivity.

Each module's header lists its abstractions. The correspondence in short:

**JobQueue.** `jobs` is the table, a sequence of rows. One action per method of
`SqliteJobQueue`, each one transaction and so one step; a method that throws or
finds nothing to do is not enabled. A lease id is fresh at every claim, and a
claim opens exactly one attempt, so the attempt's number stands for both. Time is
the time left to each lease, counted down by `Tick`. The client is the most
general one: any lease ever issued may be presented at any time.

**JobLifecycle.** What `lifecycle.ts` promises. The queue never calls it, so
`FollowsLifecycle` (a refinement under `status <- jobs[j].status`, with an
unsubmitted job as `"none"`) is a claim about the queue's SQL.

**WorkerProcess.** A worker's `pc` names the next queue call; between two calls
anybody else may act. `Throw` is an exception in the handler, `Die` one that
escapes `runUntilStopped`. `Crash` is the process ending at any moment,
`Restart` the supervisor or the user starting it again, at any moment; Supervision
has what that takes.

**LocalWorker.** The counting handler: its loop of control check, unit,
checkpoint and progress is the one every resumable handler has.

**Supervision.** LocalWorker's processes with how they come and go: `Look`, `Spawn`
and `WriteStarting` are the parts of `LocalWorkerProcessManager.start`, `Boot`, `Run`,
`Beat`, `Stop` and `Exit` those of `main` in `local-worker.ts` with its heartbeat, `Age`
the ten seconds after which a heartbeat is stale. `record` is what the one status
file shows, whichever process wrote it last; `LookAtTornFile` is a reader who finds
it empty.

**QuarantineRestore.** `Ask`, `SubmitRestore` and `SetRestoring` are the three
parts of `restore()` between its awaits; `Read` ... `Block` are the steps of the
handler. `original` is what is at the original path, "ours" for the file itself.
The user puts files there, removes them, changes the restored one (`touched`),
cancels jobs and moves the gate (`live`).

**TransferPlanning.** The group of exact duplicates with the decisions on its
members, the hashing that adds members, clears and rebuilds the group, and the
two ways to make a plan from it: `createDuplicateConsolidation`, which reads the
members page by page, and `createCrossVolumePlan`. Carrying a plan out is one step
for each file, so that the module is about how plans act on one another.

**TransferExecution.** `ApproveRead` ... `ApproveQueued` are the parts of
`approve()`; `Begin` ... `InterruptPlan` those of the engine's `run`; `Existing`
... `MarkCompleted` one item's copy; `Retire` ... `RecordQuarantine` the move into
quarantine. A source is "absent", "good" (the approved bytes) or "other". The files
that workers make are inodes: `disk[i]` holds their contents in chunks, `staging[i]` and
`dest[i]` say which of them has the staging and the destination path, and a worker's
`handle` which it has open. So `link` gives one inode two names, and what a late worker
writes or truncates through its handle (`Overwrite`) reaches the file under any name, or
none. `Reopen` and the two last parts of `Truncate` are the clean retry of a copy whose
digest does not match. The user changes, removes and adds files at the source, staging and
destination paths, a vacated source path included (`refilled`), but does not put the
approved file back there. `touched` and `spoilt` account for good destinations that the user
or a worker has changed; they guard nothing. `gate` is what `validateGates` finds: "open",
"readOnly" (ends the plan) or "gone" (a root not approved or not mounted: fails
the item, or the plan outside an item). The batches of 25 items are one batch. The plan is
one of `Plans`.

**IngestPlan.** One ingest plan from `createIngestPlan` to its transfer. `dirs` and
`items` are the tables, `plan` the status, `request` the server's calls under way.
The handler lists one directory at a time (`ClaimDirectory` ... `CompleteDirectory`,
`RecordDirectory`) and then looks at one item at a time (`ReadPage` ... `RecordItem`).
A file's content is a version number, so that a change of it between two looks can
be told.

**Organization.** `runs` holds `organization_runs` with the receipts of each run,
in order of creation. `startRun` and `startRollback` are the service's conditions,
`CreateRun` and `SubmitRun` the two parts of `submitRun`, which are separate
because a worker, the user or a crash may come between them. `Begin` ... `FailRun`
are the engine's `run`, `Inspect`, `Recheck`, `Rename` and `Verify` its
`relocate`. A forward run moves from "source" to "destination" and a rollback the
other way (`From`, `To`). `gate` is "open", "readOnly" (mutation mode) or "gone"
(approval revoked or volume away). `touched`, `obscured` and `late` are history
variables: they only serve to state the properties and guard nothing.

**InventoryScan.** `scan` is the session with its records, frontier and counters,
`disk` the tree. The worker begins or resumes the scan, claims a directory of the
frontier, lists it, and saves batches; each catalog call is one transaction and
one step. The approval is asked again before each batch. `late` holds the workers
that have written their one batch after a revocation.

**OrganizationPlan.** `createPlan` over the scan of InventoryScan, which may still
be going on: `plan` is what the server has in memory, with a step for each page of
records and for the store of the whole plan. A page is a set, the first `PageSize`
records in the order of `Position` among those that are there when it is read, and what the
server remembers of earlier pages is `read`. Destinations are chosen among `Named`, a
file's wanted place and its names with a suffix, against the scan's records and
what the plan has taken. Meanwhile reviews are
opened, once each, and decided, and the hash job clears the groups of duplicates and
builds them again, each of these a step of its own. `InReview` is the query of
`organizationPlanningEvidence`: the files with an open review of their own, and the
present members of the groups with an open review. `held` are the files that were in it
since the planning began.

**CatalogAnalysis, ContentIdentity, MetadataAnalysis, Intelligence.** `store` is the
tables of `intelligence.sqlite` about one completed scan: hashes, groups with
decisions, reviews, analyzer results, understandings and relations.
CatalogAnalysis has what all handlers share: taking up a checkpoint, a page, a
chunk of files read concurrently, the control points, the failures.
ContentIdentity is `duplicates.detect` and `content.hash`, MetadataAnalysis
`media.analyze` and `relationships.analyze`. Intelligence composes them with
`AnalysisService.start`, the user who changes files, decides on reviews and
members, pauses heavy work, and the revocation of the root.

**Reconciliation.** `scans` are the facts of both scans about each path, `run` and
`deltas` the tables. Each phase reads a page of one scan, keeps what differs, and
saves deltas, counters and checkpoint. `reconcile` is the pure comparison of
`src/reconciliation/reconcile.ts`, the reference the three sweeps are checked against.

**PathSafety.** `tree` and `mounted` are the disk. `realpath`, `lstat` and `Device`
are the operating system's answers; `findReparsePoints`, `contains` and
the identity of a volume are translated from `src/safety`.

**Enrollment.** `journal` is the file, whose last line may be torn. `requests` are
calls of the service under way, each at its next read, append or answer. `propose`
shows what is at a path, `ApproveInspection` looks at the disk again, `SetAccess` and
`revoke` start from what the journal says now, and `AppendEvent` writes whatever the
request has in its memory. The three looks of `approve` (`inspectExisting`,
`identify`), between which the disk may change, are `ApproveWalk` (no link on the way),
`ApproveReal` (the canonical path) and `ApproveStat` (the identity of what is there).
`ExitProcess` is the end of a process, which may leave a part of a line.

**RootGuard.** One call of `TransferRootGuard` or `InventoryRootGuard` after
another, in the three modes of their callers: `BeginGuard` reads the enrollment,
`RootWalk` ... `RootStat` look at the root, `Walk` ... `Stat` at the path, `Again` at a
path that will be written, each one look at a disk that the user changes in
between. `guard.quiet` says that the disk was
left alone since the call began.

## 3. What the runs show

| Run | Instance | What it shows |
|---|---|---|
| `job_queue` | 2 jobs, two kinds with restart and resume, at most 2 attempts | types, leases, attempts, budget, audit, life cycle |
| `worker` | at most 2 processes, started on request, 1 stopped or killed, the status file; 1 job of 3 units, checkpoint every 2nd; fairness | acknowledgements accepted, every write under the writer's own live lease, checkpoints only grow, completed means all units, the job does not stay queued or running for ever |
| `restore` | 2 requests, 2 workers, 1 crash | a restored file is back, over crashes, lost leases and double requests |
| `transfer` | 1 item of 1 chunk to copy with hard links and retire, 2 workers, 2 attempts, 1 act of the user on a file or the gate | retirement only after verification, truthful items, no replaced destination, and no good one changed but through a link to it |
| `transfer_resume` | 2 items of 2 chunks to copy without hard links, or 1 to consolidate under 2 approval requests; 1 worker, 1 crash, pauses, gate open, 1 act of the user on a file | a completed plan left no item out, part of a file is never taken for the copy, a moved file has its record when the plan closes |
| `organization` | 2 moves under one run; 1 move under a run and its rollback, live or simulated; or 1 move under two live runs and the rollback of one; 1 worker, 1 crash, 2 attempts (3 of the first run), pause, acts of the user on files or gate | the receipts of a live run that closes are its moves; a completed rollback has brought back every move, recovered ones included; read-only mode stops a run at the next file |
| `planning` | a tree of 1 directory and 3 files, batches of 1, pages of 2, 1 worker, 1 crash, 1 act on the tree, the approval or a review, a review of a file and a group of two, 2 sets of options | an interrupted scan has every entry once, with true counters; a revocation stops it at the next batch; every file is accounted for once in the plan, moved to a free place, and not moved while a review leads to it |
| `intelligence` | 3 files, 2 of them of one content, pages of 3, chunks of 2, 4 kinds of job of which 2 are submitted, 1 crash, 1 act | a completed job has covered its scope, exact groups have one content, decided reviews stay decided |
| `reconciliation` | every pair of scans of 2 paths that are each missing, added or changed, or all the same; pages of 1, 2 workers, 2 attempts, 1 crash | a completed comparison is the reference's difference, counters are those of the deltas |
| `ingest` | a source with one file and one directory with one file, batches of 1, pages of 2, 1 worker, 1 crash, 1 act | no file lost or listed twice, no ordinal twice, digests of what was discovered |
| `enrollment` | 2 requests of 2 processes, a disk at `/m` with the library `/m/lib`, a second mount within it, directories swapped for links, 1 act | acknowledged lines are kept, approvals are of what was shown, and a path that is authorized while the disk is at rest is safe |
| `consolidation` | 3 copies, 2 plans, pages of 1, 3 changes | a violation, see below |

**One sentence refuted.** "Consolidation moves selected redundant copies into
recoverable quarantine" (`README.md:87-88`), and each item is justified with "The
user selected another verified copy as keeper." (`transfer-service.ts:170`). The
members are read when the plan is made (`transfer-service.ts:147`) and never looked
at again. Two plans made before and after a change of keeper can both be carried
out, and together they move every copy: `OnlyRedundantCopiesMove` is violated.

The models also have behaviours that no run is about but that a reader of the
code should know, because a property stated here would have to allow for them.

Queue and workers:

- A retryable failure clears a cancellation that was accepted while the job ran,
  and the job runs again (`sqlite-job-queue.ts:583`).
- A cancellation that comes between the reading of a pause request and its
  acknowledgement is parked in the paused row, and acts only after a resume.
  `EveryJobSettles` therefore counts a paused job as settled.
- Recovery looks at a pause request before it looks at exhaustion, so a pausable
  job can go on after its last attempt. `BudgetKept` therefore speaks of jobs that
  cannot be paused.
- Hashing and analysis throw `JobPauseRequested` for the setting `pauseHeavyWork`,
  with no pause in the queue. The queue refuses the acknowledgement and the worker
  ends. `AcknowledgementNeverRefused` is about handlers that throw only what the
  queue asks for.
- A status file that is read while it is rewritten shows no worker, a worker that
  ends writes stopped over the heartbeats of another, and one whose heartbeat is
  late is stale: in each case a second worker is started. Nobody starts a worker
  that has died but the user, on the dashboard (`worker-process-manager.ts:49`).

Late and unfenced writes:

- After submitting, the server writes the status of a job that waits over whatever
  the worker has written since: restoring over restored
  (`transfer-service.ts:366`), transfer-queued over completed (`:326`), queued over
  the stage of an analysis (`analysis-service.ts:98`), and the same for a new ingest
  plan. An ingest plan that is approved twice stays transfer-queued for ever.
- A worker that has lost its lease goes on until its next queue call, and fails a
  plan, run or comparison that its job is requeued for, or that another worker
  has completed. Two workers can complete a scan or an ingest analysis while one
  of them is still in a directory. The runs of Organization, InventoryScan and
  IngestPlan have one worker, which may lose its lease and go on.
- Cancelling a job that waits leaves its organization run, transfer plan or
  reconciliation run as it was; `createRun` then finds an active run for ever.
- An organization run that failed does not count as active while its job waits
  for another attempt, so a second live run of the plan can start beside it
  (`organization-store.ts:360-377`). One
  worker is then enough to lose a file from a rollback: a live run loses its lease
  when it has moved one file of two, and is failed, requeued and paused; a second
  live run completes; its rollback is paused after the first file; the first run is
  resumed and moves that file again; the rollback goes on and completes without
  it. In the same way the rollback of the second run takes back a file that the first
  holds a receipt for. `organization` has a plan with two live runs and a rollback, where
  TLC finds both, and its two properties name them as the exceptions: a receipt is of a
  file at its destination or that the rollback of another live run has taken back
  (`Undone`), and a rollback has brought its files back but for those that another live run
  has moved, or has yet to look at (`Accounted`). A move that only the other run has a
  receipt for when a run closes needs an act of the user besides; no bound of the run
  reaches that, and only the theorem covers it.
- A crash after a plan's last status loses its receipt and the scan that refreshes
  the catalog.
- Two restore requests that both read the item before either has written
  restoring submit two jobs. `RestoredIsHome` holds all the same.

Files:

- A stored status of verified is trusted when a plan goes on after a pause or a crash
  (`transfer-job.ts:209`). If the user has changed or removed the destination since, the
  source is retired although its bytes are not there; `README.md:173-174` says that
  retirement "occurs only after the destination has been verified", which it was.
  `RetiredOnlyAfterVerified` and `ItemsTellTheTruth` exempt what the user has `touched`.
- After `link` the staging file and the destination are one inode (`:311`). A worker that has
  lost its lease and has the staging file open may write a chunk of a source that has changed
  meanwhile into the verified destination (`:368`), over what the user has made
  of it, or may truncate it for a clean retry (`:296`). `DestinationsNeverReplaced` allows for
  this, and the other two for what it has `spoilt`. It takes a second worker:
  `OneWorkerSpoilsNothing`.
- A crash after the rename into quarantine and then a new file at the source path make the
  retry take that file for a changed source (`:422-424`). The item fails, and the plan closes
  with a file in quarantine that has no record, although "A crash after the filesystem
  operation but before the receipt is recognized as already completed"
  (`README.md:213-214`). `ClosedPlanRecordsEveryMove` exempts the paths that are `refilled`.
  A late worker's rename of such a file replaces the quarantined one.
- `rename` replaces a file that comes to the destination of an organization move,
  or to the original path of a restore, after the final check. Only transfers
  keep `DestinationsNeverReplaced`.
- A root that is gone when an item is taken up again after a crash makes the item
  fail before the file that was already moved into quarantine is looked for, and
  the plan closes without its record. `ClosedPlanRecordsEveryMove` is therefore
  checked with the gate open. The same holds for a move of an organization run
  whose volume is away at that moment, so `ClosedRunAccountsForEveryMove` leaves
  out the operations that were looked at then (`obscured`).
- Without hard links the final file is copied in place, so a crash leaves part
  of it there, which later attempts refuse as a collision.

Analysis and planning:

- `clearDuplicateGroups` deletes the groups and with them the decisions on their
  members, although `README.md:87` says that decisions survive refreshes.
  `DecidedStaysDecided` is about review items, which do. The user may decide one again,
  and otherwise (`intelligence-store.ts:1380-1392` does not ask for its status); that takes two
  acts, which the theorem covers and the bound of the run does not.
- The review of a group stays open while `clearDuplicateGroups` takes its members away,
  until `upsertExactGroup` brings them back. A page that the planner reads in between
  plans to move these files, although "An unresolved Needs Review item blocks automatic
  organization" (`intelligence-store.ts:1785-1806`). `ReviewedFilesStay` asks that the
  review has led to the file all along.
- A file whose analysis failed is not put in Needs Review (`analysis-job.ts:139`,
  against `README.md:58-59`), and `CompletedMeansDone` does not ask for it.
- The hashing of candidates that begins before their detection has completed
  covers what has been detected by then, possibly nothing (`early`).
- Hashing the duplicate candidates and hashing all files are two jobs (`analysis-service.ts`
  gives them two keys) that clear and build the same exact groups. When one is paused in
  the middle of its groups and the other then clears them and loses its lease or is
  cancelled, the first goes on from its checkpoint and completes without the groups
  that it had built. TLC finds this with three jobs; `CompletedMeansDone` is
  checked with one job of each stage.
- `mediaPairCandidates` pages by the source path alone, so a second pair of one
  source behind the end of a page is dropped (`intelligence-store.ts:1497`); `Found`
  has this.
- A second plan from the same scan counts as fresh as the first, after the files
  have moved (`organization-planner.ts:230`).

Ingest and enrollment:

- Resolving the last review item while the analysis goes on makes the plan ready,
  and files that nobody has looked at can move with it (`early`).
- A directory that is deleted during discovery fails the plan, on every attempt.
- An item that is resolved and has no digest always fails in the transfer.
- A change of write access that reads before a revocation and appends after it
  makes the root approved again. Two approvals of one proposal both succeed.
- A torn line within the journal makes every read refuse from then on; hence
  `Readable` in `AcknowledgedIsKept`.

**Bounds, and why they are enough.** `MaxJobs` (rows), `MaxUnits` (largest
checkpoint), `PauseBound` (no pause request to a job that has run so often) and
`MaxCrashes` keep the state space finite. Jobs share nothing but keys and the
order of claiming, so two show their interference in `job_queue`; the worker loop
never looks at a job but its own, so one is enough for `worker`. Attempts beyond
the limit of two and a lease of one unit of time let every expiry, retry and
exhaustion happen. One act of the user (`MaxActs`) meets every point of every worker: the
cases under *Files* take one each. Two workers are one with a lost lease and one that took over.
Two chunks give a copy a middle in which to be interrupted. `MaxRuns`, `MaxActs`,
`MaxChanges` and `MaxAsked` bound the runs of a plan, what the user does to files,
gate and group, and the requests. Two items give a cursor something to skip;
pages of one or two, and chunks smaller than a page, give each resumption a
boundary to fall on; a directory in a directory gives a frontier an order. Where
two of these multiply too far, the run keeps the ones its question needs:
`transfer` has two workers and one item, `transfer_resume` one worker and two
items, `organization` two operations or two runs, and `intelligence` two of the
four jobs at a time: each stage with the one whose results it reads, and with
another that goes on beside it. `GateMoves`
FALSE holds the gate open for the runs that are about something else. Symmetry is
used only for workers, plans and requests that no definition tells apart, and
only with invariants and action properties.

Each module has a type invariant (`RTypeOK`, `XTypeOK`, `OTypeOK`, `STypeOK`, ...).
Except for `TypeOK` and `GTypeOK`, they are kept as a statement of the shape of the
state and are not among the properties of the runs.

`CHECK_DEADLOCK FALSE` stands in every configuration but that of `worker`: requests
are finite in number, so the system may come to rest with nothing to do.

**Fairness.** `worker` assumes weak fairness of each step of a process that lives
(the loop of `runUntilStopped` never waits for anything but a timer), of the passing
of time, of a heartbeat getting old when no process is there to renew it (and of
no other: a process that lives may be late or punctual), and of `start`: as long as
the dashboard shows no worker, somebody asks for one. The application does so when
it begins (`src/web/main.ts`), and afterwards it is for the user to press the
button; without that assumption a dead worker stays dead, and jobs wait. Clients
owe nothing else: no resume or cancel need ever come. Stops and kills are finite in
number (`MaxCrashes`), because a user who stops every worker at once gets no work
done. The other runs check safety and assume no fairness.

## 4. What is proved

TLAPS checks the following for every value of the constants: any number of workers,
jobs, paths, items and crashes, any bound. The assumptions are the named `ASSUME`s of
the modules (`SubmissionsAssumption`, `BoundsAssumption`, `RequestsAssumption`,
`TransferAssumption`, `ReconciliationAssumption`, `GuardAssumption`,
`ScanAssumption`, `OrganizationAssumption`, ...): the types of the constants, and of
`ScanAssumption` that the paths form a tree under the root. TLC evaluates each of them in a
run. Ten theorems assume one worker (`Workers = {x}`), which may
crash, be paused and lose its lease, because with two workers what they state is false
(section 3). These are, with what they assume besides:

- `CompletedScansComplete`, `DestinationsFree` and `EveryFileAccountedFor`: only the job of
  the scan (`MaxJobs = 1`);
- `CompletedAnalysesComplete` and `CompletedPlansDone`: nothing;
- `MovesRecorded`: the gate stays open (`~GateMoves`), for the reason given in section 3
  under *Files*;
- `OneWorkerSpoilsNothing`: nothing;
- `RunsAccounted` and `RollbacksRestore`: nothing. There may be any number of runs of each
  mode, live ones included;
- `CompletedJobsDone`: there is one job of each stage (`OneOfAKind`; its key names the
  stage, the scan and the scope, so this excludes only hashing the candidates of a scan and all its
  files as well, where section 3 says that the property fails), and a sweep loses no pair
  (`PagesHold`): evidence comes in the order of its paths, as the `ORDER BY` has it, and either
  no two pairs have one source or all of them fit on a page, for the reason given under
  *Analysis and planning*.

| Module | Theorem | What it states |
|---|---|---|
| JobQueueProofs | `TypeCorrect`, `LeasesCorrect`, `AttemptsCorrect`, `BudgetCorrect` | the four invariants of `job_queue` |
| | `AuditCorrect`, `LeaseExclusive` | the two action properties of `job_queue` |
| | `LifecycleFollowed` | the queue implements JobLifecycle, job by job |
| HostProofs | `WorkersImplementQueue` | `WSpec` implements `Spec` |
| | `AcknowledgementsAccepted`, `CompletedIsDone` | the two invariants of `worker` |
| | `WritesFenced`, `CheckpointGrows` | its two action properties |
| | `AcknowledgementsKept`, `ApprovalsShown` | two of the three properties of `enrollment` |
| | `AuthorizationsShown` | a path is authorized only under a root that is approved and was shown |
| DuplicateProofs | `RestoreCorrect`, `RestoreImplementsQueue` | `RestoredIsHome`; `RSpec` implements `Spec` |
| | `GroupsExact`, `DecisionsStay` | two properties of `intelligence`, for any number of workers |
| | `CompletedJobsDone` | `CompletedMeansDone`, for one worker, one job of each stage and pages that hold their pairs |
| | `StagesImplementQueue` | `ISpec` implements `Spec` |
| TransferExecutionProofs | `SourcesKept`, `ItemsTruthful`, `NothingReplaced` | what `transfer` checks |
| | `CompletedPlansDone` | `CompletedPlanIsDone`, for one worker |
| | `MovesRecorded` | `ClosedPlanRecordsEveryMove`, for one worker and an open gate |
| | `OneWorkerSpoilsNothing` | one worker never changes a destination that was found good |
| | `TransfersImplementQueue` | `XSpec` implements `Spec` |
| ReconciliationProofs | `ComparisonExact`, `CountsCorrect` | what `reconciliation` checks |
| | `ReconciliationsImplementQueue` | `CSpec` implements `Spec` |
| ScanProofs | `ScanCountsCorrect`, `RevocationObeyed` | two properties of the scan in `planning`, alone and beside the planner |
| | `CompletedDirectoriesCovered` | what is in a completed directory is recorded, for any number of workers |
| | `CompletedScansComplete` | `CompletedScanIsComplete`, for one worker and the job of the scan |
| | `ReviewedFilesKept` | `ReviewedFilesStay`, for any number of workers |
| | `DestinationsFree`, `EveryFileAccountedFor` | the other two invariants of the planner, for one worker and the job of the scan |
| | `ScansImplementQueue` | `SSpec` and `PSpec` implement `Spec` |
| IngestProofs | `PlanTyped`, `DigestsCorrect` | two of the three invariants of `ingest`, for any number of workers |
| | `CompletedAnalysesComplete` | the third, `CompletedAnalysisIsComplete`, for one worker |
| | `AnalysesImplementQueue` | `GSpec` implements `Spec` |
| OrganizationProofs | `ReadOnlyObeyed` | `ReadOnlyStopsAtTheNextFile`, for any number of workers and runs |
| | `RunsAccounted`, `RollbacksRestore` | the other two properties of `organization`, for one worker |
| | `OrganizationsImplementQueue` | `OSpec` implements `Spec` |

**The queue.** `IndInv` is a predicate on one row, `RowInv`, that holds of every row:
leases, attempts and budget are inductive only together, because the type of a
finished attempt needs its number to be within the list, which the lease gives; that
recovery finishes the attempt that is open needs `AttemptsInv`; and the budget counts
finished attempts, so it needs to know that the last one is still open while the job
runs. The proof has a lemma for each row that the operations build (`ClaimedRow`,
`FailedRow`, `RecoveredRow`, ...) and one for each way of writing the table. From the
same lemmas follows `Effect`, what a step of the queue may do to any row (`RowStep`: which
statuses follow which, that attempts only grow, that a checkpoint changes only by
its holder or a restart). The life cycle follows from it, and so does everything that the
modules of workers need to know of the queue.

**The workers.** `LinkInv` (the second half of JobQueueProofs) links each process to the table: from the
claim to the report its job is a row, its attempt one of that row's, and nobody else's.
`Acts(w, done, saved)` is a step of worker `w` as its handler sees it: a step of the queue
or none, completing at most the jobs `done` and saving a checkpoint in at most `saved`. Each
queue call of `runOnce` and of the execution context is proved to be such a step once, for
any handler (`ProcessMovesActs`, `SaveContextActs`, `ThrowActs`, ...). A module that
adds a handler then proves its own part alone, and that its specification implements
`Spec` comes with it, which carries the theorems about the queue over.

**The handlers.** Each has an inductive invariant that says what a process has in its hands
at each point of its program:

- *Supervision*: `LoopInv` and `HeldInv`: how far the count is and what the row says as
  long as the lease is held. A worker that has lost its lease knows nothing, and the fence
  keeps what it writes out.
- *QuarantineRestore*: `HomeInv`: a file that has left quarantine does not go back,
  so what a process has seen of it stays true however late it acts.
- *TransferExecution*: `XInv`, for any number of workers: what was found good at a
  destination is `Verified` for ever, good or accounted for by `touched` or `spoilt`, and a
  quarantined file stays or its path was `refilled` (`FileSteps`). So what a worker has seen
  stays true until it writes it down. No lease is needed, and none protects the files.
  `CopyInv` is for the final copies without hard links: no open staging file is a
  destination, and a file that is being filled is nobody else's (`Apart`), so only a link
  lets a worker change a good destination. `AheadInv` adds that one worker has a copy open
  only while there is no file of its own at the destination, and so spoils none. That the plan
  ends as it says is more, and needs the one worker: `SoleInv` says that every item up
  to the checkpoint, of the row or in hand, is settled, and that those before the cursor
  are; so a page that is empty means that all are. `MoveInv` says that a file in quarantine
  without a record (`Loose`) is that of an item which is not settled and which the worker,
  when it takes the item up again, looks for in quarantine before anything
  else, and finds: with the gate open nothing ends the item earlier.
- *Intelligence*: `StoreStep`, what a step may do to the tables, whoever takes it. A digest is
  written only for a file that still is what was inventoried, a group is built of digests that are there, and a review is opened only
  where there is none. All three speak of the observation and not of the worker, so late
  workers, repeated chunks and a restart from an old checkpoint change nothing.
- *Reconciliation*: `RowsInv`, `RunInv`, `WorkInv`: every position that a worker, a checkpoint or
  the run names has all differences before it among the deltas. Two workers may sweep at
  once and the phase may go back; nobody is ever further than what has been found.
- *RootGuard*: `EInv` and `GuardInv`: what a request will append to the journal is justified
  when it has read, by a proposal that was shown or by the line that it read.
- *InventoryScan*: `SInv`: of each directory, what the user has left alone is still to be
  read, in a worker's hands, or recorded (`ReadInv`); completed directories are covered
  (`CoveredRows`); a worker that has written since the revocation is not where it could
  write again (`LateInv`). The counters are kept by the cardinalities of disjoint
  unions, since `writeBatch` counts only what it inserted. With one worker (`SoleInv`)
  the directory that is being processed is the one that worker reads, so an empty
  frontier is a finished one; and a scan that is cancelled is not read again, although
  `resumeScan` would leave its directories where they are, because its job can only end
  cancelled: the request stays in the row until a worker or the recovery honours it. Then
  the covered directories contain all that can be reached from the root (`WholeTree`).

- *OrganizationPlan*: `DraftInv`, for any number of workers: what the draft has counted is
  the cardinality of the records done, its destinations are distinct and were free
  when they were taken, and the evidence of the page in hand still contains the reviews that
  have been open all along. That a stored plan is right about the scan as it *now*
  is needs `CurrentInv`, for one worker: `createPlan` refuses a scan that has not
  completed, a completed scan is not written to any more (`ScanRests`), and so the pages
  come one behind the other (`PagesComeInOrder`) and nothing appears behind the cursor.
  With two workers a late one may still record a file, and neither property holds.

- *IngestPlan*: `GInv`, for any number of workers: ordinals are the numbers below the count
  of the items, each once, because a batch counts on from what is there and a batch is
  written in one transaction; of each worker between two writes, what it has in its
  hands (`BatchInv`: entries of one directory, none twice; `WorkInv`: an item that is
  listed). A digest is of what was discovered because `AnalyzeItem` writes under the version
  it read, and because what the user does to a file makes a new version. `SInv` is about
  the only worker: nobody else takes its lease (`SoleLease`), what is in a completed directory
  is recorded, and of the directory in hand what is neither recorded nor in the batch is
  still to be read (`Discovering`), so when none is pending the completed directories are the
  whole tree (`WholeSource`). The checkpoint leaves 0 only then, and a batch is only written
  while it is 0, so from there on nothing new appears: what is still to be analysed lies
  behind the checkpoint and behind the worker's position (`Swept`, `Ahead`), and an empty page
  means that there is none. A plan has one analysis, because `request` only goes on; its
  status says that it is analysed only when it is, or when a review said so (`early`).

- *Organization*: `OInv`, for any number of workers: every job is that of one run, and a
  worker that has moved a file since the gate closed (`late`) is not between the
  check of the mode and a rename, where it comes only through an open gate. `SInv` is
  about the only worker. A file is at one of its two paths as far as the user has left it
  (`FilesInv`). An outcome in hand or in a receipt tells where the file is (`TrueOutcome`), of a live
  run until it closes, for then its rollback may begin. What has no receipt is still to do or
  in hand (`Remains`), so a run that has nothing left to do has a receipt for every operation,
  and what the worker has looked at is still so when it acts (`Knows`). A file at its
  destination is accounted for by some live run (`ReceiptsInv`): the one that moved it, which
  either has recorded it or still has no outcome for it. Two live runs of one plan meet in one
  file only by a rename of one of them, and the renaming run is itself the exception that the
  properties name: a rollback is of a closed run with a receipt (`Undone`), and an open live run
  has no outcome for the file in its hands (`Accounted`).

- *Intelligence*: `DInv`, for one worker. Of each job it says what the tables hold behind its
  checkpoint (`BehindIn`: candidates or exact groups up to a key, files hashed or in Needs
  Review up to a path, files understood), and of the worker what they hold at each place of a handler
  but for what it has in hand (`Work`: the page, the chunk, the file or the group between two
  of its writes). What another stage writes in between disturbs neither, because each
  stage has tables of its own (`OthersKept`); the one that reads what another writes is the hashing of
  candidates, whose scope is fixed from the moment it begins: either detection has
  completed, and is not run again, or the job is `early`. What the user does to files and
  reviews takes nothing away that was hashed or asked for (`UserSpares`). So an empty
  page means that nothing is left, and only the report of the worker completes a job
  (`CompletesOwn`).

Most of these invariants were first checked by TLC on the instances of the runs.

**Only model-checked.** Liveness (`EveryJobSettles`), which is out of reach of the prover
here. `QuietAuthorizationIsSafe`, because `realpath` is a recursive function of the disk,
and what it computes takes induction over paths. Everything about TransferPlanning, whose one property is
refuted.

## 5. Not modelled

The web server, the UI and the MCP adapter keep no state between requests, and
their requests are the client actions of the models. `src/domain`, `src/executor`,
`src/journal`, `src/planner`, `src/analysis` and `src/ingest` hold types and
operations that refuse. Analysers, the categorizer, the model client and the search
index compute values and follow no protocol; their results are members of small
sets. The stages that the pages show, the audit tables, which nothing reads
back, and the hash chain of the organization audit are left out. The user of the models
does not work in the quarantine directory, and does not put a file back that was approved for
a transfer and is gone. SHA-256 is taken to tell contents apart, and an SQLite
transaction to be atomic and durable, as its `synchronous = FULL` sets it. In the
transfers and moves, symbolic links, reparse points and volume identities appear
as the one answer "gone" of the gate; what the gate does is in RootGuard. Names'
spelling (case, Windows drives and streams) is left out of PathSafety.

## 6. The plan

What remains is a condition weaker than `OneOfAKind`, under which the
two hashings of a scan never have their exact groups in hand at once.
