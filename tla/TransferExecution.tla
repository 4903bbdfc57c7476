-------------------------- MODULE TransferExecution --------------------------
(***************************************************************************)
(* One transfer plan from its approval to its receipt: approve() of        *)
(* src/transfer/transfer-service.ts, which runs in the server, and the     *)
(* TransferExecutionEngine of src/transfer/transfer-job.ts, which runs in  *)
(* the workers under the lease of the plan's job.                          *)
(*                                                                         *)
(* The job table, transfers.sqlite and the two file systems share no       *)
(* transaction, and only the job table checks the lease: a worker whose    *)
(* lease has run out learns of it at its next queue call and goes on with  *)
(* files and plan until then, beside the worker that took over.            *)
(*                                                                         *)
(* Abstractions.  A source is absent, "good" (the bytes the plan approved) *)
(* or "other"; the user does not put the approved file back where it was.  *)
(* The files that workers make are inodes of a number of chunks, which the *)
(* staging and the destination path name and open handles keep: a hard     *)
(* link gives one inode both names, and a write through a handle reaches   *)
(* it under any name.  What a process wrote stays written when it dies;    *)
(* what a power failure leaves of a staging file the user can do to it.    *)
(* The plan has one execution job because its idempotency key is made of   *)
(* the plan's id.  A read that decides and the write that follows at once  *)
(* are one step where a later step checks again what was read.             *)
(***************************************************************************)
EXTENDS WorkerProcess

CONSTANTS
  Chunks,       \* how many chunks a file has
  Plans,        \* the plans to begin with, each a kind - "copy", "retire" (copy,
                \* then quarantine the source) or "consolidate" (quarantine the
                \* source only) - its items, which are the ordinals 1 .. N, and
                \* the requests to approve it
  HardLinks,    \* does the destination's file system have hard links?
  GateMoves,    \* may the gate close and open again?
  MaxActs       \* bound: how often a file is changed, removed or added by the
                \* user, or the gate closed or opened

PlanKinds == {"copy", "retire", "consolidate"}

ASSUME TransferAssumption ==
  /\ Chunks \in Nat \ {0}
  /\ \A p \in Plans : p.kind \in PlanKinds /\ \E n \in 0 .. MaxUnits : p.items = 1 .. n
  /\ HardLinks \in BOOLEAN /\ GateMoves \in BOOLEAN /\ MaxActs \in Nat
  /\ Cardinality(Submissions) = 1
  /\ NoLocal = [todo |-> {}, verified |-> {}, item |-> 0, offset |-> 0, handle |-> 0,
                from |-> FALSE, target |-> 0, again |-> FALSE]

VARIABLES
  plan,       \* the plan's kind and status, and whether it has its receipt and
              \* the scan of the destination that follows
  items,      \* the status of each item
  recorded,   \* the items that have a quarantine record
  source,     \* the file at each item's source path
  disk,       \* the files that were made for each item in the destination's
              \* file system: their contents, in order of creation
  staging,    \* which of them is at each item's staging path, or Absent
  dest,       \* which of them is at its destination path; or Absent; or
              \* Foreign, a file of the user's own
  quarantine, \* the file at each item's quarantine path
  touched,    \* the items whose destination the user has changed or removed
              \* since a worker last found it good, and
  spoilt,     \* those whose good destination a worker has changed since then
  gate,       \* "open"; or what keeps files from being changed: mutation mode
              \* is "readOnly", or a root's approval or volume is "gone"
  approvals,  \* how far each approval request has come
  acts,       \* how often the user has changed a file or the gate
  refilled    \* the items where the user put a file at a vacated source path

store == <<plan, items, recorded>>
files == <<source, disk, staging, dest, quarantine, touched, spoilt>>
outside == <<gate, approvals, acts, refilled>>
vars == <<jobs, workers, crashes, store, files, outside>>

Kind == plan.kind
Items == DOMAIN items
Approvals == DOMAIN approvals
Absent == 0
Foreign == -1
Size == Chunks

\* How many chunks a file has, and which of them are not the approved ones. A file can be
\* longer than the approved one.
Content == [size : 0 .. Size + 1, bad : SUBSET (1 .. Size)]
Empty == [size |-> 0, bad |-> {}]
Approved == [size |-> Size, bad |-> {}]
Good(i, n) == n > 0 /\ disk[i][n] = Approved

PlanStatuses == {"ready-for-approval", "approved", "transfer-queued", "transferring",
                 "completed", "partial", "failed", "cancelled"}
Gates == {"open", "readOnly", "gone"}
ItemStatuses == {"ready", "copying", "verified", "completed", "quarantined", "failed"}

setPlanState(status) == plan' = [plan EXCEPT !.status = status]
setItemState(i, status) == items' = [items EXCEPT ![i] = status]

\* The handler's variables: the batch it works on, the items of the batch that
\* were verified when it was read, the current item, the copy's offset, the open
\* staging file and whether the approved source is open, the file that a final
\* copy makes, and whether this is the clean retry of the copy.
Locals == [todo : SUBSET Items, verified : SUBSET Items, item : Items \cup {0},
           offset : 0 .. Size, handle : Nat, from : BOOLEAN, target : Nat, again : BOOLEAN]
Local(w) == workers[w].local
Item(w) == Local(w).item

HandlerPoints ==
  {"begin", "start", "batch", "next", "failItem", "checkpoint", "progress", "close",
   "receipt", "refresh", "failPlan", "pausePlan", "cancelPlan", "existing", "source",
   "open", "trim", "chunk", "write", "mark", "bytes", "beat", "truncate",
   "verifyCopy", "reopen", "empty", "promote",
   "finalCopy", "committed", "markVerified", "markCompleted", "retire", "move",
   "moved", "record"}

-----------------------------------------------------------------------------
(* The server: approve().                                                  *)

Answer(a, point) == approvals' = [approvals EXCEPT ![a] = point]

\* The plan is read before the gates are awaited.
ApproveRead(a) ==
  /\ approvals[a] = "new"
  /\ plan.status = "ready-for-approval"
  /\ Answer(a, "checked")
  /\ UNCHANGED <<jobs, plan>>

ApproveWrite(a) ==
  /\ approvals[a] = "checked"
  /\ \/ gate = "open" /\ setPlanState("approved") /\ Answer(a, "approved")
     \/ gate # "open" /\ Answer(a, "refused") /\ UNCHANGED plan
  /\ UNCHANGED jobs

\* A second submission of the same work returns the first job.
ApproveSubmit(a) ==
  /\ approvals[a] = "approved"
  /\ \/ \E s \in Submissions : Submit(s)
     \/ Ids # {} /\ UNCHANGED jobs
  /\ Answer(a, "submitted")
  /\ UNCHANGED plan

\* Whatever the worker has done with the plan since the job was submitted.
ApproveQueued(a) ==
  /\ approvals[a] = "submitted"
  /\ setPlanState("transfer-queued")
  /\ Answer(a, "answered")
  /\ UNCHANGED jobs

Server ==
  /\ \E a \in Approvals :
       ApproveRead(a) \/ ApproveWrite(a) \/ ApproveSubmit(a) \/ ApproveQueued(a)
  /\ UNCHANGED <<workers, crashes, items, recorded, files, gate, acts, refilled>>

-----------------------------------------------------------------------------
(* The engine: run().                                                      *)

Step(w, from, to) == At(w, from) /\ Goto(w, to)
OnlyWorker == UNCHANGED <<jobs, store, files>>

Load(w) == LoadJob(w, "begin", NoLocal) /\ UNCHANGED <<store, files>>

Executable == plan.status \in {"approved", "transfer-queued", "transferring"}

Begin(w) ==
  /\ At(w, "begin")
  /\ IF plan.status \in {"completed", "partial"} THEN Goto(w, "finish")
     ELSE IF ~Executable THEN Throw(w, FALSE)
     ELSE Goto(w, IF gate = "open" THEN "start" ELSE "failPlan")
  /\ OnlyWorker

\* The cursor is the last completed ordinal of the checkpoint.  A byte
\* checkpoint has none and starts again from the first item.
Start(w) ==
  /\ At(w, "start")
  /\ Continue(w, "batch", [NoLocal EXCEPT !.item = workers[w].saved])
  /\ setPlanState("transferring")
  /\ UNCHANGED <<jobs, items, recorded, files>>

\* A control check outside an item's try block: the plan answers to it too.
Controlled(w, next) ==
  CASE controlSignal(w) = "stale" -> Goto(w, "failPlan")
    [] controlSignal(w) = "cancel" -> Goto(w, "cancelPlan")
    [] controlSignal(w) = "pause" -> Goto(w, "pausePlan")
    [] OTHER -> next

WorkItems(cursor) ==
  {i \in Items : items[i] \in {"ready", "copying", "verified"} /\ i > cursor}

Batch(w) ==
  LET work == WorkItems(Item(w))
  IN /\ At(w, "batch")
     /\ OnlyWorker
     /\ Controlled(w, Continue(w, IF work = {} THEN "close" ELSE "next",
                               [Local(w) EXCEPT !.todo = work,
                                  !.verified = {i \in work : items[i] = "verified"}]))

\* Where the work on an item begins: quarantineSource or transferOne.
FirstPoint == IF Kind = "consolidate" THEN "retire" ELSE "existing"

TakeItem(w) ==
  /\ At(w, "next")
  /\ OnlyWorker
  /\ IF Local(w).todo = {} THEN Goto(w, "batch")
     ELSE LET i == CHOOSE i \in Local(w).todo : \A k \in Local(w).todo : i <= k
          IN Controlled(w, Continue(w, IF gate = "open" THEN FirstPoint ELSE "failPlan",
                                    [Local(w) EXCEPT !.item = i, !.todo = @ \ {i}]))

\* What the handler keeps when it has closed the files of an item.
Closed(w) ==
  [NoLocal EXCEPT !.todo = Local(w).todo, !.verified = Local(w).verified, !.item = Item(w)]

\* The catch of an item: it fails, and the plan goes on with the next one.
FailItem(w) ==
  /\ At(w, "failItem") /\ Continue(w, "checkpoint", Closed(w))
  /\ setItemState(Item(w), "failed")
  /\ UNCHANGED <<jobs, plan, recorded, files>>

Checkpoint(w) ==
  /\ At(w, "checkpoint")
  /\ \/ SaveContext(w, Item(w), "progress", Local(w))
     \/ LeaseLost(w) /\ Goto(w, "failPlan") /\ UNCHANGED jobs
  /\ UNCHANGED <<store, files>>

Progress(w) ==
  /\ At(w, "progress")
  /\ \/ ReportContext(w, "next", Local(w))
     \/ LeaseLost(w) /\ Goto(w, "failPlan") /\ UNCHANGED jobs
  /\ UNCHANGED <<store, files>>

Close(w) ==
  /\ Step(w, "close", "receipt")
  /\ setPlanState(IF \E i \in Items : items[i] = "failed" THEN "partial" ELSE "completed")
  /\ UNCHANGED <<jobs, items, recorded, files>>

SaveReceipt(w) ==
  /\ Step(w, "receipt", "refresh")
  /\ plan' = [plan EXCEPT !.receipt = TRUE]
  /\ UNCHANGED <<jobs, items, recorded, files>>

SubmitCatalogRefresh(w) ==
  /\ Step(w, "refresh", "finish")
  /\ plan' = [plan EXCEPT !.refreshed = (Kind # "consolidate")]
  /\ UNCHANGED <<jobs, items, recorded, files>>

\* The catch of the run: everything that is not a pause or a cancellation
\* fails the plan, and the job for good.
FailPlan(w) ==
  /\ At(w, "failPlan")
  /\ setPlanState("failed")
  /\ Throw(w, FALSE)
  /\ UNCHANGED <<jobs, items, recorded, files>>

InterruptPlan(w) ==
  /\ \/ Step(w, "pausePlan", "ackPause") /\ setPlanState("transfer-queued")
     \/ Step(w, "cancelPlan", "ackCancel") /\ setPlanState("cancelled")
  /\ UNCHANGED <<jobs, items, recorded, files>>

RunMoves(w) ==
  \/ Load(w) \/ Begin(w) \/ Start(w) \/ Batch(w) \/ TakeItem(w) \/ FailItem(w)
  \/ Checkpoint(w) \/ Progress(w) \/ Close(w) \/ SaveReceipt(w)
  \/ SubmitCatalogRefresh(w) \/ FailPlan(w) \/ InterruptPlan(w)

-----------------------------------------------------------------------------
(* One item: transferOne, copyVerifyCommit and copyResumable.              *)

OnItem(w, from, to) == Step(w, from, to) /\ UNCHANGED <<jobs, plan, recorded>>

\* validateGates, inside the try block of an item: read-only mode ends the
\* plan, a root that is not approved or not there fails the item.
Gated(to) == CASE gate = "open" -> to
               [] gate = "readOnly" -> "failPlan"
               [] gate = "gone" -> "failItem"

AfterVerified == IF Kind = "retire" THEN "retire" ELSE "markCompleted"

Put(files_, i, file) == [files_ EXCEPT ![i] = file]

\* A worker has found the destination of i good, or has not looked.
Found(i, good) ==
  /\ touched' = IF good THEN touched \ {i} ELSE touched
  /\ spoilt' = IF good THEN spoilt \ {i} ELSE spoilt

\* Faulty: a destination that exists is taken for a copy already made.
Existing_AnyFile(w) ==
  /\ OnItem(w, "existing", Gated(
       IF Item(w) \in Local(w).verified THEN AfterVerified
       ELSE IF dest[Item(w)] = Absent THEN "source" ELSE "markVerified"))
  /\ UNCHANGED <<items, files>>

\* What is at the destination already must have the approved digest, unless
\* the item was verified before: then nobody looks at it again.
Existing(w) ==
  LET i == Item(w)
      seen == i \notin Local(w).verified /\ gate = "open"
  IN /\ OnItem(w, "existing", Gated(
          IF i \in Local(w).verified THEN AfterVerified
          ELSE IF dest[i] = Absent THEN "source"
          ELSE IF Good(i, dest[i]) THEN "markVerified" ELSE "failItem"))
     /\ Found(i, seen /\ Good(i, dest[i]))
     /\ UNCHANGED <<items, source, disk, staging, dest, quarantine>>

\* The source is as approved and there is room, or the item fails.
CheckSource(w) ==
  /\ At(w, "source")
  /\ \/ /\ source[Item(w)] = "good"
        /\ OnItem(w, "source", "open")
        /\ setItemState(Item(w), "copying")
     \/ OnItem(w, "source", "failItem") /\ UNCHANGED items
  /\ UNCHANGED files

ChunkOrDone(offset) == IF offset = Size THEN "truncate" ELSE "chunk"

\* The source is opened, and the staging file is opened or created; the copy
\* goes on where it ends.
OpenStaging(w) ==
  LET i == Item(w)
      new == staging[i] = Absent
      n == IF new THEN Len(disk[i]) + 1 ELSE staging[i]
      size == IF new THEN 0 ELSE disk[i][n].size
      offset == IF size > Size THEN 0 ELSE size
  IN /\ At(w, "open")
     /\ UNCHANGED <<jobs, store, source, dest, quarantine, touched, spoilt>>
     /\ \/ source[i] = "absent" /\ Goto(w, "failItem") /\ UNCHANGED <<disk, staging>>
        \/ /\ source[i] # "absent"
           /\ Continue(w, IF size > Size THEN "trim" ELSE ChunkOrDone(offset),
                       [Local(w) EXCEPT !.handle = n, !.from = (source[i] = "good"),
                                        !.offset = offset])
           /\ staging' = Put(staging, i, n)
           /\ disk' = IF new THEN Put(disk, i, Append(disk[i], Empty)) ELSE disk

\* A worker writes through an open handle, whatever names the file has by now.
Overwrite(i, n, content) ==
  /\ disk' = [disk EXCEPT ![i][n] = content]
  /\ spoilt' = IF n = dest[i] /\ Good(i, n) /\ content # Approved
               THEN spoilt \cup {i} ELSE spoilt
  /\ UNCHANGED <<source, staging, dest, quarantine, touched>>

\* What a file is after a chunk was written to it, and after truncate(); a gap is zeros.
Written(c, k, good) ==
  [size |-> IF c.size < k THEN k ELSE c.size,
   bad |-> (IF good THEN c.bad \ {k} ELSE c.bad \cup {k}) \cup (c.size + 1 .. k - 1)]
Resized(c, k) == [size |-> k, bad |-> (c.bad \cap 1 .. k) \cup (c.size + 1 .. k)]

\* The control check before a chunk is inside the item's try block: a lost
\* lease fails the item there, and the plan at the next checkpoint.
CheckChunk(w) ==
  /\ At(w, "chunk")
  /\ OnlyWorker
  /\ IF controlSignal(w) = "stale" THEN Goto(w, "failItem")
     ELSE Controlled(w, Goto(w, Gated("write")))

\* What is read is what was approved while nobody has changed the opened source, which may
\* be in quarantine by now; else it is anything, or nothing.
\* The last chunk is reported, and any other when five seconds have passed.
WriteChunk(w) ==
  LET i == Item(w)
      offset == Local(w).offset + 1
      n == Local(w).handle
      approved == Local(w).from /\ "good" \in {source[i], quarantine[i]}
  IN /\ At(w, "write")
     /\ UNCHANGED <<jobs, store>>
     /\ \/ ~approved /\ Goto(w, "failItem") /\ UNCHANGED files
        \/ \E good \in {TRUE, approved}, point \in {"mark", "chunk"} :
             /\ offset = Size => point = "mark"
             /\ Overwrite(i, n, Written(disk[i][n], offset, good))
             /\ Continue(w, point, [Local(w) EXCEPT !.offset = offset])

MarkBytes(w) ==
  /\ OnItem(w, "mark", "bytes")
  /\ setItemState(Item(w), "copying")
  /\ UNCHANGED files

\* Faulty: the byte checkpoint carries the ordinal of the unfinished item.
SaveBytes_AsOrdinal(w) ==
  /\ \/ At(w, "bytes") /\ SaveContext(w, Item(w), "beat", Local(w))
     \/ At(w, "beat") /\ ReportContext(w, ChunkOrDone(Local(w).offset), Local(w))
     \/ /\ At(w, "bytes") \/ At(w, "beat")
        /\ LeaseLost(w) /\ Goto(w, "failItem") /\ UNCHANGED jobs
  /\ UNCHANGED <<store, files>>

\* The byte checkpoint, which has no ordinal, and the heartbeat.
SaveBytes(w) ==
  /\ \/ At(w, "bytes") /\ SaveContext(w, 0, "beat", Local(w))
     \/ At(w, "beat") /\ ReportContext(w, ChunkOrDone(Local(w).offset), Local(w))
     \/ /\ At(w, "bytes") \/ At(w, "beat")
        /\ LeaseLost(w) /\ Goto(w, "failItem") /\ UNCHANGED jobs
  /\ UNCHANGED <<store, files>>

\* truncate() through the open handle: of a file that was too long when it was
\* opened, of one that was copied to its end, and before the clean retry.
Truncate(w) ==
  LET i == Item(w)
      n == Local(w).handle
  IN /\ UNCHANGED <<jobs, store>>
     /\ \/ Step(w, "trim", "chunk") /\ Overwrite(i, n, Resized(disk[i][n], 0))
        \/ /\ At(w, "truncate")
           /\ Overwrite(i, n, Resized(disk[i][n], Size))
           /\ Continue(w, "verifyCopy", [Closed(w) EXCEPT !.again = Local(w).again])
        \/ /\ At(w, "empty")
           /\ Overwrite(i, n, Resized(disk[i][n], 0))
           /\ Continue(w, "open", [Closed(w) EXCEPT !.again = TRUE])

\* Source and staging must both have the approved digest.  A staging file that
\* has not is copied once more from the beginning, and then only it is read.
VerifyCopy(w) ==
  LET i == Item(w)
      right == Local(w).again \/ source[i] = "good"
  IN /\ At(w, "verifyCopy")
     /\ OnlyWorker
     /\ Goto(w, CASE staging[i] = Absent \/ ~right -> "failItem"
                  [] right /\ Good(i, staging[i]) -> "promote"
                  [] OTHER -> IF Local(w).again THEN "failItem" ELSE "reopen")

\* The clean retry opens the file that is at the staging path by now.
Reopen(w) ==
  /\ At(w, "reopen")
  /\ OnlyWorker
  /\ IF staging[Item(w)] = Absent THEN Goto(w, "failItem")
     ELSE Continue(w, "empty", [Local(w) EXCEPT !.handle = staging[Item(w)]])

\* Faulty: the staging file is renamed to the destination.
Promote_Rename(w) ==
  /\ At(w, "promote")
  /\ gate = "open" /\ staging[Item(w)] # Absent
  /\ OnItem(w, "promote", "committed")
  /\ dest' = Put(dest, Item(w), staging[Item(w)])
  /\ UNCHANGED <<items, source, disk, staging, quarantine, touched, spoilt>>

\* link() never replaces a file.  Where there are no hard links the copy that
\* takes its place is exclusive too, but not atomic.
Promote(w) ==
  LET i == Item(w)
      n == Len(disk[i]) + 1
      free == gate = "open" /\ staging[i] # Absent /\ dest[i] = Absent
  IN /\ At(w, "promote")
     /\ UNCHANGED <<jobs, store, source, staging, quarantine, touched, spoilt>>
     /\ \/ /\ free /\ HardLinks
           /\ Continue(w, "committed", Closed(w))
           /\ dest' = Put(dest, i, staging[i])
           /\ UNCHANGED disk
        \/ /\ free /\ ~HardLinks
           /\ Continue(w, "finalCopy", [Closed(w) EXCEPT !.handle = staging[i], !.target = n])
           /\ dest' = Put(dest, i, n)
           /\ disk' = Put(disk, i, Append(disk[i], Empty))
        \/ /\ ~free
           /\ Goto(w, Gated("failItem"))
           /\ UNCHANGED <<dest, disk>>

FinalCopy(w) ==
  /\ At(w, "finalCopy")
  /\ Overwrite(Item(w), Local(w).target, disk[Item(w)][Local(w).handle])
  /\ Continue(w, "committed", Closed(w))
  /\ UNCHANGED <<jobs, store>>

\* The destination is read back, then the staging file is removed.
Committed(w) ==
  LET i == Item(w)
  IN /\ OnItem(w, "committed", IF Good(i, dest[i]) THEN "markVerified" ELSE "failItem")
     /\ staging' = IF Good(i, dest[i]) THEN Put(staging, i, Absent) ELSE staging
     /\ Found(i, Good(i, dest[i]))
     /\ UNCHANGED <<items, source, disk, dest, quarantine>>

MarkVerified(w) ==
  /\ OnItem(w, "markVerified", AfterVerified)
  /\ setItemState(Item(w), "verified")
  /\ UNCHANGED files

MarkCompleted(w) ==
  /\ OnItem(w, "markCompleted", "checkpoint")
  /\ setItemState(Item(w), "completed")
  /\ UNCHANGED files

-----------------------------------------------------------------------------
(* Quarantine of an item's source: quarantineSource.                       *)

\* Consolidation looks for a record before it looks at the gates.
RecordFound == IF Kind = "consolidate" THEN "checkpoint" ELSE Gated("checkpoint")

\* Faulty: a source that is gone is taken for one somebody deleted.
Retire_NoRecovery(w) ==
  LET i == Item(w)
  IN /\ OnItem(w, "retire",
              IF i \in recorded THEN RecordFound
              ELSE Gated(IF source[i] = "good" THEN "move" ELSE "failItem"))
     /\ UNCHANGED <<items, files>>

\* A source that is gone was moved before a crash if the file at its
\* quarantine path, which is made of the ids of plan and item, is it.
Retire(w) ==
  LET i == Item(w)
  IN /\ OnItem(w, "retire",
              IF i \in recorded THEN RecordFound
              ELSE Gated(CASE source[i] = "good" -> "move"
                           [] source[i] = "absent" /\ quarantine[i] = "good" -> "record"
                           [] OTHER -> "failItem"))
     /\ UNCHANGED <<items, files>>

\* The rename moves what is there by now.
Move(w) ==
  LET i == Item(w)
  IN /\ At(w, "move")
     /\ UNCHANGED <<items, disk, staging, dest, touched, spoilt>>
     /\ \/ /\ gate = "open" /\ source[i] # "absent"
           /\ OnItem(w, "move", "moved")
           /\ quarantine' = Put(quarantine, i, source[i])
           /\ source' = Put(source, i, "absent")
        \/ /\ gate # "open" \/ source[i] = "absent"
           /\ OnItem(w, "move", Gated("failItem"))
           /\ UNCHANGED <<source, quarantine>>

\* Faulty: the moved file is recorded without being read again.
Moved_Trusted(w) == OnItem(w, "moved", "record") /\ UNCHANGED <<items, files>>

Moved(w) ==
  /\ OnItem(w, "moved", IF quarantine[Item(w)] = "good" THEN "record" ELSE "failItem")
  /\ UNCHANGED <<items, files>>

\* One transaction inserts the record and marks the item; a second record for
\* the item is refused.
RecordQuarantine(w) ==
  /\ \/ /\ Step(w, "record", "checkpoint")
        /\ Item(w) \notin recorded
        /\ recorded' = recorded \cup {Item(w)}
        /\ setItemState(Item(w), "quarantined")
     \/ /\ Step(w, "record", "failItem")
        /\ Item(w) \in recorded
        /\ UNCHANGED <<recorded, items>>
  /\ UNCHANGED <<jobs, plan, files>>

ItemMoves(w) ==
  \/ Existing(w) \/ CheckSource(w) \/ OpenStaging(w) \/ CheckChunk(w) \/ WriteChunk(w)
  \/ MarkBytes(w) \/ SaveBytes(w) \/ Truncate(w) \/ VerifyCopy(w) \/ Reopen(w)
  \/ Promote(w) \/ FinalCopy(w) \/ Committed(w) \/ MarkVerified(w) \/ MarkCompleted(w)
  \/ Retire(w) \/ Move(w) \/ Moved(w) \/ RecordQuarantine(w)

-----------------------------------------------------------------------------
(* The user controls the job, closes and opens the gate, and changes,      *)
(* removes and adds files at the paths of an item.                         *)

Control == \E j \in Ids : RequestPause(j) \/ Resume(j) \/ Cancel(j)

EditSource(i) ==
  /\ \/ source[i] = "good" /\ source' = Put(source, i, "other")
     \/ source[i] # "absent" /\ source' = Put(source, i, "absent")
     \/ source[i] = "absent" /\ source' = Put(source, i, "other")
  /\ refilled' = IF source[i] = "absent" THEN refilled \cup {i} ELSE refilled
  /\ UNCHANGED <<disk, dest, touched>>

\* Other bytes, or more of them.
Edited == {[size |-> Size, bad |-> 1 .. Size], [size |-> Size + 1, bad |-> {}]}

EditDestination(i) ==
  /\ \/ /\ dest[i] = Absent
        /\ dest' = Put(dest, i, Foreign) /\ UNCHANGED <<disk, touched>>
     \/ /\ dest[i] # Absent
        /\ dest' = Put(dest, i, Absent) /\ UNCHANGED disk
        /\ touched' = IF dest[i] = Foreign THEN touched ELSE touched \cup {i}
     \/ \E n \in {staging[i], dest[i]} \ {Absent, Foreign}, c \in Edited :
          /\ disk' = [disk EXCEPT ![i][n] = c] /\ UNCHANGED dest
          /\ touched' = IF n = dest[i] THEN touched \cup {i} ELSE touched
  /\ UNCHANGED <<source, refilled>>

Edit(i) ==
  /\ EditSource(i) \/ EditDestination(i)
  /\ UNCHANGED <<staging, quarantine, spoilt>>

User ==
  \/ Control /\ UNCHANGED <<gate, files, acts, refilled>>
  \/ /\ acts < MaxActs /\ acts' = acts + 1
     /\ UNCHANGED jobs
     /\ \/ GateMoves /\ gate' \in Gates \ {gate} /\ UNCHANGED <<files, refilled>>
        \/ (\E i \in Items : Edit(i)) /\ UNCHANGED gate

XInit ==
  /\ ProcessInit
  /\ \E p \in Plans :
       /\ plan = [kind |-> p.kind, status |-> "ready-for-approval",
                  receipt |-> FALSE, refreshed |-> FALSE]
       /\ items = [i \in p.items |-> "ready"]
       /\ approvals = [a \in p.requests |-> "new"]
  /\ recorded = {}
  /\ source = [i \in Items |-> "good"]
  /\ disk = [i \in Items |-> <<>>]
  /\ staging = [i \in Items |-> Absent] /\ dest = [i \in Items |-> Absent]
  /\ quarantine = [i \in Items |-> "absent"]
  /\ gate = "open"
  /\ acts = 0 /\ touched = {} /\ spoilt = {} /\ refilled = {}

WorkerMoves(w) ==
  \/ ProcessMoves(w) /\ UNCHANGED <<store, files>>
  \/ RunMoves(w)
  \/ ItemMoves(w)

XNext ==
  \/ Server
  \/ \E w \in Workers : WorkerMoves(w) /\ UNCHANGED <<crashes, outside>>
  \/ \E w \in Workers : Crash(w) /\ UNCHANGED <<store, files, outside>>
  \/ Tick /\ UNCHANGED <<workers, crashes, store, files, outside>>
  \/ User /\ UNCHANGED <<workers, crashes, store, approvals>>

XSpec == XInit /\ [][XNext]_vars

-----------------------------------------------------------------------------
(* Properties.                                                             *)

FilesAt == {"absent", "good", "other"}

\* Every store, file and process has its type.
XTypeOK ==
  /\ TypeOK
  /\ workers \in [Workers -> Worker(HandlerPoints, Locals)]
  /\ crashes \in 0 .. MaxCrashes
  /\ plan \in [kind : PlanKinds, status : PlanStatuses, receipt : BOOLEAN, refreshed : BOOLEAN]
  /\ items \in [Items -> ItemStatuses]
  /\ recorded \subseteq Items
  /\ source \in [Items -> FilesAt] /\ quarantine \in [Items -> FilesAt]
  /\ disk \in [Items -> Seq(Content)]
  /\ \A i \in Items : /\ staging[i] \in {Absent} \cup DOMAIN disk[i]
                      /\ dest[i] \in {Absent, Foreign} \cup DOMAIN disk[i]
  /\ DOMAIN staging = Items /\ DOMAIN dest = Items
  /\ gate \in Gates
  /\ approvals \in [Approvals -> {"new", "checked", "approved", "submitted",
                                  "answered", "refused"}]
  /\ acts \in 0 .. MaxActs
  /\ touched \subseteq Items /\ spoilt \subseteq Items /\ refilled \subseteq Items

Verified(i) == Good(i, dest[i]) \/ i \in touched \/ i \in spoilt

\* "Source retirement occurs only after the destination has been verified": a
\* source that has been moved away for retirement has its bytes at the
\* destination, if neither the user nor a worker beside this one has changed
\* what was found good there. transfer-job.ts:209 trusts the verified status
\* that it has stored, and does not look again when it goes on after a pause or
\* a crash.
RetiredOnlyAfterVerified ==
  Kind = "retire" => \A i \in Items : quarantine[i] = "good" => Verified(i)

\* What the plan says of an item is true of the files: a verified or completed
\* item is at its destination, as far as it was left there, and a record of
\* quarantine has the approved bytes behind it, unless a file at the vacated
\* path was moved over them by a worker that came late.
ItemsTellTheTruth ==
  \A i \in Items :
    /\ items[i] \in {"verified", "completed"} => Verified(i)
    /\ items[i] = "quarantined" => i \in recorded
    /\ i \in recorded => quarantine[i] = "good" \/ i \in refilled

\* "Existing destinations are never replaced": neither the user's file nor
\* what another worker put there. A good one is changed by no worker but one
\* that has it open as its staging file, of which the destination is a link.
DestinationsNeverReplaced ==
  [][acts' = acts => \A i \in Items : dest[i] # Absent =>
       /\ dest'[i] = dest[i]
       /\ Good(i, dest[i]) /\ ~Good(i, dest[i])' =>
            HardLinks /\ \E w \in Workers : Item(w) = i /\ Local(w).handle = dest[i]]_vars

\* A plan that is reported completed has nothing left to do: no resumption,
\* byte checkpoint or crash makes the cursor skip an item.
CompletedPlanIsDone ==
  plan.status = "completed" => \A i \in Items : items[i] \in {"completed", "quarantined"}

\* "A crash after the filesystem operation but before the receipt is
\* recognized as already completed": a source that was moved into quarantine
\* has its record when the plan closes, even if the process died between the
\* rename and the record.  It holds for one worker while the gate stays open:
\* a root that is gone when the item is taken up again makes the item fail
\* before the moved file is looked for. And it holds if nobody has put another
\* file at the vacated path: that one is taken for a changed source
\* (transfer-job.ts:422-424), and the item fails.
ClosedPlanRecordsEveryMove ==
  plan.status \in {"completed", "partial"} =>
    \A i \in Items : quarantine[i] = "good" => i \in recorded \cup refilled

=============================================================================
