-------------------------- MODULE QuarantineRestore --------------------------
(***************************************************************************)
(* Restoring one quarantined file: the requests the server takes           *)
(* (restore() of src/transfer/transfer-service.ts) and the handler that    *)
(* carries them out in the workers (QuarantineRestoreJobHandler of         *)
(* src/transfer/transfer-job.ts).                                          *)
(*                                                                         *)
(* The record in transfers.sqlite, the job table and the file system are   *)
(* three stores with no common transaction.  Every await of the code that  *)
(* reads or writes one of them is a step, so requests, workers, and the    *)
(* user who works in the same folders interleave everywhere between.       *)
(***************************************************************************)
EXTENDS WorkerProcess

CONSTANTS
  Requests,      \* restore requests for the file, each answered once
  SubmissionOf   \* the job that each request submits; their keys are random

ASSUME RequestsAssumption ==
  /\ SubmissionOf \in [Requests -> Submissions]
  /\ \A r \in Requests : ~SubmissionOf[r].pausable
  /\ \A r, q \in Requests : SubmissionOf[r].key = SubmissionOf[q].key => r = q

VARIABLES
  item,         \* the record of the file: its status and restoreJobId
  quarantined,  \* is the file at its quarantined path?
  original,     \* what is at its original path
  live,         \* global mutation mode is live and the root is approved for writes
  touched,      \* has the user changed or removed the file after its return?
  requests      \* how far each request has come

files == <<quarantined, original>>
restoreVars == <<jobs, workers, crashes, item, files, live, touched, requests>>

ItemStatuses == {"active", "restoring", "restored", "restore-blocked"}
HandlerPoints == {"read", "verify", "occupied", "recheck", "rename", "confirm",
                  "record", "block"}

RestoreJob(r) == CHOOSE j \in Ids : jobs[j].sub = SubmissionOf[r]
setQuarantineState(status, job) == item' = [status |-> status, job |-> job]

-----------------------------------------------------------------------------
(* The server: restore().                                                  *)

Answer(r, point) == requests' = [requests EXCEPT ![r] = point]

Restorable(status) == status \in {"active", "restore-blocked"}

\* The item is read before the gates are awaited.
Ask(r) ==
  /\ requests[r] = "new"
  /\ Answer(r, IF Restorable(item.status) THEN "checked" ELSE "refused")
  /\ UNCHANGED <<jobs, item>>

SubmitRestore(r) ==
  /\ requests[r] = "checked"
  /\ \/ live /\ Submit(SubmissionOf[r]) /\ Answer(r, "submitted")
     \/ ~live /\ Answer(r, "refused") /\ UNCHANGED jobs
  /\ UNCHANGED item

\* Whatever has become of the item since it was read.
SetRestoring(r) ==
  /\ requests[r] = "submitted"
  /\ setQuarantineState("restoring", RestoreJob(r))
  /\ Answer(r, "answered")
  /\ UNCHANGED jobs

\* The application is closed; what was awaited never goes on.
ServerStops ==
  /\ \E r \in Requests : requests[r] \in {"checked", "submitted"}
  /\ requests' = [r \in Requests |->
                    IF requests[r] \in {"checked", "submitted"} THEN "lost" ELSE requests[r]]
  /\ UNCHANGED <<jobs, item>>

Server ==
  /\ ServerStops \/ \E r \in Requests : Ask(r) \/ SubmitRestore(r) \/ SetRestoring(r)
  /\ UNCHANGED <<workers, crashes, files, live, touched>>

-----------------------------------------------------------------------------
(* The handler: QuarantineRestoreJobHandler.run.                           *)

Step(w, from, to) == At(w, from) /\ Goto(w, to)

LoadRestore(w) == LoadJob(w, "read", NoLocal) /\ UNCHANGED <<item, files>>

\* Faulty: takes an item that is being restored for one that is restored.
Read_Restoring(w) ==
  /\ Step(w, "read", IF item.status \in {"restoring", "restored"} THEN "finish" ELSE "verify")
  /\ UNCHANGED <<jobs, item, files>>

Read(w) ==
  /\ Step(w, "read", IF item.status = "restored" THEN "finish" ELSE "verify")
  /\ UNCHANGED <<jobs, item, files>>

\* A file that has left quarantine was restored before a crash if it is at
\* its original path; anything else there does not have its digest.
AfterVerify ==
  IF ~live THEN "block"
  ELSE IF quarantined THEN "occupied"
  ELSE IF original = "ours" THEN "record" ELSE "block"

Verify(w) == Step(w, "verify", AfterVerify) /\ UNCHANGED <<jobs, item, files>>

Occupied(w) ==
  /\ Step(w, "occupied", IF original = "absent" THEN "recheck" ELSE "block")
  /\ UNCHANGED <<jobs, item, files>>

Recheck(w) ==
  /\ Step(w, "recheck", IF live THEN "rename" ELSE "block")
  /\ UNCHANGED <<jobs, item, files>>

\* rename() replaces a file that has come to the original path since.
Rename(w) ==
  /\ \/ /\ Step(w, "rename", "confirm")
        /\ quarantined
        /\ quarantined' = FALSE
        /\ original' = "ours"
     \/ Step(w, "rename", "block") /\ ~quarantined /\ UNCHANGED files
  /\ UNCHANGED <<jobs, item>>

\* A digest that does not match is reported for a retry, without a record.
Confirm(w) ==
  /\ \/ Step(w, "confirm", "record") /\ original = "ours"
     \/ Step(w, "confirm", "block") /\ original = "absent"
     \/ At(w, "confirm") /\ original = "foreign" /\ Throw(w, TRUE)
  /\ UNCHANGED <<jobs, item, files>>

Record(w) ==
  /\ Step(w, "record", "finish")
  /\ setQuarantineState("restored", Job(w))
  /\ UNCHANGED <<jobs, files>>

Block(w) ==
  /\ At(w, "block")
  /\ setQuarantineState("restore-blocked", Job(w))
  /\ Throw(w, FALSE)
  /\ UNCHANGED <<jobs, files>>

RestoreMoves(w) ==
  \/ ProcessMoves(w) /\ UNCHANGED <<item, files>>
  \/ LoadRestore(w) \/ Read(w) \/ Verify(w) \/ Occupied(w) \/ Recheck(w) \/ Rename(w)
  \/ Confirm(w) \/ Record(w) \/ Block(w)

-----------------------------------------------------------------------------
(* The user: the job can be cancelled, the gates opened and closed, a file *)
(* of the user's own can come to the original path and go, and so can the  *)
(* restored one, which the user may also change.                           *)

User ==
  \/ /\ \E j \in Ids : Cancel(j)
     /\ UNCHANGED <<live, original, touched>>
  \/ live' = ~live /\ UNCHANGED <<jobs, original, touched>>
  \/ /\ original' \in {"absent", "foreign"} \ {original}
     /\ touched' = (touched \/ original = "ours")
     /\ UNCHANGED <<jobs, live>>

RInit ==
  /\ ProcessInit
  /\ item = [status |-> "active", job |-> 0]
  /\ quarantined = TRUE
  /\ original = "absent"
  /\ live = TRUE
  /\ touched = FALSE
  /\ requests = [r \in Requests |-> "new"]

RNext ==
  \/ Server
  \/ \E w \in Workers : RestoreMoves(w) /\ UNCHANGED <<crashes, live, touched, requests>>
  \/ \E w \in Workers : Crash(w) /\ UNCHANGED <<item, files, live, touched, requests>>
  \/ Tick /\ UNCHANGED <<workers, crashes, item, files, live, touched, requests>>
  \/ User /\ UNCHANGED <<workers, crashes, item, quarantined, requests>>

RSpec == RInit /\ [][RNext]_restoreVars

-----------------------------------------------------------------------------
(* Properties.                                                             *)

\* Every store and every process has its type.
RTypeOK ==
  /\ TypeOK
  /\ workers \in [Workers -> Worker(HandlerPoints, {NoLocal})]
  /\ crashes \in 0 .. MaxCrashes
  /\ item \in [status : ItemStatuses, job : 0 .. MaxJobs]
  /\ quarantined \in BOOLEAN
  /\ original \in {"absent", "ours", "foreign"}
  /\ live \in BOOLEAN /\ touched \in BOOLEAN
  /\ requests \in [Requests -> {"new", "checked", "submitted", "answered", "refused", "lost"}]

\* What is reported restored is restored: whatever crashes, late workers and
\* second requests do between the move of the file and the two databases, a
\* record that says restored and a job that completed are right about it,
\* until the user lays hands on the file.
RestoredIsHome ==
  (item.status = "restored" \/ \E j \in Ids : jobs[j].status = "completed")
    => ~quarantined /\ (original = "ours" \/ touched)

=============================================================================
