---------------------------- MODULE JobLifecycle ----------------------------
(***************************************************************************)
(* What the job queue promises about the status of a job, whatever workers *)
(* and clients do: the transition table of src/jobs/lifecycle.ts.          *)
(*                                                                         *)
(* A step may change several jobs at once, because the recovery of expired *)
(* leases sweeps the whole table in one transaction.                       *)
(***************************************************************************)
EXTENDS Integers

CONSTANT JobIds    \* every job that can ever be submitted

VARIABLE status    \* the status of every job; "absent" before submission

Statuses == {"queued", "running", "paused", "completed", "failed", "cancelled"}

\* "failed" -> "queued" is in the table although no operation of the SQLite
\* queue takes it: the queue never revives a failed job.
ALLOWED_TRANSITIONS ==
  [queued    |-> {"running", "paused", "cancelled"},
   running   |-> {"queued", "paused", "completed", "failed", "cancelled"},
   paused    |-> {"queued", "cancelled"},
   completed |-> {},
   failed    |-> {"queued"},
   cancelled |-> {}]

canTransitionJob(from, to) == to \in ALLOWED_TRANSITIONS[from]

TypeOK == status \in [JobIds -> Statuses \cup {"absent"}]

Init == status = [j \in JobIds |-> "absent"]

\* A job enters the table as queued and then follows the table.
Moves(j) ==
  \/ status'[j] = status[j]
  \/ status[j] = "absent" /\ status'[j] = "queued"
  \/ status[j] # "absent" /\ canTransitionJob(status[j], status'[j])

Next ==
  /\ status' \in [JobIds -> Statuses \cup {"absent"}]
  /\ \A j \in JobIds : Moves(j)

Spec == Init /\ [][Next]_status
=============================================================================
