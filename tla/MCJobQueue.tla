----------------------------- MODULE MCJobQueue -----------------------------
(* Small submissions for model checking JobQueue.                          *)
EXTENDS JobQueue

Submission(key, work, kind, priority, pausable, restart, maximum) ==
  [key |-> key, work |-> work, kind |-> kind, priority |-> priority,
   pausable |-> pausable, restart |-> restart,
   maximumAttempts |-> maximum, leaseDuration |-> 1]

\* inventory.scan as it is submitted: pausable, resumed from a checkpoint;
\* the same key with other work; quarantine.restore, which cannot be paused;
\* duplicate grouping, which restarts without its checkpoint.
scan    == Submission("a", "x", "scan", 0, TRUE, FALSE, 2)
rescan  == Submission("a", "y", "scan", 0, TRUE, FALSE, 2)
group   == Submission("c", "x", "group", 0, TRUE, TRUE, 1)
restore == Submission("b", "x", "restore", 1, FALSE, FALSE, 2)

TwoJobs     == {scan, rescan, restore, group}
OneKindEach == {{"scan"}, {"scan", "restore", "group"}}
=============================================================================
