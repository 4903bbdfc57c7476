---------------------------- MODULE MCIngestPlan ----------------------------
(* Small instances for model checking IngestPlan.                          *)
EXTENDS IngestPlan, TLC

CONSTANTS w1, MaxAttempts

Job_(key, kind, priority, attempts) ==
  [key |-> key, work |-> key, kind |-> kind, priority |-> priority, pausable |-> TRUE,
   restart |-> FALSE, maximumAttempts |-> attempts, leaseDuration |-> 1]

PlanJobs    == {Job_(1, "analyze", 20, MaxAttempts), Job_(2, "transfer", 25, 1)}
AllKinds    == {{"analyze", "transfer"}}
SupportsAll == [w \in Workers |-> {"analyze", "transfer"}]
FirstLocal  == [dir |-> 0, todo |-> {}, batch |-> {}, after |-> -1, item |-> 0, review |-> FALSE]

\* 1 is the source with file 3 and directory 2, which has file 4.
Tree == [d \in {1, 2} |-> IF d = 1 THEN {2, 3} ELSE {4}]
=============================================================================
