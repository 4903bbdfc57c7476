--------------------------- MODULE MCOrganization ---------------------------
(* Small instances for model checking Organization.                        *)
EXTENDS Organization, TLC

CONSTANTS w1, w2, MaxAttempts

\* organization.execute and organization.rollback as submitRun submits them.
JobFor(r) ==
  [key |-> r, work |-> r, kind |-> "organization", priority |-> 25, pausable |-> TRUE,
   restart |-> FALSE, maximumAttempts |-> IF r = 1 THEN MaxAttempts ELSE 2, leaseDuration |-> 1]

\* Two moves under one run; one move under a run and its rollback; and one under two
\* live runs, of which the first has failed, and the rollback of the second.
MovePlan     == [operations |-> {1, 2}, modes |-> {"live", "simulation"}, runs |-> 1, acts |-> 2,
                 controls |-> {"pause", "cancel"}]
RollbackPlan == [operations |-> {1}, modes |-> {"live", "rollback-simulation", "rollback-live"},
                 runs |-> 2, acts |-> 1, controls |-> {"cancel"}]
SecondPlan   == [operations |-> {1}, modes |-> {"live", "rollback-live"}, runs |-> 3, acts |-> 0,
                 controls |-> {}]
AllPlans     == {MovePlan, RollbackPlan, SecondPlan}

RunJobs     == {JobFor(r) : r \in 1 .. MaxRuns}
JobOfRun    == [r \in 1 .. MaxRuns |-> JobFor(r)]
FirstLocal  == [todo |-> {}, op |-> 0, outcome |-> "none"]
Kinds       == {{"organization"}}
SupportsAll == [w \in Workers |-> {"organization"}]
Symmetry    == Permutations(Workers)
=============================================================================
