------------------------ MODULE MCOrganizationPlan ------------------------
(* A small instance for model checking a scan and the planning on it.     *)
EXTENDS OrganizationPlan, TLC

CONSTANTS w1, MaxAttempts

\* inventory.scan as the application submits it.
ScanJob ==
  [key |-> 1, work |-> 1, kind |-> "scan", priority |-> 0, pausable |-> TRUE,
   restart |-> FALSE, maximumAttempts |-> MaxAttempts, leaseDuration |-> 1]

ScanJobs    == {ScanJob}
Tree        == [d \in {".", "a"} |-> IF d = "." THEN {"a", "f", "g"} ELSE {"a/h"}]
Kinds       == {{"scan"}}
SupportsAll == [w \in Workers |-> {"scan"}]
FirstLocal  == Nothing

Order       == [p \in {"a/h", "f", "g"} |-> CASE p = "a/h" -> 1 [] p = "f" -> 2 [] p = "g" -> 3]
Places      == [t \in {"a", "o"} |-> [p \in {"a/h", "f", "g"} |->
                  IF t = "a" THEN {"a/h"} ELSE IF p = "f" THEN {"o/1", "o/2"} ELSE {"o/1"}]]
Alternatives == [p \in {"a/h", "o/1", "o/2"} |->
                  CASE p = "a/h" -> <<"a/h", "a/h (2)", "a/h (3)">>
                    [] p = "o/1" -> <<"o/1", "o/1 (2)", "o/1 (3)">>
                    [] p = "o/2" -> <<"o/2", "o/2 (2)">>]
Duplicates  == [d \in {"dup"} |-> {"a/h", "f"}]
PlanOptions ==
  {[targetDirectory |-> "a", scope |-> "all-files", collisionPolicy |-> "rename-with-suffix",
    includeHidden |-> TRUE, maximumOperations |-> 1],
   [targetDirectory |-> "o", scope |-> "top-level", collisionPolicy |-> "skip",
    includeHidden |-> TRUE, maximumOperations |-> 2]}
=============================================================================
