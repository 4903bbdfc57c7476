-------------------------- MODULE MCReconciliation --------------------------
(* Small instances for model checking Reconciliation.                      *)
EXTENDS Reconciliation, TLC

CONSTANTS w1, w2, MaxAttempts

ReconcileJob ==
  [key |-> 1, work |-> 1, kind |-> "reconcile", priority |-> 15, pausable |-> TRUE,
   restart |-> FALSE, maximumAttempts |-> MaxAttempts, leaseDuration |-> 1]

\* Every path missing, added or changed, or all of them as they were.
Facts       == {[before |-> 1, after |-> 0], [before |-> 0, after |-> 1], [before |-> 1, after |-> 2]}
AllPairs    == [Paths -> Facts] \cup {[p \in Paths |-> [before |-> 1, after |-> 1]]}
Comparisons == {ReconcileJob}
Kinds       == {{"reconcile"}}
SupportsAll == [w \in Workers |-> {"reconcile"}]
FirstLocal  == [phase |-> 1, after |-> 0, items |-> {}, why |-> "-"]
Symmetry    == Permutations(Workers)
=============================================================================
