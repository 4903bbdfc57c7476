------------------------ MODULE MCQuarantineRestore ------------------------
(* Small instances for model checking QuarantineRestore.                   *)
EXTENDS QuarantineRestore, TLC

CONSTANTS w1, w2, r1, r2, MaxAttempts

RestoreSubmission(r) ==
  [key |-> r, work |-> "q", kind |-> "restore", priority |-> 30, pausable |-> FALSE,
   restart |-> FALSE, maximumAttempts |-> MaxAttempts, leaseDuration |-> 1]

Restores    == {RestoreSubmission(r) : r \in Requests}
RestoreOf   == [r \in Requests |-> RestoreSubmission(r)]
Kinds       == {{"restore"}}
Symmetry    == Permutations(Workers) \cup Permutations(Requests)
SupportsAll == [w \in Workers |-> {"restore"}]
=============================================================================
