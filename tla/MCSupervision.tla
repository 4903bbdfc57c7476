---------------------------- MODULE MCSupervision ----------------------------
(* Small instances for model checking Supervision.                          *)
EXTENDS Supervision

CONSTANTS w1, w2

CountJob(key, pausable, maximum, duration, units) ==
  [key |-> key, work |-> "x", kind |-> "count", priority |-> 0,
   pausable |-> pausable, restart |-> FALSE,
   maximumAttempts |-> maximum, leaseDuration |-> duration, units |-> units]

OneCount  == {CountJob("a", TRUE, 2, 1, 3)}
Kinds     == {{"count"}}
SupportsAll == [w \in Workers |-> {"count"}]
=============================================================================
