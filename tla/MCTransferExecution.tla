------------------------ MODULE MCTransferExecution ------------------------
(* Small instances for model checking TransferExecution.                   *)
EXTENDS TransferExecution, TLC

CONSTANTS w1, w2, a1, a2, MaxAttempts

\* ingest.transfer, transfer.execute and quarantine.execute as approve()
\* submits them.
Executions == {[key |-> "p", work |-> "p", kind |-> "transfer", priority |-> 25,
                pausable |-> TRUE, restart |-> FALSE,
                maximumAttempts |-> MaxAttempts, leaseDuration |-> 1]}

FirstLocal  == [todo |-> {}, verified |-> {}, item |-> 0, offset |-> 0, handle |-> 0,
                from |-> FALSE, target |-> 0, again |-> FALSE]
Kinds       == {{"transfer"}}
SupportsAll == [w \in Workers |-> {"transfer"}]
Symmetry    == Permutations(Workers) \cup Permutations({a1, a2})

Plan(k, ordinals, a) == [kind |-> k, items |-> ordinals, requests |-> a]
RetireOne   == {Plan("retire", {1}, {a1})}
CopyTwoOrConsolidate == {Plan("copy", {1, 2}, {a1}), Plan("consolidate", {1}, {a1, a2})}
=============================================================================
