------------------------- MODULE MCTransferPlanning --------------------------
(* A small instance for model checking TransferPlanning.                   *)
EXTENDS TransferPlanning, TLC

CONSTANTS p1, p2

Symmetry == Permutations({p1, p2})
=============================================================================
