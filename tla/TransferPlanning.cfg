SPECIFICATION Spec
CONSTANTS
  p1 = p1
  p2 = p2
  Plans = {p1, p2}
  N = 3
  PageSize = 1
  MaxChanges = 3
INVARIANTS
  OnlyRedundantCopiesMove
SYMMETRY Symmetry
CHECK_DEADLOCK FALSE
