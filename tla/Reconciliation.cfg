SPECIFICATION CSpec
CONSTANTS
  w1 = w1
  w2 = w2
  Workers = {w1, w2}
  P = 2
  Scans <- AllPairs
  PageSize = 1
  Submissions <- Comparisons
  KindSets <- Kinds
  Supports <- SupportsAll
  MaxJobs = 1
  MaxAttempts = 2
  MaxUnits = 9
  PauseBound = 2
  NoLocal <- FirstLocal
  MaxCrashes = 1
SYMMETRY Symmetry
INVARIANTS
  CompletedComparisonIsExact
  CountsMatchTheDeltas
CHECK_DEADLOCK FALSE
