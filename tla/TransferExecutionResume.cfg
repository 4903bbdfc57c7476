SPECIFICATION XSpec
CONSTANTS
  w1 = w1
  w2 = w2
  a1 = a1
  a2 = a2
  Workers = {w1}
  Chunks = 2
  Plans <- CopyTwoOrConsolidate
  HardLinks = FALSE
  Submissions <- Executions
  KindSets <- Kinds
  Supports <- SupportsAll
  MaxJobs = 1
  MaxAttempts = 2
  MaxUnits = 2
  PauseBound = 1
  NoLocal <- FirstLocal
  MaxActs = 1
  GateMoves = FALSE
  MaxCrashes = 1
INVARIANTS
  CompletedPlanIsDone
  ItemsTellTheTruth
  
SYMMETRY Symmetry
CHECK_DEADLOCK FALSE
