SPECIFICATION XSpec
CONSTANTS
  w1 = w1
  w2 = w2
  a1 = a1
  a2 = a2
  Workers = {w1, w2}
  Chunks = 1
  Plans <- RetireOne
  HardLinks = TRUE
  Submissions <- Executions
  KindSets <- Kinds
  Supports <- SupportsAll
  MaxJobs = 1
  MaxAttempts = 2
  MaxUnits = 2
  PauseBound = 1
  NoLocal <- FirstLocal
  MaxActs = 1
  GateMoves = TRUE
  MaxCrashes = 0

SYMMETRY Symmetry
INVARIANTS
  RetiredOnlyAfterVerified
  ItemsTellTheTruth
PROPERTIES
  DestinationsNeverReplaced
CHECK_DEADLOCK FALSE
