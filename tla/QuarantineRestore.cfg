SPECIFICATION RSpec
CONSTANTS
  w1 = w1
  w2 = w2
  r1 = r1
  r2 = r2
  Workers = {w1, w2}
  Requests = {r1, r2}
  Submissions <- Restores
  SubmissionOf <- RestoreOf
  KindSets <- Kinds
  Supports <- SupportsAll
  MaxJobs = 2
  MaxAttempts = 1
  MaxUnits = 0
  PauseBound = 0
  NoLocal = 0
  MaxCrashes = 1
SYMMETRY Symmetry
INVARIANTS
  RestoredIsHome
CHECK_DEADLOCK FALSE
