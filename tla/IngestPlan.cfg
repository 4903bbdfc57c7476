SPECIFICATION GSpec
CONSTANTS
  w1 = w1
  Workers = {w1}
  Root = 1
  Children <- Tree
  NoDir = 0
  Duplicates = {4}
  Unsure = {3}
  BatchSize = 1
  PageSize = 2
  MaxActs = 1
  Submissions <- PlanJobs
  KindSets <- AllKinds
  Supports <- SupportsAll
  MaxJobs = 2
  MaxAttempts = 2
  MaxUnits = 3
  PauseBound = 2
  NoLocal <- FirstLocal
  MaxCrashes = 1
INVARIANTS
  GTypeOK
  CompletedAnalysisIsComplete
  DigestsAreOfWhatWasDiscovered
CHECK_DEADLOCK FALSE
