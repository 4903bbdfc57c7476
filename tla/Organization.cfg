SPECIFICATION OSpec
CONSTANTS
  w1 = w1
  w2 = w2
  Workers = {w1}
  Plans <- AllPlans
  MaxRuns = 3
  SubmissionOf <- JobOfRun
  Submissions <- RunJobs
  KindSets <- Kinds
  Supports <- SupportsAll
  MaxJobs = 3
  MaxAttempts = 3
  MaxUnits = 2
  PauseBound = 2
  NoLocal <- FirstLocal
  MaxCrashes = 1
PROPERTIES
  ClosedRunAccountsForEveryMove
  CompletedRollbackRestoresAll
  ReadOnlyStopsAtTheNextFile
CHECK_DEADLOCK FALSE
