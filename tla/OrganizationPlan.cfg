SPECIFICATION PSpec
CONSTANTS
  w1 = w1
  Workers = {w1}
  Root = "."
  Children <- Tree
  NoDir = NoDir
  BatchSize = 1
  Touchable = {"a", "a/h"}
  MaxActs = 1
  Submissions <- ScanJobs
  KindSets <- Kinds
  Supports <- SupportsAll
  MaxJobs = 1
  MaxAttempts = 2
  MaxUnits = 1
  PauseBound = 1
  NoLocal <- FirstLocal
  MaxCrashes = 1
  Position <- Order
  PageSize = 2
  ControlDir = ControlDir
  Hidden = {}
  Grouped = {}
  Desired <- Places
  Named <- Alternatives
  Options <- PlanOptions
  Reviewable = {"f"}
  Exact <- Duplicates
INVARIANTS
  CountsMatchTheRecords
  CompletedScanIsComplete
  PlannedDestinationsAreFree
  PlanAccountsForEveryFile
  ReviewedFilesStay
PROPERTIES
  RevocationStopsAtTheNextBatch
CHECK_DEADLOCK FALSE
