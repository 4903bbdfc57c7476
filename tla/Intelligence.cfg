SPECIFICATION ISpec
CONSTANTS
  w1 = w1
  Workers = {w1}
  Files = {1, 2, 3}
  Size <- SizeOf
  Content <- ContentOf
  Known = {2}
  Earlier <- EarlierOk
  Flaky = {2}
  Unsure = {1}
  Evidence <- Related
  PageSize = 3
  Chunk = 2
  RelatedPageSize = 2
  Touchable = {1}
  MaxActs = 1
  Submissions <- Stages
  KindSets <- AllKinds
  Supports <- SupportsAll
  MaxJobs = 2
  MaxUnits = 7
  PauseBound = 2
  NoLocal <- FirstLocal
  MaxCrashes = 1
INVARIANTS
  ExactGroupsAreExact
PROPERTIES
  CompletedMeansDone
  DecidedStaysDecided
CHECK_DEADLOCK FALSE
