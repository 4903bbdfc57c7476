SPECIFICATION FairWSpec
CONSTANTS
  w1 = w1
  w2 = w2
  Workers = {w1, w2}
  Submissions <- OneCount
  KindSets <- Kinds
  Supports <- SupportsAll
  MaxJobs = 1
  MaxUnits = 3
  PauseBound = 2
  NoLocal = 0
  CheckpointEvery = 2
  ProgressEvery = 1
  MaxCrashes = 1
INVARIANTS
  AcknowledgementNeverRefused
  CompletedDidAllUnits
PROPERTIES
  WritesAreFenced
  CheckpointOnlyGrows
  EveryJobSettles
