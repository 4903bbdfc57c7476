SPECIFICATION Spec
CONSTANTS
  Submissions <- TwoJobs
  KindSets <- OneKindEach
  MaxJobs = 2
  MaxUnits = 1
  PauseBound = 2
INVARIANTS
  TypeOK
  LeaseInv
  AttemptsInv
  BudgetKept
PROPERTIES
  AuditTellsEveryTransition
  LeaseIsExclusive
  FollowsLifecycle
CHECK_DEADLOCK FALSE
