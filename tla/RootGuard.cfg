SPECIFICATION NSpec
CONSTANTS
  r1 = r1
  r2 = r2
  Paths <- AllPaths
  Nowhere = Nowhere
  MountPoints <- Mounts
  Volumes = {"system", "disk"}
  Requests = {r1, r2}
  ProcessOf <- OwnProcess
  Roles = {"library"}
  Enrollable <- Proposed
  MaxAsked = 2
  Targets <- Asked
  Swappable <- Swaps
  Beginnings <- LibraryStarts
  MaxActs = 1
SYMMETRY Symmetry
INVARIANTS
  AcknowledgedIsKept
  ApprovedWasShown
  QuietAuthorizationIsSafe
CHECK_DEADLOCK FALSE
