SPECIFICATION FairSpec
CONSTANTS
  Functions <- AllCodes
  MaxRuns = 2
  MaxSweeps = 5
INVARIANTS TypeOK NeededIsKept LeftoverLostItsUserLater BitsAreOwn CrashesOnUnreachableOnly
PROPERTIES RunReturns
CHECK_DEADLOCK FALSE
