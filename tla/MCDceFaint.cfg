SPECIFICATION Spec
CONSTANTS
  Functions <- SmallCodes
  MaxRuns = 1
  MaxSweeps = 5
INVARIANTS FaintValueIsFaint
CHECK_DEADLOCK FALSE
