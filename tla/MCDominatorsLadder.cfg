SPECIFICATION Spec
CONSTANTS
  Functions <- Ladder
  MaxRuns = 1
  MaxSweeps = 5
INVARIANTS DomMapIsDominance
CHECK_DEADLOCK FALSE
