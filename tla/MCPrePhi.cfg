SPECIFICATION Spec
CONSTANTS
  Functions <- Again
  MaxSweeps = 5
INVARIANTS JoinsAreWellFormed
CHECK_DEADLOCK FALSE
