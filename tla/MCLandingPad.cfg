SPECIFICATION BothSpec
CONSTANTS
  Functions <- NoFunctions
  Followers <- NoFunctions
  MaxRuns = 1
  Sources <- CountingLoop
  Truths <- Once
  Fuel = 30
INVARIANTS SameEffects
CHECK_DEADLOCK FALSE
