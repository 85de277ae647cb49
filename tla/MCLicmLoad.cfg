SPECIFICATION BothSpec
CONSTANTS
  Functions <- LoadInLoop
  Followers <- NoFunctions
  MaxRuns = 1
  Sources <- NoFunctions
  Truths <- NoFunctions
  Fuel = 0
INVARIANTS DefinitionsDominateUses
CHECK_DEADLOCK FALSE
