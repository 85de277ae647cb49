SPECIFICATION FairSpec
CONSTANTS
  Functions <- SmallFunctions
  MaxRuns = 2
  MaxSweeps = 5
INVARIANTS TypeOK NoDominatorLost ConvergedIsExact DomMapIsDominance ImmediateDominatorIsUnique SettlesByNesting
PROPERTIES RunIsAnswered
CHECK_DEADLOCK FALSE
