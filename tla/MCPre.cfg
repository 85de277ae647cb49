SPECIFICATION FairSpec
CONSTANTS
  Functions <- Small
  MaxSweeps = 5
INVARIANTS TypeOK InsertionsAreDownSafe OccurrencesAreReached LoopsAreLeftOut OperandsAreDefined SameEffects ComputationallyOptimal LifetimeOptimal
PROPERTIES RunReturns
CHECK_DEADLOCK FALSE
