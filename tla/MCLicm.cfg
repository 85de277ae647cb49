SPECIFICATION BothFairSpec
CONSTANTS
  Functions <- InTurn
  Followers <- Others
  MaxRuns = 2
  Sources <- MemoryLoops
  Truths <- Answers
  Fuel = 30
INVARIANTS TypeOK DefinitionsDominateUses NothingInvariantIsLeft HoistedCodeIsTakenAlong SameEffects NothingComputedInVain OuterLoopsStayInForm PhisStayInStep
PROPERTIES FunctionEnds PassesEnd
CHECK_DEADLOCK FALSE
