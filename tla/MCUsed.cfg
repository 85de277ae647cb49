SPECIFICATION FairSpec
CONSTANTS
  Inputs <- UsedInputs
  dir = "BACKWARD"
  boundaryCond = "empty"
  initCond = "empty"
  MaxSweeps = 5
  meetFn <- UnionMeet
  transferFn <- UsedTransfer
INVARIANTS TypeOK StableOnConvergence AnswerIsExtremal SettlesByNesting
PROPERTIES MovesOneWay RunEnds
