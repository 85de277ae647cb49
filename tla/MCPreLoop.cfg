SPECIFICATION Spec
CONSTANTS
  Functions <- InLoop
  MaxSweeps = 5
INVARIANTS RedundantOccurrencesAreReplaced
CHECK_DEADLOCK FALSE
