SPECIFICATION FairSpec
CONSTANTS
  MaxPly = 2
  MaxObjects = 1
  MaxLoads = 1
  MaxFinishes = 1
  MaxCrashes = 1
  MaxFailures = 0
  Evaluations <- Decided
  EVAL_LOCK_CONFIRMATIONS = 2
CHECK_DEADLOCK FALSE
INVARIANT ClockRuns
PROPERTY EveryGameEnds
