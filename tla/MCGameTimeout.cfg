SPECIFICATION Spec
CONSTANTS
  MaxPly = 1
  MaxObjects = 1
  MaxLoads = 0
  MaxFinishes = 1
  MaxCrashes = 0
  MaxFailures = 0
  Evaluations <- Mate
  EVAL_LOCK_CONFIRMATIONS = 2
CHECK_DEADLOCK FALSE
PROPERTY TimeoutBlamesTheLate
