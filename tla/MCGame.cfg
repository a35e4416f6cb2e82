SPECIFICATION Spec
CONSTANTS
  MaxPly = 1
  MaxObjects = 2
  MaxLoads = 1
  MaxFinishes = 1
  MaxCrashes = 1
  MaxFailures = 1
  Evaluations <- Mate
  EVAL_LOCK_CONFIRMATIONS = 2
CHECK_DEADLOCK FALSE
INVARIANT GameTypeOK SettlementIsReported
PROPERTY EndedIsFinal
