SPECIFICATION FairSpec
CONSTANTS
  MaxMoves = 2
  MaxLag = 2
  Winner = {"PlayerA"}
  MaxLoads = 1
  MaxFaults = 1
  MATCH_RETRY_ATTEMPTS = 1
CHECK_DEADLOCK FALSE
INVARIANTS ViewTypeOK PageCatchesUp
PROPERTIES PageNeverForgets WaitingPageStarts
