CONSTANTS
  MaxLedger = 3
  LedgerCapacity = 2
  MaxRestarts = 1
  MaxFailures = 1
  ChallengeWindow = 1
  DEFAULT_CHALLENGE_WINDOW_SECS = 0
  EVENT_START_LOOKBACK_LEDGERS = 1
  PAGE_LIMIT = 5
  SeenLimit = 3
SPECIFICATION FairSpec
CHECK_DEADLOCK FALSE
INVARIANTS
  NoLostEvent
  RowsFollowChain
PROPERTIES
  ResultsAreFinalized
  MirrorSettles
  WinnersArePaid
