SPECIFICATION FairSpec
CONSTANTS
  MaxMoves = 4
  Opening = 2
  MaxCrashes = 1
  MaxFailures = 1
  ANTICHEAT_OPENING_CUTOFF_PLY = 1
  ANTICHEAT_MIN_MOVES = 2
  ANTICHEAT_SUSPICION_THRESHOLD = 85
CHECK_DEADLOCK FALSE
INVARIANT AnswersCatchUp FiledUnderItsMove FlagsAreEarned FlagsFollowEvidence
PROPERTY EveryRequestSettles
