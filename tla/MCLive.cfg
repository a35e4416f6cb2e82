SPECIFICATION FairSpec
CONSTANTS
  a = a
  b = b
  none = none
  escrow = escrow
  pool = pool
  treasury = treasury
  Accounts = {a, b}
  NoAddress = none
  EscrowAddr = escrow
  PoolAddr = pool
  TreasuryAddr = treasury
  MIN_BET = 100
  MIN_TIME_CONTROL = 60
  BetAmounts = {100}
  TimeControls = {60}
  MATE_SCORE = 9999
  DEFAULT_EVAL_THRESHOLD = 250
  MaxMatches = 1
  TradeAmounts = {100}
  Scores = {}
  Thresholds = {}
  Confirmations = {}
  DEFAULT_LOCK_CONFIRMATIONS = 1
  MaxStreak = 1
  Windows = {1, 2}
  MaxWindow = 2
  DEFAULT_CHALLENGE_WINDOW = 1
  Funds = 200
PROPERTIES
  DecidedMatchesSettle
