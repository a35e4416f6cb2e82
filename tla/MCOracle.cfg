SPECIFICATION HistorySpec
CONSTANTS
  a = a
  b = b
  none = none
  escrow = escrow
  pool = pool
  treasury = treasury
  Accounts = {a, b}
  NoAddress = none
  EscrowAddr = escrow
  PoolAddr = pool
  TreasuryAddr = treasury
  MIN_BET = 100
  MIN_TIME_CONTROL = 60
  BetAmounts = {100}
  TimeControls = {60}
  MATE_SCORE = 9999
  DEFAULT_EVAL_THRESHOLD = 250
  MaxMatches = 1
  TradeAmounts = {}
  Scores <- EvalScores
  Thresholds = {0, 250, 300}
  Confirmations = {0, 2}
  DEFAULT_LOCK_CONFIRMATIONS = 3
  MaxStreak = 3
  Windows = {}
  MaxWindow = 1
  DEFAULT_CHALLENGE_WINDOW = 1
  Funds = 100
  MaxEvaluations = 4
SYMMETRY Symm
INVARIANTS
  LockedExactlyWhenSustained
