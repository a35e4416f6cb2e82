SPECIFICATION Spec
CONSTANTS
  a = a
  b = b
  none = none
  escrow = escrow
  pool = pool
  treasury = treasury
  Accounts = {a, b}
  NoAddress = none
  EscrowAddr = escrow
  PoolAddr = pool
  TreasuryAddr = treasury
  MaxMatches = 2
  MIN_BET = 100
  MIN_TIME_CONTROL = 60
  BetAmounts = {100}
  TimeControls = {60}
  TradeAmounts = {117}
  Scores = {}
  Thresholds = {}
  Confirmations = {}
  MATE_SCORE = 9999
  DEFAULT_EVAL_THRESHOLD = 250
  DEFAULT_LOCK_CONFIRMATIONS = 1
  MaxStreak = 1
  Windows = {}
  MaxWindow = 1
  DEFAULT_CHALLENGE_WINDOW = 1
  Funds = 317
SYMMETRY Symm
INVARIANTS
  VaultSolvent
  PoolSolvent
