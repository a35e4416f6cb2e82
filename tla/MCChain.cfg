SPECIFICATION Spec
CONSTANTS
  a = a
  b = b
  c = c
  none = none
  escrow = escrow
  pool = pool
  treasury = treasury
  Accounts = {a, b, c}
  NoAddress = none
  EscrowAddr = escrow
  PoolAddr = pool
  TreasuryAddr = treasury
  MaxMatches = 1
  MIN_BET = 100
  MIN_TIME_CONTROL = 60
  BetAmounts = {99, 117}
  TimeControls = {59, 60}
  TradeAmounts = {99, 118}
  Scores = {300}
  Thresholds = {}
  Confirmations = {}
  MATE_SCORE = 9999
  DEFAULT_EVAL_THRESHOLD = 250
  DEFAULT_LOCK_CONFIRMATIONS = 1
  MaxStreak = 1
  Windows = {0, 2, 3}
  MaxWindow = 2
  DEFAULT_CHALLENGE_WINDOW = 1
  Funds = 236
SYMMETRY Symm
INVARIANTS
  TypeOK
  ContractsAgree
  CascadeNeverStuck
  WindowDecides
PROPERTIES
  OneWay
  StakesReleasedByVerdict
  VaultMovesWithBooks
  KeepsPromise
