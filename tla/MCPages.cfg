\* One page at a time: two accounts of the visitor's and up to three games on the
\* history page; two bets on the match page, with a restart of the relayer; two
\* matches in a lobby that lists one; two payments, of which an account affords one.
SPECIFICATION Spec
CONSTANTS
  Accounts = {"p", "q"}
  MaxClicks = 3
  HistoryClicks = 1
  Pairs <- MCPairs
  Winners = {"PlayerA", "Draw"}
  MaxSettled = 1
  FirstGames = 2
  MaxGames = 3
  MaxFaults = 1
  PAGE_SIZE = 1
  STATS_WINDOW = 5
  HISTORY_LIMIT = 3
  Amounts = {1000, 2501}
  MaxBets = 2
  MaxReplays = 1
  MaxTroubles = 1
  MaxListed = 2
  MaxChanges = 3
  MaxLost = 1
  Polls = {1, 2}
  LISTED_LIMIT = 1
  XlmAccounts = {"p", "q"}
  XlmBalance <- MCXlmBalance
  MaxSends = 2
  MaxConnects = 2
  MaxXlmFaults = 1
CHECK_DEADLOCK FALSE
INVARIANT ConnectEnds
INVARIANT HistoryIsRight
INVARIANT PoolsNeverOverstated
INVARIANT QuoteIsPaid
INVARIANT PaymentTold
PROPERTY LobbyCatchesUp
