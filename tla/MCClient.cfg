SPECIFICATION FairSpec
CONSTANTS
  t1 = t1  t2 = t2  p = p  q = q
  Tabs <- MCTabs
  Players <- MCPlayers
  Owners <- MCOwners
  Opponents <- MCOpponents
  Arbiter = q
  Bets = {1}
  Balance <- MCBalance
  MaxSubmits = 2
  LOBBY_LIMIT = 2
CHECK_DEADLOCK FALSE
INVARIANTS PageTellsTheTruth SearchersMeet
PROPERTY SubmissionsEnd
