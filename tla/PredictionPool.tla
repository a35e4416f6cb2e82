-------------------------- MODULE PredictionPool ---------------------------
(***************************************************************************)
(* The PredictionPool contract: a three-outcome parimutuel market per      *)
(* match, and the position each trader holds on each outcome.              *)
(***************************************************************************)
EXTENDS MateFiTypes

CONSTANT TradeAmounts   \* what a trader may stake at once, too little included

ASSUME TradeAssumption == TradeAmounts \subseteq Int

VARIABLES
  markets,     \* match id -> Market
  positions    \* match id -> trader -> outcome -> stake

poolVars == <<markets, positions>>

\* What get_market does not find.
NoMarket == [opened |-> FALSE, pool |-> [o \in Outcome |-> 0],
             total_volume |-> 0, locked |-> FALSE,
             settled |-> FALSE, result |-> "Pending"]

\* pool is the three buckets pool_a, pool_b, pool_draw.
Market == [opened       : BOOLEAN,
           pool         : [Outcome -> Nat],
           total_volume : Nat,
           locked       : BOOLEAN,
           settled      : BOOLEAN,
           result       : Outcome \cup {"Pending"}]

PoolTypeOK ==
  /\ markets \in [MatchIds -> Market]
  /\ positions \in [MatchIds -> [Accounts -> [Outcome -> Nat]]]

PoolInit ==
  /\ markets = [m \in MatchIds |-> NoMarket]
  /\ positions = [m \in MatchIds |->
                    [t \in Accounts |-> [o \in Outcome |-> 0]]]

open_market(m) ==
  /\ ~markets[m].opened
  /\ markets' = [markets EXCEPT ![m] = [NoMarket EXCEPT !.opened = TRUE]]
  /\ UNCHANGED positions

\* Mutant of buy_outcome: bets are taken on a locked market.
BuyWhenLocked(m, t, o, amount) ==
  /\ markets[m].opened /\ ~markets[m].settled
  /\ amount >= MIN_BET
  /\ markets' = [markets EXCEPT ![m].pool[o] = @ + amount,
                                ![m].total_volume = @ + amount]
  /\ positions' = [positions EXCEPT ![m][t][o] = @ + amount]

\* A bet: refused once the market is settled or locked, or when it is too
\* small.  The match's own state is not consulted.
buy_outcome(m, t, o, amount) ==
  /\ markets[m].opened
  /\ ~markets[m].settled
  /\ ~markets[m].locked
  /\ amount >= MIN_BET
  /\ markets' = [markets EXCEPT ![m].pool[o] = @ + amount,
                                ![m].total_volume = @ + amount]
  /\ positions' = [positions EXCEPT ![m][t][o] = @ + amount]

\* Locking is idempotent; a market that does not exist fails the call.
lock_market(m) ==
  /\ markets[m].opened
  /\ markets' = [markets EXCEPT ![m].locked = TRUE]
  /\ UNCHANGED positions

CanSettle(m) == markets[m].opened /\ ~markets[m].settled

settle(m, winner) ==
  /\ CanSettle(m)
  /\ markets' = [markets EXCEPT ![m].settled = TRUE, ![m].result = winner]
  /\ UNCHANGED positions

\* What settle sweeps to the treasury when nobody backed the winner.
Sweep(m, winner) ==
  IF markets[m].pool[winner] = 0 THEN NetPool(markets[m].total_volume) ELSE 0

\* A position's share of the net pool.  A position on the outcome makes its
\* bucket positive, so the code's winning_pool = 0 return is never taken.
Payout(m, t, o) ==
  (positions[m][t][o] * NetPool(markets[m].total_volume)) \div markets[m].pool[o]

\* Mutant of pay_trader: the claim stays after it is paid.
PayAndKeepPosition(m, t, o) ==
  /\ markets[m].settled /\ markets[m].result = o
  /\ positions[m][t][o] # 0 /\ markets[m].pool[o] # 0
  /\ UNCHANGED <<markets, positions>>

\* A claim on the winning outcome removes the position it pays.  A claim on
\* an empty position returns 0 and changes nothing: it is a stutter.
pay_trader(m, t, o) ==
  /\ markets[m].settled
  /\ markets[m].result = o
  /\ positions[m][t][o] # 0
  /\ markets[m].pool[o] # 0
  /\ positions' = [positions EXCEPT ![m][t][o] = 0]
  /\ UNCHANGED markets
=============================================================================
