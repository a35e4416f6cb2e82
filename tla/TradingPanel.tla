----------------------------- MODULE TradingPanel -----------------------------
(***************************************************************************)
(* The pools and odds of a match page: bets on the chain, the relayer's    *)
(* rows of them and its messages about them, and the panel that adds up    *)
(* the rows once and then believes the messages.                           *)
(*                                                                         *)
(* A bet is known by its place among the bets; each is a transaction of    *)
(* its own.  The phase of the panel and its form are in MatchView and      *)
(* ClientFlows.                                                            *)
(***************************************************************************)
EXTENDS Naturals, Sequences, SequencesExt, FiniteSetsExt

CONSTANTS
  Amounts,       \* stakes, in units that MIN_BET_STROOPS has many of
  MaxBets,       \* bound: bets
  MaxReplays,    \* bound: restarts of the relayer, which reads the events again
  MaxTroubles    \* bound: calls that fail, connections that drop, pages that are reloaded

ASSUME PanelAssumption ==
  Amounts \subseteq Nat \ {0} /\ {MaxBets, MaxReplays, MaxTroubles} \subseteq Nat

VARIABLES
  bets,      \* on the chain, in order
  market,    \* the relayer: the next event, what it has read of its market, rows, restarts
  panel,     \* the pools shown, the pools that the odds are of, and who computed these
  rest,      \* GET /matches/:matchId/traders: not asked, asked, or its rows
  messages,  \* BET_PLACED events on their way to the page
  troubles

panelVars == <<bets, market, panel, rest, messages, troubles>>

Outcome == {"PlayerA", "PlayerB", "Draw"}
NoPools == [o \in Outcome |-> 0]
NotRead == [what \in {"getMarket", "getOdds"} |-> {}]

\* The stakes on each outcome in some of the bets.
Pools(places) ==
  [o \in Outcome |-> MapThenSumSet(LAMBDA i : bets[places[i]].amount,
                                   {i \in DOMAIN places : bets[places[i]].outcome = o})]
OnChain == Pools([i \in DOMAIN bets |-> i])

PanelInit ==
  /\ bets = <<>>
  /\ market = [next |-> 1, pc |-> "next", read |-> NotRead, rows |-> <<>>, replays |-> 0]
  /\ panel = [pools |-> NoPools, odds |-> NoPools, by |-> "page"]
  /\ rest = [pc |-> "asked"] /\ messages = <<>>
  /\ troubles = 0

Trouble == troubles < MaxTroubles /\ troubles' = troubles + 1

BetPlaced ==
  /\ Len(bets) < MaxBets
  /\ \E o \in Outcome, a \in Amounts : bets' = Append(bets, [outcome |-> o, amount |-> a])
  /\ UNCHANGED <<market, panel, rest, messages, troubles>>
-----------------------------------------------------------------------------
(* The relayer *)

\* Mutant of insertTrader: the row is inserted again.
insertAlways(i) == Append(market.rows, i)

\* One row for one bet, however often its event is read.
insertTrader(i) == IF i \in ToSet(market.rows) THEN market.rows ELSE Append(market.rows, i)

\* The BetPlaced handler, up to the contract's answers; or it fails, and the
\* event is not handled again.
BetRecorded ==
  /\ market.pc = "next" /\ market.next <= Len(bets)
  /\ \/ market' = [market EXCEPT !.rows = insertTrader(market.next), !.pc = "read"] /\ UNCHANGED troubles
     \/ Trouble /\ market' = [market EXCEPT !.next = @ + 1]
  /\ UNCHANGED <<bets, panel, rest, messages>>

\* getMarket and getOdds, each at its moment; a simulation that fails gives null,
\* which counts as zero.
ContractRead(what) ==
  /\ market.pc = "read" /\ market.read[what] = {}
  /\ \/ market' = [market EXCEPT !.read[what] = {OnChain}] /\ UNCHANGED troubles
     \/ Trouble /\ market' = [market EXCEPT !.read[what] = {NoPools}]
  /\ UNCHANGED <<bets, panel, rest, messages>>

Handled == [market EXCEPT !.read = NotRead, !.pc = "next", !.next = @ + 1]

\* The message with both answers; or a read was rejected, and there is none.
BetTold ==
  /\ market.pc = "read"
  /\ market' = Handled
  /\ \/ \E pools \in market.read["getMarket"], odds \in market.read["getOdds"] :
           messages' = Append(messages, [pools |-> pools, odds |-> odds, by |-> "contract"])
        /\ UNCHANGED troubles
     \/ Trouble /\ UNCHANGED messages
  /\ UNCHANGED <<bets, panel, rest>>

\* After a restart the events of the last ledgers are read again; here, all.
Replayed ==
  /\ market.replays < MaxReplays
  /\ market' = [market EXCEPT !.next = 1, !.pc = "next", !.read = NotRead, !.replays = @ + 1]
  /\ messages' = <<>>
  /\ UNCHANGED <<bets, panel, rest, troubles>>
-----------------------------------------------------------------------------
(* useMatch *)

TradersAnswered ==
  /\ rest.pc = "asked"
  /\ rest' = [pc |-> "answered", pools |-> Pools(market.rows)]
  /\ UNCHANGED <<bets, market, panel, messages, troubles>>

PoolsSeeded ==
  /\ rest.pc = "answered"
  /\ panel' = [pools |-> rest.pools, odds |-> rest.pools, by |-> "page"]
  /\ rest' = [pc |-> "none"]
  /\ UNCHANGED <<bets, market, messages, troubles>>

BetHeard ==
  /\ messages # <<>>
  /\ panel' = Head(messages)
  /\ messages' = Tail(messages)
  /\ UNCHANGED <<bets, market, rest, troubles>>

\* The answer is not ok, or the socket drops.
AnswerMissing ==
  /\ Trouble
  /\ \/ rest.pc # "none" /\ rest' = [pc |-> "none"] /\ UNCHANGED messages
     \/ messages # <<>> /\ messages' = <<>> /\ UNCHANGED rest
  /\ UNCHANGED <<bets, market, panel>>

Reloaded ==
  /\ Trouble
  /\ panel' = [pools |-> NoPools, odds |-> NoPools, by |-> "page"]
  /\ rest' = [pc |-> "asked"] /\ messages' = <<>>
  /\ UNCHANGED <<bets, market>>
-----------------------------------------------------------------------------
(* Odds, in hundredths *)

Total(pools) == pools["PlayerA"] + pools["PlayerB"] + pools["Draw"]

\* Mutant of deriveOddsFromPools: the fees are forgotten.
oddsBeforeFees(pools) ==
  [o \in Outcome |-> IF pools[o] = 0 THEN 0 ELSE (200 * Total(pools) + pools[o]) \div (2 * pools[o])]

\* Math.round of 100 * 0.97 * total / pool.
deriveOddsFromPools(pools) ==
  [o \in Outcome |-> IF pools[o] = 0 THEN 0 ELSE (194 * Total(pools) + pools[o]) \div (2 * pools[o])]

\* PredictionPool.get_odds, which floors twice.
get_odds(pools) ==
  [o \in Outcome |-> IF pools[o] = 0 THEN 0 ELSE (((Total(pools) * 97) \div 100) * 100) \div pools[o]]

\* PredictionPool.pay_trader, for a stake on the outcome that wins.
payout(pools, o, stake) == (stake * (Total(pools) - (Total(pools) * 3) \div 100)) \div pools[o]

\* The multipliers that the panel shows.
OddsDisplay == IF panel.by = "page" THEN deriveOddsFromPools(panel.odds) ELSE get_odds(panel.odds)

PanelStep ==
  \/ BetPlaced \/ BetRecorded \/ (\E what \in DOMAIN NotRead : ContractRead(what)) \/ BetTold \/ Replayed
  \/ TradersAnswered \/ PoolsSeeded \/ BetHeard \/ AnswerMissing \/ Reloaded
=============================================================================
