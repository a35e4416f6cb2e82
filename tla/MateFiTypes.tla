---------------------------- MODULE MateFiTypes ----------------------------
(***************************************************************************)
(* The types, constants and arithmetic that the five MateFi contracts and  *)
(* the relayer share.                                                      *)
(*                                                                         *)
(* USDC amounts are integers (stroops).  Only the amounts that the fee and *)
(* payout rounding tell apart matter, so a model instance uses amounts of  *)
(* a few hundred with a minimum bet of 100 in place of 10_000_000; the     *)
(* source's minimum is a multiple of 100 far above it, which is all that   *)
(* MinBetAssumption keeps.                                                 *)
(***************************************************************************)
EXTENDS Integers, FiniteSets

CONSTANTS
  Accounts,       \* wallets: players, traders, the arbiter
  NoAddress,      \* the None of an Option<Address>
  EscrowAddr,     \* EscrowVault's token account
  PoolAddr,       \* PredictionPool's token account
  TreasuryAddr,   \* the treasury account
  MaxMatches,     \* bound: how many matches the registry's counter reaches
  MIN_BET         \* MIN_BET_STROOPS, the same in registry and pool

MatchIds == 1 .. MaxMatches

\* Token accounts: wallets, the two contracts that hold funds, the treasury.
Holders == Accounts \cup {EscrowAddr, PoolAddr, TreasuryAddr}

ASSUME AddressAssumption ==
  /\ NoAddress \notin Holders
  /\ EscrowAddr \notin Accounts
  /\ PoolAddr \notin Accounts
  /\ TreasuryAddr \notin Accounts
  /\ EscrowAddr # PoolAddr
  /\ EscrowAddr # TreasuryAddr
  /\ PoolAddr # TreasuryAddr

\* A ledger has finitely many accounts.
ASSUME AccountsAssumption == IsFiniteSet(Accounts)

ASSUME MatchAssumption == MaxMatches \in Nat \ {0}

ASSUME MinBetAssumption == MIN_BET \in Nat /\ MIN_BET >= 100

\* Outcome (pool) and Winner (oracle, settlement): the same three cases.
Outcome == {"PlayerA", "PlayerB", "Draw"}

MatchState == {"Open", "Active", "PendingFinalization", "Disputed",
               "Completed", "Cancelled"}

\* Mutant of NetPool: the fees are paid twice.
NetPoolFeesTwice(v) == v - 2 * ((v * 3) \div 100)

\* The fees of a market with trading volume v, each floored on its own:
\* PredictionPool.settle and Settlement.run_cascade both compute them.
FeeTreasury(v) == v \div 100
FeeFlywheel(v) == (v * 2) \div 100
NetPool(v)     == v - (v * 3) \div 100
=============================================================================
