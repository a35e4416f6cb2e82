------------------------- MODULE MateFiRefinement --------------------------
(***************************************************************************)
(* The contracts implement the wager they promise.                         *)
(*                                                                         *)
(* A wager's phase and seats are read off the registry, its verdict off    *)
(* the settlement's pending result until the market records it, the bets   *)
(* off the pool's positions and the wallets off the token.  One abstract   *)
(* step stands for a whole cascade through four contracts.                 *)
(***************************************************************************)
EXTENDS MateFiSafety

PhaseOf(s) ==
  CASE s = "Absent"              -> "none"
    [] s = "Open"                -> "offered"
    [] s = "Active"              -> "on"
    [] s = "PendingFinalization" -> "reported"
    [] s = "Disputed"            -> "contested"
    [] OTHER                     -> "over"

VerdictOf(m) ==
  IF markets[m].settled THEN markets[m].result
  ELSE pendingResults[m].winner

WagerOf(m) ==
  [phase   |-> PhaseOf(matches[m].state),
   first   |-> matches[m].player_a,
   second  |-> matches[m].player_b,
   stake   |-> matches[m].bet_amount,
   verdict |-> VerdictOf(m)]

Wallets == [a \in Accounts |-> balance[a]]
Wagers  == [m \in MatchIds |-> WagerOf(m)]

Promise == INSTANCE Wager WITH
  Users    <- Accounts,
  Ids      <- MatchIds,
  Verdicts <- Outcome,
  Nobody   <- NoAddress,
  Unknown  <- "None",
  wallet   <- Wallets,
  wagers   <- Wagers,
  bets     <- positions

\* Every behaviour of the contracts is a behaviour of the wager.
KeepsPromise == Promise!Spec
=============================================================================
