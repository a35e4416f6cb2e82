---------------------------- MODULE MateFiSafety ---------------------------
(***************************************************************************)
(* What the composed contracts promise: the invariants and action          *)
(* properties of MateFiChain.                                              *)
(***************************************************************************)
EXTENDS MateFiChain, FiniteSetsExt

-----------------------------------------------------------------------------
(* Agreement of the five contracts' records *)

Decided(m) == matches[m].state \in {"PendingFinalization", "Disputed"}
Played(m)  == matches[m].state \in {"Active", "PendingFinalization",
                                    "Disputed", "Completed"}
Closed(m)  == matches[m].state \in {"Completed", "Cancelled"}

\* The vault's record names the match's players and their stake, in full
\* until it is released.
VaultAgrees(m) ==
  LET r == records[m] IN
  /\ Recorded(r) <=> Exists(m)
  /\ r.player_a = matches[m].player_a
  /\ r.player_b = matches[m].player_b
  /\ r.amount_each = matches[m].bet_amount
  /\ r.released <=> Closed(m)
  /\ r.bonus = IF matches[m].state = "Completed" THEN FeeFlywheel(Volume(m)) ELSE 0
  /\ ~Exists(m) => r.total_locked = 0
  /\ matches[m].state = "Open" => r.total_locked = r.amount_each
  /\ Played(m) => r.total_locked = 2 * r.amount_each + r.bonus

\* A market exists once both players are in, and is settled with the match.
MarketAgrees(m) ==
  /\ markets[m].opened <=> Played(m)
  /\ markets[m].locked => markets[m].opened
  /\ markets[m].settled <=> matches[m].state = "Completed"
  /\ markets[m].settled <=> markets[m].result # "Pending"

\* A result waits exactly while its match does, a dispute while it is open.
ResultAgrees(m) ==
  /\ HasPending(m) <=> Decided(m)
  /\ (disputes[m] # NoAddress) <=> matches[m].state = "Disputed"

\* Seats are filled as the state says, and by two different players.
SeatsAgree(m) ==
  /\ Exists(m) <=> m <= matchCounter
  /\ Exists(m) => matches[m].bet_amount >= MIN_BET /\ matches[m].player_a # matches[m].player_b
  /\ Played(m) <=> matches[m].player_b # NoAddress

Agree(m) ==
  /\ VaultAgrees(m)
  /\ MarketAgrees(m)
  /\ ResultAgrees(m)
  /\ SeatsAgree(m)

\* The five contracts agree about every match.  No contract reads another's
\* record when it acts on its own, so this rests on every transaction making
\* all of its cross-contract calls.
ContractsAgree == \A m \in MatchIds : Agree(m)
-----------------------------------------------------------------------------
(* Solvency: the token accounts against the books *)

\* The vault's one token account holds exactly what it owes on all matches
\* together: no match is paid with another one's stakes and nothing is left
\* behind ("the vault zeroes out exactly").
VaultSolvent ==
  balance[EscrowAddr] = MapThenSumSet(Outstanding, MatchIds)

\* The stakes traders still hold on outcome o, and the claims on a market.
Held(m, o) == MapThenSumSet(LAMBDA t : positions[m][t][o], Accounts)
Winners(m) == {t \in Accounts : positions[m][t][markets[m].result] > 0}
Owed(m) ==
  IF ~markets[m].settled THEN markets[m].total_volume
  ELSE MapThenSumSet(LAMBDA t : Payout(m, t, markets[m].result), Winners(m))

\* The pool holds at least what its open markets took in and its settled
\* ones still owe, whoever claims first; and it never keeps more than a few
\* stroops above that: one for the fees of a market and one per winner.
PoolSolvent ==
  LET owed == MapThenSumSet(Owed, MatchIds)
      dust == MaxMatches * (1 + Cardinality(Accounts))
  IN owed <= balance[PoolAddr] /\ balance[PoolAddr] <= owed + dust

-----------------------------------------------------------------------------
(* Progress that no cross-contract check may block *)

\* Once a result is in, the cascade can run for every verdict the window or
\* the arbiter may give: no check of a callee, no shortfall of a token
\* account and no rounding of the prize can make it panic and freeze the
\* stakes.
CascadeNeverStuck ==
  \A m \in MatchIds, winner \in Outcome : Decided(m) => CanCascade(m, winner)

\* While a result is pending it can be disputed or finalized, never both and,
\* unless the arbiter set a window that overflows the deadline, always one.
WindowDecides ==
  \A m \in MatchIds :
    matches[m].state = "PendingFinalization" =>
      /\ ~(Disputable(m) /\ Finalizable(m))
      /\ Disputable(m) \/ Finalizable(m) \/ DeadlineOverflows
-----------------------------------------------------------------------------
(* What a step may never do *)

\* A locked market never reopens, a settled one keeps its result, a closed
\* match stays closed, and neither takes another bet.
NothingReopens ==
  \A m \in MatchIds :
    /\ markets[m].locked => markets[m]'.locked
    /\ markets[m].locked \/ markets[m].settled =>
         /\ markets[m]'.pool = markets[m].pool
         /\ markets[m]'.total_volume = markets[m].total_volume
    /\ markets[m].settled => markets[m]'.settled /\ markets[m]'.result = markets[m].result
    /\ Closed(m) => matches[m]' = matches[m] /\ records[m]' = records[m]

OneWay == [][NothingReopens]_vars

\* A match's stakes leave the vault in three ways only: player A takes back
\* an Open match; the undisputed result is finalized as submitted, its window
\* over; or a disputed one is resolved, which the arbiter alone can do.
ReleasesByVerdict ==
  \A m \in MatchIds : Outstanding(m)' < Outstanding(m) =>
    \/ matches[m].state = "Open" /\ matches[m]'.state = "Cancelled"
    \/ /\ matches[m].state = "PendingFinalization"
       /\ WindowElapsed(m)
       /\ markets[m]'.result = pendingResults[m].winner
    \/ matches[m].state = "Disputed" /\ matches[m]'.state = "Completed"

StakesReleasedByVerdict == [][ReleasesByVerdict]_vars

\* The vault's token account moves with the books of one match at a time, by
\* exactly as much.
MovesWithBooks ==
  \E m \in MatchIds :
    /\ balance[EscrowAddr]' - balance[EscrowAddr] = Outstanding(m)' - Outstanding(m)
    /\ \A n \in MatchIds \ {m} : records[n]' = records[n]

VaultMovesWithBooks == [][MovesWithBooks]_vars
=============================================================================
