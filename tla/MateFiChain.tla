---------------------------- MODULE MateFiChain ----------------------------
(***************************************************************************)
(* The five contracts and the USDC token, composed.  Each action is one    *)
(* transaction: an entry point and every cross-contract call it makes.  A  *)
(* panic anywhere reverts the whole transaction, so an action's guard is   *)
(* the conjunction of the checks of all the contracts it reaches, and a    *)
(* transaction that fails is a stutter.                                    *)
(***************************************************************************)
EXTENDS MatchRegistry, EscrowVault, PredictionPool, OracleGateway, Settlement

CONSTANT Funds    \* USDC each account holds at the start

ASSUME FundsAssumption == Funds \in Nat

VARIABLE balance  \* the USDC token: holder -> amount

vars == <<matches, matchCounter, records, markets, positions,
          threshold, confirmations, streak,
          pendingResults, disputes, challenge_window, arbiter, balance>>

TypeOK ==
  /\ RegistryTypeOK
  /\ EscrowTypeOK
  /\ PoolTypeOK
  /\ OracleTypeOK
  /\ SettlementTypeOK
  /\ balance \in [Holders -> Nat]

Init ==
  /\ RegistryInit
  /\ EscrowInit
  /\ PoolInit
  /\ OracleInit
  /\ SettlementInit
  /\ balance = [h \in Holders |-> IF h \in Accounts THEN Funds ELSE 0]

\* The balances after a transfer, and one that the token lets through.
Moved(bal, from, to, amount) ==
  [bal EXCEPT ![from] = @ - amount, ![to] = @ + amount]

transfer(from, to, amount) ==
  /\ balance[from] >= amount
  /\ balance' = Moved(balance, from, to, amount)
-----------------------------------------------------------------------------
(* MatchRegistry's entry points *)

CreateMatch(a, bet, tc) ==
  /\ create_match(a, bet, tc)
  /\ record_deposit(matchCounter + 1, a, bet)
  /\ transfer(a, EscrowAddr, bet)
  /\ UNCHANGED <<poolVars, oracleVars, settlementVars>>

JoinMatch(m, b) ==
  /\ join_match(m, b)
  /\ record_deposit(m, b, matches[m].bet_amount)
  /\ transfer(b, EscrowAddr, matches[m].bet_amount)
  /\ open_market(m)
  /\ UNCHANGED <<oracleVars, settlementVars>>

CancelMatch(m, a) ==
  /\ cancel_match(m, a)
  /\ refund(m, matches[m].bet_amount)
  /\ transfer(EscrowAddr, a, matches[m].bet_amount)
  /\ UNCHANGED <<poolVars, oracleVars, settlementVars>>
-----------------------------------------------------------------------------
(* PredictionPool's entry points for traders *)

BuyOutcome(m, t, o, amount) ==
  /\ buy_outcome(m, t, o, amount)
  /\ transfer(t, PoolAddr, amount)
  /\ UNCHANGED <<registryVars, records, oracleVars, settlementVars>>

PayTrader(m, t, o) ==
  /\ pay_trader(m, t, o)
  /\ transfer(PoolAddr, t, Payout(m, t, o))
  /\ UNCHANGED <<registryVars, records, oracleVars, settlementVars>>
-----------------------------------------------------------------------------
(* OracleGateway's entry points *)

PostEvaluation(m, score) ==
  /\ post_evaluation(m, score)
  /\ IF Locks(m, score) THEN lock_market(m) ELSE UNCHANGED poolVars
  /\ UNCHANGED <<registryVars, records, settlementVars, balance>>

\* post_result calls Settlement.submit_result, which parks the match.
PostResult(m, winner) ==
  /\ set_pending_finalization(m)
  /\ RecordResult(m, winner)
  /\ UNCHANGED <<records, poolVars, oracleVars, balance>>

SetThreshold(t) ==
  /\ set_threshold(t)
  /\ UNCHANGED <<registryVars, records, poolVars, settlementVars, balance>>

SetConfirmations(c) ==
  /\ set_confirmations(c)
  /\ UNCHANGED <<registryVars, records, poolVars, settlementVars, balance>>
-----------------------------------------------------------------------------
(* Settlement's entry points *)

Volume(m) == markets[m].total_volume
Prize(m)  == PlayerPrize(matches[m].bet_amount, Volume(m))

\* The vault's record once the pool has credited the flywheel bonus; a zero
\* flywheel makes no call.
Bonused(m) ==
  IF FeeFlywheel(Volume(m)) > 0
  THEN AfterBonus(records[m], FeeFlywheel(Volume(m)))
  ELSE records[m]

\* What leaves the pool when a market settles, and the vault after it.
PoolOutflow(m, winner) ==
  FeeTreasury(Volume(m)) + FeeFlywheel(Volume(m)) + Sweep(m, winner)

VaultOutflow(m, winner) ==
  IF winner = "Draw" THEN DrawPayout(records[m]) + FeeFlywheel(Volume(m))
                     ELSE Bonused(m).total_locked

\* Every check a contract makes on the way through run_cascade.
CascadeChecks(m, winner) ==
  /\ CanSettle(m)
  /\ FeeFlywheel(Volume(m)) > 0 => CanAddBonus(records[m], FeeFlywheel(Volume(m)))
  /\ winner = "Draw" => CanReleaseDraw(Bonused(m))
  /\ winner # "Draw" => CanRelease(Bonused(m), Prize(m))
  /\ winner = "PlayerB" => matches[m].player_b # NoAddress
  /\ CanComplete(m)

\* The token lets every transfer through that the cascade makes.
CascadeFunded(m, winner) ==
  /\ balance[PoolAddr] >= PoolOutflow(m, winner)
  /\ balance[EscrowAddr] + FeeFlywheel(Volume(m)) >= VaultOutflow(m, winner)

CanCascade(m, winner) == CascadeChecks(m, winner) /\ CascadeFunded(m, winner)

\* The balances once the pool has paid the fees and the sweep.
PoolPaid(m, winner) ==
  Moved(Moved(balance, PoolAddr, TreasuryAddr,
              FeeTreasury(Volume(m)) + Sweep(m, winner)),
        PoolAddr, EscrowAddr, FeeFlywheel(Volume(m)))

\* The balances once the vault has paid the players and the treasury.
PlayersPaid(m, winner) ==
  LET r     == Bonused(m)
      paid  == PoolPaid(m, winner)
      fee   == r.total_locked - Prize(m)
      share == r.amount_each
      \* release pays the prize, and the rest of total_locked as the fee
      Released(to) == Moved(Moved(paid, EscrowAddr, to, Prize(m)),
                            EscrowAddr, TreasuryAddr, fee)
      \* release_draw returns each deposit, and sends the bonus as well
      toA   == Moved(paid, EscrowAddr, r.player_a, share)
      toB   == IF r.player_b = NoAddress THEN toA
               ELSE Moved(toA, EscrowAddr, r.player_b, share)
  IN CASE winner = "PlayerA" -> Released(matches[m].player_a)
       [] winner = "PlayerB" -> Released(matches[m].player_b)
       [] winner = "Draw"    -> Moved(toB, EscrowAddr, TreasuryAddr, r.bonus)

\* run_cascade: settle the market, pay out the vault, complete the match and
\* forget the result.
Cascade(m, winner) ==
  /\ CanCascade(m, winner)
  /\ settle(m, winner)
  /\ records' = [records EXCEPT ![m] = AfterRelease(Bonused(m))]
  /\ complete_match(m)
  /\ ClearResult(m)
  /\ balance' = PlayersPaid(m, winner)
  /\ UNCHANGED oracleVars

\* Mutant of Finalizable: the challenge window is not checked.
FinalizableEarly(m) == HasPending(m) /\ matches[m].state = "PendingFinalization"

\* What finalize checks itself, before the cascade.
Finalizable(m) ==
  /\ HasPending(m)
  /\ matches[m].state = "PendingFinalization"
  /\ WindowElapsed(m)

\* Permissionless: nobody in particular calls it.
Finalize(m) ==
  /\ Finalizable(m)
  /\ Cascade(m, pendingResults[m].winner)

IsParty(m, who) ==
  who \in {matches[m].player_a, matches[m].player_b, arbiter}

Disputable(m) ==
  /\ HasPending(m)
  /\ matches[m].state = "PendingFinalization"
  /\ WindowOpen(m)

OpenDispute(m, disputer) ==
  /\ Disputable(m)
  /\ IsParty(m, disputer)
  /\ set_disputed(m)
  /\ RecordDispute(m, disputer)
  /\ UNCHANGED <<records, poolVars, oracleVars, balance>>

ResolveDispute(m, caller, outcome) ==
  /\ caller = arbiter
  /\ matches[m].state = "Disputed"
  /\ HasPending(m)
  /\ Cascade(m, FinalWinner(m, outcome))

SetChallengeWindow(caller, w) ==
  /\ set_challenge_window(caller, w)
  /\ UNCHANGED <<registryVars, records, poolVars, oracleVars, balance>>

SetArbiter(caller, new) ==
  /\ set_arbiter(caller, new)
  /\ UNCHANGED <<registryVars, records, poolVars, oracleVars, balance>>

PassTime ==
  /\ Tick
  /\ UNCHANGED <<registryVars, records, poolVars, oracleVars, balance>>
-----------------------------------------------------------------------------
RegistryNext ==
  \/ \E a \in Accounts, bet \in BetAmounts, tc \in TimeControls :
       CreateMatch(a, bet, tc)
  \/ \E m \in MatchIds, a \in Accounts : JoinMatch(m, a) \/ CancelMatch(m, a)

PoolNext ==
  \E m \in MatchIds, t \in Accounts, o \in Outcome :
    \/ \E amount \in TradeAmounts : BuyOutcome(m, t, o, amount)
    \/ PayTrader(m, t, o)

OracleNext ==
  \/ \E m \in MatchIds, score \in Scores : PostEvaluation(m, score)
  \/ \E m \in MatchIds, winner \in Outcome : PostResult(m, winner)
  \/ \E t \in Thresholds : SetThreshold(t)
  \/ \E c \in Confirmations : SetConfirmations(c)

SettlementNext ==
  \/ \E m \in MatchIds : Finalize(m)
  \/ \E m \in MatchIds, who \in Accounts : OpenDispute(m, who)
  \/ \E m \in MatchIds, who \in Accounts, outcome \in DisputeOutcome :
       ResolveDispute(m, who, outcome)
  \/ \E who \in Accounts, w \in Windows : SetChallengeWindow(who, w)
  \/ \E who, new \in Accounts : SetArbiter(who, new)
  \/ PassTime

Next == RegistryNext \/ PoolNext \/ OracleNext \/ SettlementNext

Spec == Init /\ [][Next]_vars
=============================================================================
