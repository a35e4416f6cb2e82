---------------------------- MODULE MateFiProofs ---------------------------
(***************************************************************************)
(* The composed contracts, for every number of accounts, matches and       *)
(* amounts: types, the agreement of the five contracts' records, what a    *)
(* step may never do, when a market is locked, that the money adds up, and *)
(* that the contracts implement the wager they promise.                    *)
(*                                                                         *)
(* ContractsAgree speaks of one match at a time, so each action is proved  *)
(* to establish Agree for the match it works on; the others keep it by     *)
(* AgreeFrame, since nothing they are judged by changes.  The money adds   *)
(* up over all matches and traders: a step changes one match's weight in   *)
(* such a sum, and one account, by the same amount.                        *)
(***************************************************************************)
EXTENDS MateFiRefinement, OracleHistory, FiniteSums

-----------------------------------------------------------------------------
(* Fees *)

\* What the fee arithmetic returns: nothing is negative, a market pays no
\* more in fees and net pool than its volume, and the prize is positive and
\* within the players' pool.
LEMMA FeeBounds ==
  ASSUME NEW v \in Nat
  PROVE  /\ FeeTreasury(v) \in Nat
         /\ FeeFlywheel(v) \in Nat
         /\ NetPool(v) \in Nat
         /\ FeeTreasury(v) + FeeFlywheel(v) + NetPool(v) <= v
  BY DEF FeeTreasury, FeeFlywheel, NetPool

\* A winner takes something, and no more than the players' pool.
LEMMA PrizeBounds ==
  ASSUME NEW bet \in Nat, NEW v \in Nat
  PROVE  /\ PlayerPrize(bet, v) \in Nat
         /\ PlayerPrize(bet, v) <= PlayerPool(bet, v)
         /\ bet > 0 => PlayerPrize(bet, v) > 0
  BY FeeBounds DEF PlayerPrize, PlayerPool
-----------------------------------------------------------------------------
(* The token *)

\* A transfer is not allowed to overdraw.
LEMMA TransferType ==
  ASSUME balance \in [Holders -> Nat],
         NEW from \in Holders, NEW to \in Holders, from # to,
         NEW amount \in Nat, transfer(from, to, amount)
  PROVE  balance' \in [Holders -> Nat]
  BY DEF transfer, Moved
-----------------------------------------------------------------------------
\* Nothing is stored, and the holders have their first balances.
LEMMA InitTypeOK == Init => TypeOK
  BY AddressAssumption, OracleAssumption, WindowAssumption, FundsAssumption,
     MatchAssumption
  DEF Init, TypeOK, RegistryInit, EscrowInit, PoolInit, OracleInit, SettlementInit,
      RegistryTypeOK, EscrowTypeOK, PoolTypeOK, OracleTypeOK, SettlementTypeOK,
      NoMatch, NoRecord, NoMarket, NoResult, Match, DepositRecord, Market, MatchState,
      MatchIds, Holders, Outcome
-----------------------------------------------------------------------------
(* One lemma per contract: its steps keep its storage well typed *)

\* One match enters a state.
LEMMA EnterTyped ==
  ASSUME RegistryTypeOK, NEW m \in MatchIds, Exists(m),
         NEW s \in MatchState, Enter(m, s), UNCHANGED matchCounter
  PROVE  RegistryTypeOK' /\ matches[m].bet_amount \in Nat
<1>1. matches[m] \in Match
  BY DEF RegistryTypeOK, Exists, NoMatch
<1>2. [matches[m] EXCEPT !.state = s] \in Match
  BY <1>1 DEF Match
<1>3. matches' = [matches EXCEPT ![m] = [matches[m] EXCEPT !.state = s]]
  BY DEF Enter
<1> QED BY <1>1, <1>2, <1>3 DEF RegistryTypeOK, Match

\* The entry points of MatchRegistry.
LEMMA RegistryTyped ==
  ASSUME RegistryTypeOK, NEW m \in MatchIds, NEW who \in Accounts
  PROVE  /\ \A bet \in BetAmounts, tc \in TimeControls : create_match(who, bet, tc) =>
              RegistryTypeOK' /\ bet \in Nat /\ matchCounter + 1 \in MatchIds
         /\ join_match(m, who) => RegistryTypeOK' /\ matches[m].bet_amount \in Nat
         /\ cancel_match(m, who) => RegistryTypeOK' /\ matches[m].bet_amount \in Nat
         /\ set_pending_finalization(m) => RegistryTypeOK'
         /\ set_disputed(m) => RegistryTypeOK'
         /\ complete_match(m) => RegistryTypeOK'
<1> USE DEF MatchState
<1>1. \A bet \in BetAmounts, tc \in TimeControls : create_match(who, bet, tc) =>
        RegistryTypeOK' /\ bet \in Nat /\ matchCounter + 1 \in MatchIds
  BY BetAssumption, MinBetAssumption, MatchAssumption
  DEF create_match, MatchIds, RegistryTypeOK, Match, NoMatch
<1>2. join_match(m, who) => RegistryTypeOK' /\ matches[m].bet_amount \in Nat
  BY DEF join_match, RegistryTypeOK, Match, NoMatch
<1>3. cancel_match(m, who) => RegistryTypeOK' /\ matches[m].bet_amount \in Nat
  BY EnterTyped DEF cancel_match, Exists
<1>4. set_pending_finalization(m) => RegistryTypeOK'
  BY EnterTyped DEF set_pending_finalization, Exists
<1>5. set_disputed(m) => RegistryTypeOK'
  BY EnterTyped DEF set_disputed, Exists
<1>6. complete_match(m) => RegistryTypeOK'
  BY EnterTyped DEF complete_match, CanComplete, Exists
<1> QED BY <1>1, <1>2, <1>3, <1>4, <1>5, <1>6

\* A stake is added to the record of the match,
LEMMA DepositTyped ==
  ASSUME NEW r \in DepositRecord, NEW who \in Accounts, NEW amount \in Nat
  PROVE  AfterDeposit(r, who, amount) \in DepositRecord
<1>1. RecordFor(r, who, amount) \in DepositRecord
  <2>1. 0 \in Nat /\ 0 \in Int
    OBVIOUS
  <2>2. [NoRecord EXCEPT !.player_a = who, !.amount_each = amount] \in DepositRecord
    BY <2>1, Zenon DEF DepositRecord, NoRecord
  <2> QED BY <2>2 DEF RecordFor
<1> DEFINE old == RecordFor(r, who, amount)
<1>2. AfterDeposit(r, who, amount) =
        [old EXCEPT !.player_b = IF old.player_a # who THEN who ELSE old.player_b,
                    !.total_locked = old.total_locked + amount]
  BY DEF AfterDeposit, old
<1>3. old \in DepositRecord
  BY <1>1 DEF old
<1> HIDE DEF old
<1>4. old.total_locked + amount \in Int
  BY <1>3 DEF DepositRecord
<1>5. (IF old.player_a # who THEN who ELSE old.player_b) \in Accounts \cup {NoAddress}
  BY <1>3, Zenon DEF DepositRecord
<1> QED BY <1>2, <1>3, <1>4, <1>5, Zenon DEF DepositRecord

\* and taken out of it.
LEMMA VaultRecordTyped ==
  ASSUME NEW r \in DepositRecord, NEW amount \in Nat
  PROVE  /\ AfterBonus(r, amount) \in DepositRecord
         /\ AfterRelease(r) \in DepositRecord
         /\ AfterRefund(r, amount) \in DepositRecord
<1>1. /\ r.total_locked + amount \in Int
      /\ r.total_locked - amount \in Int
      /\ r.bonus + amount \in Nat
  BY DEF DepositRecord
<1>2. AfterBonus(r, amount) \in DepositRecord
  BY <1>1, Zenon DEF DepositRecord, AfterBonus
<1>3. AfterRelease(r) \in DepositRecord
  BY Zenon DEF DepositRecord, AfterRelease
<1>4. AfterRefund(r, amount) \in DepositRecord
  BY <1>1, Zenon DEF DepositRecord, AfterRefund
<1> QED BY <1>2, <1>3, <1>4

\* The entry points of EscrowVault.
LEMMA EscrowTyped ==
  ASSUME EscrowTypeOK, NEW m \in MatchIds, NEW who \in Accounts, NEW amount \in Nat
  PROVE  /\ record_deposit(m, who, amount) => EscrowTypeOK'
         /\ refund(m, amount) => EscrowTypeOK'
         /\ \A r \in DepositRecord :
              records' = [records EXCEPT ![m] = AfterRelease(r)] => EscrowTypeOK'
<1>1. record_deposit(m, who, amount) => EscrowTypeOK'
  BY DepositTyped DEF record_deposit, EscrowTypeOK
<1>2. refund(m, amount) => EscrowTypeOK'
  BY VaultRecordTyped DEF refund, EscrowTypeOK
<1>3. \A r \in DepositRecord :
        records' = [records EXCEPT ![m] = AfterRelease(r)] => EscrowTypeOK'
  BY VaultRecordTyped DEF EscrowTypeOK
<1> QED BY <1>1, <1>2, <1>3

\* What PredictionPool makes of a market.
LEMMA MarketTyped ==
  ASSUME NEW r \in Market, NEW o \in Outcome
  PROVE  /\ [NoMarket EXCEPT !.opened = TRUE] \in Market
         /\ \A amount \in Nat :
              [r EXCEPT !.pool[o] = @ + amount, !.total_volume = @ + amount] \in Market
         /\ [r EXCEPT !.locked = TRUE] \in Market
         /\ [r EXCEPT !.settled = TRUE, !.result = o] \in Market
<1>1. [NoMarket EXCEPT !.opened = TRUE] \in Market
  BY Zenon DEF NoMarket, Market
<1>2. ASSUME NEW amount \in Nat
      PROVE  [r EXCEPT !.pool[o] = @ + amount, !.total_volume = @ + amount] \in Market
  <2>1. [r.pool EXCEPT ![o] = @ + amount] \in [Outcome -> Nat]
    BY DEF Market
  <2>2. r.total_volume + amount \in Nat
    BY DEF Market
  <2> QED BY <2>1, <2>2, Zenon DEF Market
<1>3. [r EXCEPT !.locked = TRUE] \in Market
  BY Zenon DEF Market
<1>4. [r EXCEPT !.settled = TRUE, !.result = o] \in Market
  BY Zenon DEF Market
<1> QED BY <1>1, <1>2, <1>3, <1>4

\* A rounded share is a natural number.
LEMMA ShareTyped ==
  ASSUME NEW x \in Nat, NEW y \in Nat, NEW z \in Nat, z # 0
  PROVE  (x * y) \div z \in Nat
<1>1. x * y \in Nat
  OBVIOUS
<1>2. \A w \in Nat : w \div z \in Nat
  OBVIOUS
<1> QED BY <1>1, <1>2

\* The entry points of PredictionPool,
LEMMA PoolTyped ==
  ASSUME PoolTypeOK, NEW m \in MatchIds, NEW t \in Accounts, NEW o \in Outcome
  PROVE  /\ open_market(m) => PoolTypeOK'
         /\ \A amount \in TradeAmounts :
              buy_outcome(m, t, o, amount) => PoolTypeOK' /\ amount \in Nat
         /\ lock_market(m) => PoolTypeOK'
         /\ settle(m, o) => PoolTypeOK'
         /\ pay_trader(m, t, o) => PoolTypeOK' /\ Payout(m, t, o) \in Nat
<1> USE DEF PoolTypeOK
<1>1. open_market(m) => PoolTypeOK'
  BY MarketTyped DEF open_market
<1>2. ASSUME NEW amount \in TradeAmounts, buy_outcome(m, t, o, amount)
      PROVE  PoolTypeOK' /\ amount \in Nat
  <2>1. amount \in Nat
    BY <1>2, TradeAssumption, MinBetAssumption DEF buy_outcome
  <2>2. markets' = [markets EXCEPT ![m] = [markets[m] EXCEPT
                      !.pool[o] = @ + amount, !.total_volume = @ + amount]]
    BY <1>2 DEF buy_outcome
  <2>3. markets' \in [MatchIds -> Market]
    BY <2>1, <2>2, MarketTyped
  <2>4. positions' \in [MatchIds -> [Accounts -> [Outcome -> Nat]]]
    BY <1>2, <2>1 DEF buy_outcome
  <2> QED BY <2>1, <2>3, <2>4
<1>3. lock_market(m) => PoolTypeOK'
  <2>1. lock_market(m) =>
          markets' = [markets EXCEPT ![m] = [markets[m] EXCEPT !.locked = TRUE]]
    BY DEF lock_market
  <2> QED BY ZenonT(30), <2>1, MarketTyped DEF lock_market
<1>4. settle(m, o) => PoolTypeOK'
  <2>1. settle(m, o) =>
          markets' = [markets EXCEPT ![m] =
                        [markets[m] EXCEPT !.settled = TRUE, !.result = o]]
    BY DEF settle
  <2>2. [markets[m] EXCEPT !.settled = TRUE, !.result = o] \in Market
    BY MarketTyped
  <2> QED BY <2>1, <2>2, Zenon DEF settle
<1>5. ASSUME pay_trader(m, t, o) PROVE PoolTypeOK' /\ Payout(m, t, o) \in Nat
  <2>1. PoolTypeOK'
    BY <1>5 DEF pay_trader
  <2>2. /\ positions[m][t][o] \in Nat
        /\ NetPool(markets[m].total_volume) \in Nat
        /\ markets[m].pool[o] \in Nat /\ markets[m].pool[o] # 0
    BY <1>5, FeeBounds DEF pay_trader, Market
  <2> QED BY <2>1, <2>2, ShareTyped DEF Payout
<1> QED BY <1>1, <1>2, <1>3, <1>4, <1>5

\* of OracleGateway,
LEMMA OracleTyped ==
  ASSUME OracleTypeOK, NEW m \in MatchIds
  PROVE  /\ \A score \in Scores : post_evaluation(m, score) => OracleTypeOK'
         /\ \A t \in Thresholds : set_threshold(t) => OracleTypeOK'
         /\ \A c \in Confirmations : set_confirmations(c) => OracleTypeOK'
  BY OracleAssumption
  DEF OracleTypeOK, post_evaluation, NextStreak, set_threshold, set_confirmations

\* and of Settlement.
LEMMA SettlementTyped ==
  ASSUME SettlementTypeOK, NEW m \in MatchIds, NEW who \in Accounts
  PROVE  /\ \A o \in Outcome : RecordResult(m, o) => SettlementTypeOK'
         /\ RecordDispute(m, who) => SettlementTypeOK'
         /\ ClearResult(m) => SettlementTypeOK'
         /\ \A w \in Windows : set_challenge_window(who, w) => SettlementTypeOK'
         /\ \A new \in Accounts : set_arbiter(who, new) => SettlementTypeOK'
         /\ Tick => SettlementTypeOK'
         /\ \A d \in DisputeOutcome :
              HasPending(m) => FinalWinner(m, d) \in Outcome
<1> USE WindowAssumption DEF SettlementTypeOK
<1>1. \A o \in Outcome : RecordResult(m, o) => SettlementTypeOK'
  BY DEF RecordResult
<1>2. RecordDispute(m, who) => SettlementTypeOK'
  BY DEF RecordDispute
<1>3. ClearResult(m) => SettlementTypeOK'
  BY DEF ClearResult, NoResult
<1>4. \A w \in Windows : set_challenge_window(who, w) => SettlementTypeOK'
  BY DEF set_challenge_window
<1>5. \A new \in Accounts : set_arbiter(who, new) => SettlementTypeOK'
  BY DEF set_arbiter
<1>6. Tick => SettlementTypeOK'
  BY DEF Tick, HasPending
<1>7. \A d \in DisputeOutcome : HasPending(m) => FinalWinner(m, d) \in Outcome
  BY DEF DisputeOutcome, HasPending, FinalWinner, Outcome
<1> QED BY <1>1, <1>2, <1>3, <1>4, <1>5, <1>6, <1>7
-----------------------------------------------------------------------------
(* The cascade's payments *)

\* Balances in which only the vault may still have to pay something.
Covered(bal) ==
  /\ bal \in [Holders -> Int]
  /\ \A h \in Holders \ {EscrowAddr} : bal[h] >= 0

\* A payment out of the vault leaves every other balance covered, and the
\* vault with exactly that much less.
LEMMA VaultPays ==
  ASSUME NEW bal, Covered(bal), NEW to \in Holders \ {EscrowAddr}, NEW amount \in Nat
  PROVE  /\ Covered(Moved(bal, EscrowAddr, to, amount))
         /\ Moved(bal, EscrowAddr, to, amount)[EscrowAddr] = bal[EscrowAddr] - amount
<1>1. EscrowAddr \in Holders /\ bal \in [Holders -> Int]
  BY DEF Holders, Covered
<1>2. amount \in Int /\ to \in Holders /\ EscrowAddr # to
  OBVIOUS
<1>3. /\ Moved(bal, EscrowAddr, to, amount) \in [Holders -> Int]
      /\ Moved(bal, EscrowAddr, to, amount)[EscrowAddr] = bal[EscrowAddr] - amount
      /\ Moved(bal, EscrowAddr, to, amount)[to] = bal[to] + amount
      /\ \A h \in Holders \ {EscrowAddr, to} :
           Moved(bal, EscrowAddr, to, amount)[h] = bal[h]
  BY <1>1, <1>2, AddressAssumption DEF Moved
<1> QED BY <1>3 DEF Covered

\* The amounts of the cascade.
LEMMA VolumeTyped ==
  ASSUME TypeOK, NEW m \in MatchIds, NEW winner \in Outcome
  PROVE  /\ Volume(m) \in Nat
         /\ FeeTreasury(Volume(m)) \in Nat
         /\ FeeFlywheel(Volume(m)) \in Nat
         /\ Sweep(m, winner) \in Nat
         /\ PoolOutflow(m, winner) \in Nat
         /\ Bonused(m) \in DepositRecord
<1>1. Volume(m) \in Nat
  BY DEF TypeOK, PoolTypeOK, Market, Volume
<1>2. Sweep(m, winner) \in Nat
  BY <1>1, FeeBounds DEF Sweep, Volume
<1>3. FeeTreasury(Volume(m)) \in Nat /\ FeeFlywheel(Volume(m)) \in Nat
  BY <1>1, FeeBounds
<1>4. PoolOutflow(m, winner) \in Nat
  BY <1>2, <1>3 DEF PoolOutflow
<1>5. Bonused(m) \in DepositRecord
  BY <1>3, VaultRecordTyped DEF Bonused, TypeOK, EscrowTypeOK
<1> QED BY <1>1, <1>2, <1>3, <1>4, <1>5

\* The pool pays what it must and keeps the rest; the vault receives the bonus.
LEMMA PoolPays ==
  ASSUME TypeOK, NEW m \in MatchIds, NEW winner \in Outcome,
         CascadeFunded(m, winner)
  PROVE  /\ Covered(PoolPaid(m, winner))
         /\ PoolPaid(m, winner)[PoolAddr] = balance[PoolAddr] - PoolOutflow(m, winner)
         /\ PoolPaid(m, winner)[EscrowAddr] =
              balance[EscrowAddr] + FeeFlywheel(Volume(m))
<1> DEFINE fees  == FeeTreasury(Volume(m)) + Sweep(m, winner)
           bonus == FeeFlywheel(Volume(m))
           once  == Moved(balance, PoolAddr, TreasuryAddr, fees)
<1>1. /\ PoolAddr \in Holders /\ EscrowAddr \in Holders /\ TreasuryAddr \in Holders
      /\ balance \in [Holders -> Nat]
      /\ fees \in Nat /\ bonus \in Nat
      /\ PoolOutflow(m, winner) = fees + bonus
      /\ balance[PoolAddr] >= fees + bonus
  BY VolumeTyped DEF Holders, TypeOK, PoolOutflow, CascadeFunded
<1>2. PoolPaid(m, winner) = Moved(once, PoolAddr, EscrowAddr, bonus)
  BY DEF PoolPaid
<1> HIDE DEF fees, bonus
<1>3. /\ once \in [Holders -> Int]
      /\ once[PoolAddr] = balance[PoolAddr] - fees
      /\ \A h \in Holders \ {PoolAddr} : once[h] >= 0
      /\ once[EscrowAddr] = balance[EscrowAddr]
  BY <1>1, AddressAssumption DEF once, Moved
<1> HIDE DEF once
<1>4. /\ Moved(once, PoolAddr, EscrowAddr, bonus) \in [Holders -> Int]
      /\ Moved(once, PoolAddr, EscrowAddr, bonus)[PoolAddr] = once[PoolAddr] - bonus
      /\ Moved(once, PoolAddr, EscrowAddr, bonus)[EscrowAddr] = once[EscrowAddr] + bonus
      /\ \A h \in Holders \ {PoolAddr, EscrowAddr} :
           Moved(once, PoolAddr, EscrowAddr, bonus)[h] = once[h]
  BY <1>1, <1>3, AddressAssumption DEF Moved
<1> QED BY <1>1, <1>2, <1>3, <1>4 DEF Covered, bonus

\* A release: the prize to the winner, the rest of the total to the treasury.
LEMMA ReleasePays ==
  ASSUME NEW bal, Covered(bal), NEW to \in Accounts,
         NEW prize \in Nat, NEW total \in Int, prize <= total
  PROVE  LET after == Moved(Moved(bal, EscrowAddr, to, prize),
                            EscrowAddr, TreasuryAddr, total - prize)
         IN  Covered(after) /\ after[EscrowAddr] = bal[EscrowAddr] - total
<1>1. /\ to \in Holders \ {EscrowAddr} /\ TreasuryAddr \in Holders \ {EscrowAddr}
      /\ total - prize \in Nat /\ bal[EscrowAddr] \in Int
  BY AddressAssumption DEF Holders, Covered
<1> DEFINE won == Moved(bal, EscrowAddr, to, prize)
<1>2. Covered(won) /\ won[EscrowAddr] = bal[EscrowAddr] - prize
  BY <1>1, VaultPays
<1> HIDE DEF won
<1>3. /\ Covered(Moved(won, EscrowAddr, TreasuryAddr, total - prize))
      /\ Moved(won, EscrowAddr, TreasuryAddr, total - prize)[EscrowAddr] =
           won[EscrowAddr] - (total - prize)
  BY <1>1, <1>2, VaultPays
<1> QED BY <1>1, <1>2, <1>3 DEF won

\* A draw: each deposit back to the player who made it, the bonus to the treasury.
DrawPaid(bal, a, b, share, bonus) ==
  LET toA == Moved(bal, EscrowAddr, a, share)
      toB == IF b = NoAddress THEN toA ELSE Moved(toA, EscrowAddr, b, share)
  IN  Moved(toB, EscrowAddr, TreasuryAddr, bonus)

DrawShares(b, share) == IF b = NoAddress THEN share ELSE 2 * share

\* A draw pays each player their own stake, and the vault pays it.
LEMMA DrawPays ==
  ASSUME NEW bal, Covered(bal), NEW a \in Accounts, NEW b \in Accounts \cup {NoAddress},
         NEW share \in Nat, NEW bonus \in Nat
  PROVE  /\ Covered(DrawPaid(bal, a, b, share, bonus))
         /\ DrawPaid(bal, a, b, share, bonus)[EscrowAddr] =
              bal[EscrowAddr] - DrawShares(b, share) - bonus
<1>1. /\ a \in Holders \ {EscrowAddr} /\ TreasuryAddr \in Holders \ {EscrowAddr}
      /\ b # NoAddress => b \in Holders \ {EscrowAddr}
      /\ bal[EscrowAddr] \in Int
  BY AddressAssumption DEF Holders, Covered
<1> DEFINE toA  == Moved(bal, EscrowAddr, a, share)
           toB  == IF b = NoAddress THEN toA ELSE Moved(toA, EscrowAddr, b, share)
           back == DrawShares(b, share)
<1>2. Covered(toA) /\ toA[EscrowAddr] = bal[EscrowAddr] - share
  BY <1>1, VaultPays
<1> HIDE DEF toA
<1>3. /\ b # NoAddress => /\ Covered(Moved(toA, EscrowAddr, b, share))
                          /\ Moved(toA, EscrowAddr, b, share)[EscrowAddr] =
                               toA[EscrowAddr] - share
  BY <1>1, <1>2, VaultPays
<1>4. Covered(toB) /\ toB[EscrowAddr] = bal[EscrowAddr] - back /\ back \in Nat
  BY <1>1, <1>2, <1>3 DEF DrawShares
<1> HIDE DEF toB, back
<1>5. /\ Covered(Moved(toB, EscrowAddr, TreasuryAddr, bonus))
      /\ Moved(toB, EscrowAddr, TreasuryAddr, bonus)[EscrowAddr] =
           toB[EscrowAddr] - bonus
  BY <1>1, <1>4, VaultPays
<1> QED BY <1>1, <1>4, <1>5 DEF toA, toB, back, DrawPaid, DrawShares

\* What the players and the treasury receive comes out of the vault alone,
\* and adds up to the vault's outflow.
LEMMA PlayersPay ==
  ASSUME TypeOK, NEW m \in MatchIds, NEW winner \in Outcome, CanCascade(m, winner)
  PROVE  /\ PlayersPaid(m, winner) \in [Holders -> Nat]
         /\ PlayersPaid(m, winner)[EscrowAddr] =
              balance[EscrowAddr] + FeeFlywheel(Volume(m)) - VaultOutflow(m, winner)
<1>1. /\ CascadeChecks(m, winner) /\ CascadeFunded(m, winner)
      /\ Bonused(m) \in DepositRecord /\ records[m] \in DepositRecord
      /\ FeeFlywheel(Volume(m)) \in Nat /\ balance[EscrowAddr] \in Nat
      /\ Covered(PoolPaid(m, winner))
      /\ PoolPaid(m, winner)[EscrowAddr] = balance[EscrowAddr] + FeeFlywheel(Volume(m))
  BY PoolPays, VolumeTyped DEF CanCascade, TypeOK, EscrowTypeOK, Holders
<1>2. matches[m] \in Match
  BY <1>1 DEF CascadeChecks, CanComplete, TypeOK, RegistryTypeOK, NoMatch
<1>3. Prize(m) \in Nat
  BY <1>2, VolumeTyped, PrizeBounds DEF Prize, Match
<1>4. SUFFICES /\ Covered(PlayersPaid(m, winner))
               /\ PlayersPaid(m, winner)[EscrowAddr] =
                    PoolPaid(m, winner)[EscrowAddr] - VaultOutflow(m, winner)
  <2>1. balance[EscrowAddr] + FeeFlywheel(Volume(m)) >= VaultOutflow(m, winner)
    BY <1>1 DEF CascadeFunded
  <2>2. VaultOutflow(m, winner) \in Int
    BY <1>1 DEF VaultOutflow, DrawPayout, DepositRecord
  <2>3. PlayersPaid(m, winner)[EscrowAddr] >= 0
    BY <1>1, <1>4, <2>1, <2>2
  <2>4. \A bal : Covered(bal) /\ bal[EscrowAddr] >= 0 => bal \in [Holders -> Nat]
    BY DEF Covered, Holders
  <2>5. PlayersPaid(m, winner) \in [Holders -> Nat]
    BY <1>4, <2>3, <2>4
  <2> QED BY <1>1, <1>4, <2>2, <2>5
<1>5. ASSUME NEW to \in Accounts, winner # "Draw",
             PlayersPaid(m, winner) =
               Moved(Moved(PoolPaid(m, winner), EscrowAddr, to, Prize(m)),
                     EscrowAddr, TreasuryAddr, Bonused(m).total_locked - Prize(m))
      PROVE  /\ Covered(PlayersPaid(m, winner))
             /\ PlayersPaid(m, winner)[EscrowAddr] =
                  PoolPaid(m, winner)[EscrowAddr] - VaultOutflow(m, winner)
  <2>1. /\ Bonused(m).total_locked \in Int
        /\ Prize(m) <= Bonused(m).total_locked
        /\ VaultOutflow(m, winner) = Bonused(m).total_locked
    BY <1>1, <1>3, <1>5 DEF CascadeChecks, CanRelease, VaultOutflow, DepositRecord
  <2>2. /\ Covered(PlayersPaid(m, winner))
        /\ PlayersPaid(m, winner)[EscrowAddr] =
             PoolPaid(m, winner)[EscrowAddr] - Bonused(m).total_locked
    <3>1. PICK prize \in Nat, total \in Int :
            prize = Prize(m) /\ total = Bonused(m).total_locked
      BY <1>3, <2>1
    <3>2. Covered(PoolPaid(m, winner)) /\ prize <= total
      BY <1>1, <2>1, <3>1
    <3>3. LET after == Moved(Moved(PoolPaid(m, winner), EscrowAddr, to, prize),
                             EscrowAddr, TreasuryAddr, total - prize)
          IN  /\ Covered(after)
              /\ after[EscrowAddr] = PoolPaid(m, winner)[EscrowAddr] - total
      BY <1>5, <3>2, ReleasePays
    <3> QED BY <1>5, <3>1, <3>3
  <2> QED BY <2>1, <2>2
<1>6. CASE winner = "PlayerA"
  <2>1. matches[m].player_a \in Accounts
    BY <1>2 DEF Match
  <2>2. PlayersPaid(m, winner) =
          Moved(Moved(PoolPaid(m, winner), EscrowAddr, matches[m].player_a, Prize(m)),
                EscrowAddr, TreasuryAddr, Bonused(m).total_locked - Prize(m))
    BY <1>6 DEF PlayersPaid
  <2> QED BY <1>5, <1>6, <2>1, <2>2
<1>7. CASE winner = "PlayerB"
  <2>1. matches[m].player_b \in Accounts
    BY <1>1, <1>2, <1>7 DEF Match, CascadeChecks
  <2>2. PlayersPaid(m, winner) =
          Moved(Moved(PoolPaid(m, winner), EscrowAddr, matches[m].player_b, Prize(m)),
                EscrowAddr, TreasuryAddr, Bonused(m).total_locked - Prize(m))
    BY <1>7 DEF PlayersPaid
  <2> QED BY <1>5, <1>7, <2>1, <2>2
<1>8. CASE winner = "Draw"
  <2> DEFINE r == Bonused(m)
  <2>1. /\ r.amount_each \in Nat /\ r.bonus \in Nat /\ r.player_a \in Accounts
        /\ r.player_b \in Accounts \cup {NoAddress}
    BY <1>1, <1>8 DEF CascadeChecks, CanReleaseDraw, Recorded, DepositRecord
  <2>2. VaultOutflow(m, winner) =
          DrawShares(r.player_b, r.amount_each) + r.bonus
    BY <1>1, <1>8 DEF VaultOutflow, DrawPayout, Bonused, AfterBonus, DepositRecord, DrawShares
  <2>3. PlayersPaid(m, winner) =
          DrawPaid(PoolPaid(m, winner), r.player_a, r.player_b, r.amount_each, r.bonus)
    BY <1>8 DEF PlayersPaid, DrawPaid
  <2> HIDE DEF r
  <2>4. PICK a \in Accounts, b \in Accounts \cup {NoAddress},
             share \in Nat, bonus \in Nat :
               a = r.player_a /\ b = r.player_b /\ share = r.amount_each /\ bonus = r.bonus
    BY <2>1
  <2>5. DrawShares(b, share) \in Nat
    BY DEF DrawShares
  <2>6. LET after == DrawPaid(PoolPaid(m, winner), a, b, share, bonus)
        IN  /\ Covered(after)
            /\ after[EscrowAddr] =
                 PoolPaid(m, winner)[EscrowAddr] - DrawShares(b, share) - bonus
    <3>1. Covered(PoolPaid(m, winner))
      BY <1>1
    <3> QED BY <3>1, DrawPays, Zenon
  <2> QED BY <1>1, <2>2, <2>3, <2>4, <2>5, <2>6
<1> QED BY <1>6, <1>7, <1>8 DEF Outcome
-----------------------------------------------------------------------------
(* Type correctness *)

\* The cascade, through all of the contracts.
LEMMA CascadeTyped ==
  ASSUME TypeOK, NEW m \in MatchIds, NEW winner \in Outcome, Cascade(m, winner)
  PROVE  TypeOK'
<1>1. PICK who \in Accounts : TRUE
  BY DEF TypeOK, SettlementTypeOK
<1>2. RegistryTypeOK'
  BY <1>1, RegistryTyped DEF TypeOK, Cascade
<1>3. EscrowTypeOK'
  <2>1. Bonused(m) \in DepositRecord
    BY VolumeTyped
  <2>2. records' = [records EXCEPT ![m] = AfterRelease(Bonused(m))]
    BY DEF Cascade
  <2> QED BY <2>1, <2>2, VaultRecordTyped DEF TypeOK, EscrowTypeOK
<1>4. PoolTypeOK'
  BY <1>1, PoolTyped DEF TypeOK, Cascade
<1>5. OracleTypeOK'
  BY DEF TypeOK, Cascade, OracleTypeOK, oracleVars
<1>6. SettlementTypeOK'
  BY <1>1, SettlementTyped DEF TypeOK, Cascade
<1>7. balance' \in [Holders -> Nat]
  BY PlayersPay DEF Cascade
<1> QED BY <1>2, <1>3, <1>4, <1>5, <1>6, <1>7 DEF TypeOK

\* The transactions on the registry,
LEMMA RegistryNextTyped == TypeOK /\ RegistryNext => TypeOK'
<1> SUFFICES ASSUME TypeOK, RegistryNext PROVE TypeOK'
  OBVIOUS
<1>0. /\ RegistryTypeOK /\ EscrowTypeOK /\ PoolTypeOK /\ OracleTypeOK
      /\ SettlementTypeOK /\ balance \in [Holders -> Nat]
      /\ EscrowAddr \in Holders /\ EscrowAddr \notin Accounts /\ Accounts \subseteq Holders
  BY AddressAssumption DEF TypeOK, Holders
<1>1. UNCHANGED poolVars => PoolTypeOK'
  BY <1>0 DEF PoolTypeOK, poolVars
<1>2. UNCHANGED oracleVars => OracleTypeOK'
  BY <1>0 DEF OracleTypeOK, oracleVars
<1>3. UNCHANGED settlementVars => SettlementTypeOK'
  BY <1>0 DEF SettlementTypeOK, settlementVars
<1>4. ASSUME NEW a \in Accounts, NEW bet \in BetAmounts, NEW tc \in TimeControls,
             CreateMatch(a, bet, tc)
      PROVE  TypeOK'
  <2>1. RegistryTypeOK' /\ bet \in Nat /\ matchCounter + 1 \in MatchIds
    <3>1. PICK m \in MatchIds : TRUE
      BY MatchAssumption DEF MatchIds
    <3> QED BY <1>0, <1>4, <3>1, RegistryTyped DEF CreateMatch
  <2>2. EscrowTypeOK'
    BY <1>0, <1>4, <2>1, EscrowTyped DEF CreateMatch
  <2>3. balance' \in [Holders -> Nat]
    BY <1>0, <1>4, <2>1, TransferType DEF CreateMatch
  <2> QED BY <1>1, <1>2, <1>3, <1>4, <2>1, <2>2, <2>3 DEF TypeOK, CreateMatch
<1>5. ASSUME NEW m \in MatchIds, NEW b \in Accounts, JoinMatch(m, b)
      PROVE  TypeOK'
  <2>1. RegistryTypeOK' /\ matches[m].bet_amount \in Nat
    BY <1>0, <1>5, RegistryTyped DEF JoinMatch
  <2>2. EscrowTypeOK'
    BY <1>0, <1>5, <2>1, EscrowTyped DEF JoinMatch
  <2>3. PoolTypeOK'
    <3>1. PICK o \in Outcome : TRUE
      BY DEF Outcome
    <3> QED BY <1>0, <1>5, <3>1, PoolTyped DEF JoinMatch
  <2>4. balance' \in [Holders -> Nat]
    BY <1>0, <1>5, <2>1, TransferType DEF JoinMatch
  <2> QED BY <1>2, <1>3, <1>5, <2>1, <2>2, <2>3, <2>4 DEF TypeOK, JoinMatch
<1>6. ASSUME NEW m \in MatchIds, NEW a \in Accounts, CancelMatch(m, a)
      PROVE  TypeOK'
  <2>1. RegistryTypeOK' /\ matches[m].bet_amount \in Nat
    BY <1>0, <1>6, RegistryTyped DEF CancelMatch
  <2>2. EscrowTypeOK'
    BY <1>0, <1>6, <2>1, EscrowTyped DEF CancelMatch
  <2>3. balance' \in [Holders -> Nat]
    BY <1>0, <1>6, <2>1, TransferType DEF CancelMatch
  <2> QED BY <1>1, <1>2, <1>3, <1>6, <2>1, <2>2, <2>3 DEF TypeOK, CancelMatch
<1> QED BY <1>4, <1>5, <1>6 DEF RegistryNext

\* on the pool,
LEMMA PoolNextTyped == TypeOK /\ PoolNext => TypeOK'
<1> SUFFICES ASSUME TypeOK, NEW m \in MatchIds, NEW t \in Accounts, NEW o \in Outcome,
                    \/ \E amount \in TradeAmounts : BuyOutcome(m, t, o, amount)
                    \/ PayTrader(m, t, o)
             PROVE  TypeOK'
  BY DEF PoolNext
<1>0. /\ PoolTypeOK /\ balance \in [Holders -> Nat]
      /\ PoolAddr \in Holders /\ PoolAddr \notin Accounts /\ Accounts \subseteq Holders
  BY AddressAssumption DEF TypeOK, Holders
<1>1. /\ UNCHANGED <<registryVars, records, oracleVars, settlementVars>>
      /\ \/ \E amount \in TradeAmounts : BuyOutcome(m, t, o, amount)
         \/ PayTrader(m, t, o)
  BY DEF BuyOutcome, PayTrader
<1>2. RegistryTypeOK' /\ EscrowTypeOK' /\ OracleTypeOK' /\ SettlementTypeOK'
  BY <1>1 DEF TypeOK, RegistryTypeOK, EscrowTypeOK, OracleTypeOK, SettlementTypeOK,
     registryVars, oracleVars, settlementVars
<1>3. ASSUME NEW amount \in TradeAmounts, BuyOutcome(m, t, o, amount) PROVE TypeOK'
  <2>1. PoolTypeOK' /\ amount \in Nat
    BY <1>0, <1>3, PoolTyped DEF BuyOutcome
  <2>2. balance' \in [Holders -> Nat]
    BY <1>0, <1>3, <2>1, TransferType DEF BuyOutcome
  <2> QED BY <1>2, <2>1, <2>2 DEF TypeOK
<1>4. ASSUME PayTrader(m, t, o) PROVE TypeOK'
  <2>1. PoolTypeOK' /\ Payout(m, t, o) \in Nat
    BY <1>0, <1>4, PoolTyped DEF PayTrader
  <2>2. balance' \in [Holders -> Nat]
    BY <1>0, <1>4, <2>1, TransferType DEF PayTrader
  <2> QED BY <1>2, <2>1, <2>2 DEF TypeOK
<1> QED BY <1>1, <1>3, <1>4

\* on the oracle,
LEMMA OracleNextTyped == TypeOK /\ OracleNext => TypeOK'
<1> SUFFICES ASSUME TypeOK, OracleNext PROVE TypeOK'
  OBVIOUS
<1>0. PICK m0 \in MatchIds, a0 \in Accounts, o0 \in Outcome : TRUE
  BY MatchAssumption DEF TypeOK, SettlementTypeOK, Outcome, MatchIds
<1>1. UNCHANGED registryVars => RegistryTypeOK'
  BY DEF TypeOK, RegistryTypeOK, registryVars
<1>2. UNCHANGED records => EscrowTypeOK'
  BY DEF TypeOK, EscrowTypeOK
<1>3. UNCHANGED poolVars => PoolTypeOK'
  BY DEF TypeOK, PoolTypeOK, poolVars
<1>4. UNCHANGED oracleVars => OracleTypeOK'
  BY DEF TypeOK, OracleTypeOK, oracleVars
<1>5. UNCHANGED settlementVars => SettlementTypeOK'
  BY DEF TypeOK, SettlementTypeOK, settlementVars
<1>6. UNCHANGED balance => balance' \in [Holders -> Nat]
  BY DEF TypeOK
<1>7. ASSUME NEW m \in MatchIds, NEW score \in Scores, PostEvaluation(m, score)
      PROVE  TypeOK'
  <2>1. OracleTypeOK'
    BY <1>7, OracleTyped DEF TypeOK, PostEvaluation
  <2>2. PoolTypeOK'
    <3>1. lock_market(m) => PoolTypeOK'
      BY <1>0, PoolTyped DEF TypeOK
    <3> QED BY <1>3, <1>7, <3>1 DEF PostEvaluation
  <2> QED BY <1>1, <1>2, <1>5, <1>6, <1>7, <2>1, <2>2 DEF TypeOK, PostEvaluation
<1>8. ASSUME NEW m \in MatchIds, NEW winner \in Outcome, PostResult(m, winner)
      PROVE  TypeOK'
  <2>1. RegistryTypeOK'
    BY <1>0, <1>8, RegistryTyped DEF TypeOK, PostResult
  <2>2. SettlementTypeOK'
    BY <1>0, <1>8, SettlementTyped DEF TypeOK, PostResult
  <2> QED BY <1>2, <1>3, <1>4, <1>6, <1>8, <2>1, <2>2 DEF TypeOK, PostResult
<1>9. ASSUME NEW t \in Thresholds, SetThreshold(t) PROVE TypeOK'
  <2>1. OracleTypeOK'
    BY <1>0, <1>9, OracleTyped DEF TypeOK, SetThreshold
  <2> QED BY <1>1, <1>2, <1>3, <1>5, <1>6, <1>9, <2>1 DEF TypeOK, SetThreshold
<1>10. ASSUME NEW c \in Confirmations, SetConfirmations(c) PROVE TypeOK'
  <2>1. OracleTypeOK'
    BY <1>0, <1>10, OracleTyped DEF TypeOK, SetConfirmations
  <2> QED BY <1>1, <1>2, <1>3, <1>5, <1>6, <1>10, <2>1 DEF TypeOK, SetConfirmations
<1> QED BY <1>7, <1>8, <1>9, <1>10 DEF OracleNext

\* and on the settlement keep the types.
LEMMA SettlementNextTyped == TypeOK /\ SettlementNext => TypeOK'
<1> SUFFICES ASSUME TypeOK, SettlementNext PROVE TypeOK'
  OBVIOUS
<1>0. PICK m0 \in MatchIds, a0 \in Accounts : TRUE
  <2>1. 1 \in MatchIds /\ arbiter \in Accounts
    BY MatchAssumption DEF TypeOK, SettlementTypeOK, MatchIds
  <2> QED BY <2>1
<1>1. ASSUME NEW m \in MatchIds, Finalize(m) PROVE TypeOK'
  <2>1. pendingResults[m].winner \in Outcome
    BY <1>1 DEF Finalize, Finalizable, HasPending, TypeOK, SettlementTypeOK
  <2> QED BY <1>1, <2>1, CascadeTyped DEF Finalize
<1>2. ASSUME NEW m \in MatchIds, NEW who \in Accounts, NEW outcome \in DisputeOutcome,
             ResolveDispute(m, who, outcome)
      PROVE  TypeOK'
  <2>1. FinalWinner(m, outcome) \in Outcome
    BY <1>2, SettlementTyped DEF ResolveDispute, TypeOK
  <2> QED BY <1>2, <2>1, CascadeTyped DEF ResolveDispute
<1>3. ASSUME UNCHANGED <<records, poolVars, oracleVars, balance>>,
             RegistryTypeOK', SettlementTypeOK'
      PROVE  TypeOK'
  BY <1>3 DEF TypeOK, EscrowTypeOK, PoolTypeOK, OracleTypeOK, poolVars, oracleVars
<1>4. UNCHANGED registryVars => RegistryTypeOK'
  BY DEF TypeOK, RegistryTypeOK, registryVars
<1>5. ASSUME NEW m \in MatchIds, NEW who \in Accounts, OpenDispute(m, who) PROVE TypeOK'
  <2>1. RegistryTypeOK'
    BY <1>5, RegistryTyped DEF TypeOK, OpenDispute
  <2>2. SettlementTypeOK'
    BY <1>5, SettlementTyped DEF TypeOK, OpenDispute
  <2> QED BY <1>3, <1>5, <2>1, <2>2 DEF OpenDispute
<1>6. ASSUME NEW who \in Accounts, NEW w \in Windows, SetChallengeWindow(who, w)
      PROVE  TypeOK'
  <2>1. SettlementTypeOK'
    BY <1>0, <1>6, SettlementTyped DEF TypeOK, SetChallengeWindow
  <2> QED BY <1>3, <1>4, <1>6, <2>1 DEF SetChallengeWindow
<1>7. ASSUME NEW who \in Accounts, NEW new \in Accounts, SetArbiter(who, new)
      PROVE  TypeOK'
  <2>1. SettlementTypeOK'
    BY <1>0, <1>7, SettlementTyped DEF TypeOK, SetArbiter
  <2> QED BY <1>3, <1>4, <1>7, <2>1 DEF SetArbiter
<1>8. ASSUME PassTime PROVE TypeOK'
  <2>1. SettlementTypeOK'
    BY <1>0, <1>8, SettlementTyped DEF TypeOK, PassTime
  <2> QED BY <1>3, <1>4, <1>8, <2>1 DEF PassTime
<1> QED BY <1>1, <1>2, <1>5, <1>6, <1>7, <1>8 DEF SettlementNext

\* So does every step.
LEMMA NextTyped == TypeOK /\ [Next]_vars => TypeOK'
<1>1. TypeOK /\ UNCHANGED vars => TypeOK'
  BY DEF TypeOK, RegistryTypeOK, EscrowTypeOK, PoolTypeOK, OracleTypeOK,
     SettlementTypeOK, vars
<1> QED BY <1>1, RegistryNextTyped, PoolNextTyped, OracleNextTyped, SettlementNextTyped
        DEF Next

\* Every reachable state is well typed: in particular no token balance ever
\* goes below zero, whatever the matches, stakes, windows and evaluations.
THEOREM TypeCorrect == Spec => []TypeOK
  BY InitTypeOK, NextTyped, PTL DEF Spec
-----------------------------------------------------------------------------
(* The five contracts agree *)

\* Nothing that Agree(n) reads changes.
Same(n) ==
  /\ matches'[n] = matches[n]
  /\ (n <= matchCounter)' <=> n <= matchCounter
  /\ records'[n] = records[n]
  /\ markets'[n] = markets[n]
  /\ pendingResults'[n].winner = pendingResults[n].winner
  /\ disputes'[n] = disputes[n]

\* A match that nothing is done about goes on agreeing.
LEMMA AgreeFrame ==
  ASSUME NEW n \in MatchIds, Agree(n), Same(n)
  PROVE  Agree(n)'
  BY DEF Agree, Same, VaultAgrees, MarketAgrees, ResultAgrees, SeatsAgree, Recorded,
         Exists, Closed, Played, Decided, HasPending, Volume

\* What well-typed state says of one match.
LEMMA MatchTyped ==
  ASSUME TypeOK, NEW m \in MatchIds
  PROVE  /\ Exists(m) => matches[m] \in Match
         /\ ~Exists(m) => matches[m] = NoMatch
         /\ records[m] \in DepositRecord
         /\ markets[m] \in Market
         /\ FeeFlywheel(Volume(m)) \in Nat
<1>1. /\ matches[m] \in Match \cup {NoMatch} /\ records[m] \in DepositRecord
      /\ markets[m] \in Market
  BY DEF TypeOK, RegistryTypeOK, EscrowTypeOK, PoolTypeOK
<1>2. /\ Exists(m) => matches[m] \in Match
      /\ ~Exists(m) => matches[m] = NoMatch
  BY <1>1 DEF Exists, NoMatch, Match, MatchState
<1>3. Volume(m) \in Nat
  BY <1>1 DEF Volume, Market
<1> QED BY <1>1, <1>2, <1>3, FeeBounds
-----------------------------------------------------------------------------
\* No match exists anywhere.
LEMMA InitAgree == Init => ContractsAgree
<1> SUFFICES ASSUME Init, NEW m \in MatchIds PROVE Agree(m)
  BY DEF ContractsAgree
<1>1. /\ matches[m] = NoMatch /\ matchCounter = 0 /\ records[m] = NoRecord
      /\ markets[m] = NoMarket /\ pendingResults[m] = NoResult
      /\ disputes[m] = NoAddress
  BY DEF Init, RegistryInit, EscrowInit, PoolInit, SettlementInit
<1>2. ~(m <= 0)
  BY DEF MatchIds
<1> QED BY <1>1, <1>2
        DEF Agree, VaultAgrees, MarketAgrees, ResultAgrees, SeatsAgree, Recorded, Exists,
            Closed, Played, Decided, HasPending, NoMatch, NoRecord, NoMarket, NoResult

\* The registry, the vault and the pool agree about a new match,
LEMMA CreateAgree ==
  ASSUME TypeOK, ContractsAgree, NEW a \in Accounts, NEW bet \in BetAmounts,
         NEW tc \in TimeControls, CreateMatch(a, bet, tc)
  PROVE  ContractsAgree'
<1>1. /\ matchCounter \in Nat /\ bet \in Int /\ bet >= MIN_BET
      /\ MIN_BET \in Nat /\ bet > 0
  BY BetAssumption, MinBetAssumption, MatchAssumption
  DEF CreateMatch, create_match, TypeOK, RegistryTypeOK, MatchIds
<1>m. PICK m \in MatchIds : m = matchCounter + 1
  BY MatchAssumption DEF CreateMatch, create_match, TypeOK, RegistryTypeOK, MatchIds
<1>2. /\ matches' = [matches EXCEPT ![m] =
                       [player_a |-> a, player_b |-> NoAddress,
                        bet_amount |-> bet, state |-> "Open"]]
      /\ matchCounter' = m
      /\ records' = [records EXCEPT ![m] = AfterDeposit(records[m], a, bet)]
      /\ UNCHANGED <<poolVars, settlementVars>>
  BY <1>m DEF CreateMatch, create_match, record_deposit
<1>3. Agree(m) /\ ~Exists(m) /\ ~Recorded(records[m])
  BY <1>1, <1>m DEF ContractsAgree, Agree, SeatsAgree, VaultAgrees
<1>4. ASSUME NEW n \in MatchIds, n # m PROVE Agree(n)'
  <2>1. n <= matchCounter' <=> n <= matchCounter
    BY <1>1, <1>2, <1>4, <1>m DEF MatchIds
  <2>2. Same(n)
    BY <1>1, <1>2, <1>4, <2>1
    DEF Same, TypeOK, RegistryTypeOK, EscrowTypeOK, poolVars, settlementVars
  <2> QED BY <2>2, AgreeFrame DEF ContractsAgree
<1>5. Agree(m)'
  <2>1. /\ records'[m].player_a = a /\ records'[m].player_b = NoAddress
        /\ records'[m].amount_each = bet /\ records'[m].bonus = 0
        /\ records'[m].total_locked = bet /\ ~records'[m].released
    <3>1. RecordFor(records[m], a, bet) =
            [player_a |-> a, player_b |-> NoAddress, amount_each |-> bet,
             bonus |-> 0, total_locked |-> 0, released |-> FALSE]
      BY <1>3 DEF RecordFor, NoRecord
    <3>2. records'[m] = AfterDeposit(records[m], a, bet)
      BY <1>2 DEF TypeOK, EscrowTypeOK
    <3> QED BY <1>1, <3>1, <3>2 DEF AfterDeposit
  <2>2. matches'[m] = [player_a |-> a, player_b |-> NoAddress,
                       bet_amount |-> bet, state |-> "Open"]
    BY <1>1, <1>2 DEF TypeOK, RegistryTypeOK
  <2>3. /\ markets'[m] = markets[m] /\ pendingResults'[m] = pendingResults[m]
        /\ disputes'[m] = disputes[m]
    BY <1>2 DEF poolVars, settlementVars
  <2>4. a # NoAddress
    BY AddressAssumption DEF Holders
  <2>5. VaultAgrees(m)'
    BY <2>1, <2>2, <2>4 DEF VaultAgrees, Recorded, Exists, Closed, Played
  <2>6. MarketAgrees(m)' /\ ResultAgrees(m)'
    BY <1>3, <2>2, <2>3
    DEF Agree, MarketAgrees, ResultAgrees, Exists, Closed, Played, Decided, HasPending
  <2>7. SeatsAgree(m)'
    BY <1>1, <1>m, <1>2, <2>2, <2>4 DEF SeatsAgree, Exists, Played
  <2> QED BY <2>5, <2>6, <2>7 DEF Agree
<1> QED BY <1>4, <1>5 DEF ContractsAgree

\* a joined one,
LEMMA JoinAgree ==
  ASSUME TypeOK, ContractsAgree, NEW m \in MatchIds, NEW b \in Accounts, JoinMatch(m, b)
  PROVE  ContractsAgree'
<1>1. /\ matches' = [matches EXCEPT ![m].player_b = b, ![m].state = "Active"]
      /\ matchCounter' = matchCounter
      /\ records' = [records EXCEPT ![m] = AfterDeposit(records[m], b, matches[m].bet_amount)]
      /\ markets' = [markets EXCEPT ![m] = [NoMarket EXCEPT !.opened = TRUE]]
      /\ UNCHANGED settlementVars
      /\ matches[m].state = "Open" /\ matches[m].player_a # b
  BY DEF JoinMatch, join_match, record_deposit, open_market
<1>2. Agree(m) /\ Exists(m) /\ Recorded(records[m])
  BY <1>1 DEF ContractsAgree, Agree, VaultAgrees, Exists
<1>3. matches[m] \in Match /\ records[m] \in DepositRecord
  BY <1>2, MatchTyped
<1>4. ASSUME NEW n \in MatchIds, n # m PROVE Agree(n)'
  <2>1. Same(n)
    BY <1>1, <1>4
    DEF Same, TypeOK, RegistryTypeOK, EscrowTypeOK, PoolTypeOK, settlementVars
  <2> QED BY <2>1, AgreeFrame DEF ContractsAgree
<1>5. Agree(m)'
  <2>1. /\ records'[m].player_a = records[m].player_a
        /\ records'[m].player_b = b
        /\ records'[m].amount_each = records[m].amount_each
        /\ records'[m].bonus = records[m].bonus
        /\ records'[m].released = records[m].released
        /\ records'[m].total_locked = records[m].total_locked + matches[m].bet_amount
    <3>1. RecordFor(records[m], b, matches[m].bet_amount) = records[m]
      BY <1>2 DEF RecordFor
    <3>2. records'[m] = AfterDeposit(records[m], b, matches[m].bet_amount)
      BY <1>1 DEF TypeOK, EscrowTypeOK
    <3>3. records[m].player_a # b
      BY <1>1, <1>2 DEF Agree, VaultAgrees
    <3> QED BY <1>3, <3>1, <3>2, <3>3 DEF AfterDeposit, DepositRecord
  <2>2. /\ matches'[m].player_a = matches[m].player_a
        /\ matches'[m].player_b = b
        /\ matches'[m].bet_amount = matches[m].bet_amount
        /\ matches'[m].state = "Active"
    BY <1>1, <1>3 DEF TypeOK, RegistryTypeOK, Match
  <2>3. /\ markets'[m].opened /\ ~markets'[m].settled
        /\ markets'[m].result = "Pending" /\ markets'[m].total_volume = 0
        /\ pendingResults'[m] = pendingResults[m] /\ disputes'[m] = disputes[m]
    BY <1>1 DEF settlementVars, TypeOK, PoolTypeOK, NoMarket
  <2>4. b # NoAddress
    BY AddressAssumption DEF Holders
  <2>5. VaultAgrees(m)'
    <3>1. /\ records[m].total_locked = matches[m].bet_amount
          /\ records[m].amount_each = matches[m].bet_amount
          /\ records[m].bonus = 0 /\ ~records[m].released
          /\ matches[m].bet_amount \in Nat
      BY <1>1, <1>2, <1>3 DEF Agree, VaultAgrees, Closed, Match
    <3>2. records'[m].total_locked = 2 * records'[m].amount_each + records'[m].bonus
      BY <2>1, <3>1
    <3>3. /\ records'[m].player_a = matches'[m].player_a
          /\ records'[m].player_a # NoAddress
          /\ ~records'[m].released
      BY <1>2, <2>1, <2>2, <3>1 DEF Agree, VaultAgrees, Recorded
    <3> QED BY <2>1, <2>2, <3>1, <3>2, <3>3
            DEF VaultAgrees, Recorded, Exists, Closed, Played
  <2>6. MarketAgrees(m)' /\ ResultAgrees(m)'
    BY <1>1, <1>2, <2>2, <2>3
    DEF Agree, MarketAgrees, ResultAgrees, Exists, Closed, Played, Decided, HasPending
  <2>7. SeatsAgree(m)'
    BY <1>1, <1>2, <2>2, <2>4 DEF Agree, SeatsAgree, Exists, Played
  <2> QED BY <2>5, <2>6, <2>7 DEF Agree
<1> QED BY <1>4, <1>5 DEF ContractsAgree

\* a cancelled one,
LEMMA CancelAgree ==
  ASSUME TypeOK, ContractsAgree, NEW m \in MatchIds, NEW a \in Accounts, CancelMatch(m, a)
  PROVE  ContractsAgree'
<1>1. /\ matches' = [matches EXCEPT ![m].state = "Cancelled"]
      /\ matchCounter' = matchCounter
      /\ records' = [records EXCEPT ![m] = AfterRefund(records[m], matches[m].bet_amount)]
      /\ UNCHANGED <<poolVars, settlementVars>>
      /\ matches[m].state = "Open"
  BY DEF CancelMatch, cancel_match, refund, Enter
<1>2. Agree(m) /\ Exists(m)
  BY <1>1 DEF ContractsAgree, Exists
<1>3. matches[m] \in Match /\ records[m] \in DepositRecord
  BY <1>2, MatchTyped
<1>4. ASSUME NEW n \in MatchIds, n # m PROVE Agree(n)'
  <2>1. Same(n)
    BY <1>1, <1>4
    DEF Same, TypeOK, RegistryTypeOK, EscrowTypeOK, poolVars, settlementVars
  <2> QED BY <2>1, AgreeFrame DEF ContractsAgree
<1>5. Agree(m)'
  <2>1. /\ records'[m].player_a = records[m].player_a
        /\ records'[m].player_b = records[m].player_b
        /\ records'[m].amount_each = records[m].amount_each
        /\ records'[m].bonus = records[m].bonus
        /\ records'[m].released
    BY <1>1, <1>3 DEF AfterRefund, TypeOK, EscrowTypeOK, DepositRecord
  <2>2. /\ matches'[m].player_a = matches[m].player_a
        /\ matches'[m].player_b = matches[m].player_b
        /\ matches'[m].bet_amount = matches[m].bet_amount
        /\ matches'[m].state = "Cancelled"
    BY <1>1, <1>3 DEF TypeOK, RegistryTypeOK, Match
  <2>3. /\ markets'[m] = markets[m] /\ pendingResults'[m] = pendingResults[m]
        /\ disputes'[m] = disputes[m]
    BY <1>1 DEF poolVars, settlementVars
  <2> QED
    BY <1>1, <1>2, <2>1, <2>2, <2>3
    DEF Agree, VaultAgrees, MarketAgrees, ResultAgrees, SeatsAgree, Recorded, Exists,
        Closed, Played, Decided, HasPending
<1> QED BY <1>4, <1>5 DEF ContractsAgree
-----------------------------------------------------------------------------
\* one that is bet on,
LEMMA BuyAgree ==
  ASSUME TypeOK, ContractsAgree, NEW m \in MatchIds, NEW t \in Accounts,
         NEW o \in Outcome, NEW amount \in TradeAmounts, BuyOutcome(m, t, o, amount)
  PROVE  ContractsAgree'
<1>1. /\ markets' = [markets EXCEPT ![m].pool[o] = @ + amount,
                                    ![m].total_volume = @ + amount]
      /\ ~markets[m].settled
      /\ UNCHANGED <<registryVars, records, settlementVars>>
  BY DEF BuyOutcome, buy_outcome
<1>2. Agree(m) /\ markets[m] \in Market
  BY MatchTyped DEF ContractsAgree
<1>3. ASSUME NEW n \in MatchIds, n # m PROVE Agree(n)'
  <2>1. Same(n)
    BY <1>1, <1>3 DEF Same, TypeOK, PoolTypeOK, registryVars, settlementVars
  <2> QED BY <2>1, AgreeFrame DEF ContractsAgree
<1>4. Agree(m)'
  <2>1. /\ markets'[m].opened = markets[m].opened
        /\ markets'[m].settled = markets[m].settled
        /\ markets'[m].result = markets[m].result
        /\ markets'[m].locked = markets[m].locked
    BY <1>1, <1>2 DEF TypeOK, PoolTypeOK, Market
  <2>2. /\ matches' = matches /\ matchCounter' = matchCounter /\ records' = records
        /\ pendingResults' = pendingResults /\ disputes' = disputes
    BY <1>1 DEF registryVars, settlementVars
  <2>3. matches[m].state # "Completed"
    BY <1>1, <1>2 DEF Agree, MarketAgrees
  <2> QED
    BY <1>2, <2>1, <2>2, <2>3
    DEF Agree, VaultAgrees, MarketAgrees, ResultAgrees, SeatsAgree, Recorded, Exists,
        Closed, Played, Decided, HasPending
<1> QED BY <1>3, <1>4 DEF ContractsAgree

\* one whose market is locked,
LEMMA EvaluationAgree ==
  ASSUME TypeOK, ContractsAgree, NEW m \in MatchIds, NEW score \in Scores,
         PostEvaluation(m, score)
  PROVE  ContractsAgree'
<1>1. /\ \/ markets' = markets
         \/ /\ markets' = [markets EXCEPT ![m].locked = TRUE]
            /\ markets[m].opened
      /\ UNCHANGED <<registryVars, records, settlementVars>>
  BY DEF PostEvaluation, lock_market, poolVars
<1> SUFFICES ASSUME NEW n \in MatchIds PROVE Agree(n)'
  BY DEF ContractsAgree
<1>2. Agree(n) /\ markets[n] \in Market
  BY MatchTyped DEF ContractsAgree
<1>3. /\ markets'[n].opened = markets[n].opened
      /\ markets'[n].settled = markets[n].settled
      /\ markets'[n].result = markets[n].result
      /\ markets'[n].total_volume = markets[n].total_volume
      /\ markets'[n].locked => markets[n].opened
  <2>1. CASE markets' = markets
    BY <1>2, <2>1 DEF Agree, MarketAgrees
  <2>2. CASE markets' = [markets EXCEPT ![m].locked = TRUE] /\ markets[m].opened
    BY <1>2, <2>2 DEF TypeOK, PoolTypeOK, Market, Agree, MarketAgrees
  <2> QED BY <1>1, <2>1, <2>2
<1>4. /\ matches' = matches /\ matchCounter' = matchCounter /\ records' = records
      /\ pendingResults' = pendingResults /\ disputes' = disputes
  BY <1>1 DEF registryVars, settlementVars
<1> QED
  BY <1>2, <1>3, <1>4
  DEF Agree, VaultAgrees, MarketAgrees, ResultAgrees, SeatsAgree, Recorded, Exists,
      Closed, Played, Decided, HasPending, Volume

\* one whose result is in,
LEMMA ResultAgree ==
  ASSUME TypeOK, ContractsAgree, NEW m \in MatchIds, NEW winner \in Outcome,
         PostResult(m, winner)
  PROVE  ContractsAgree'
<1>1. /\ matches' = [matches EXCEPT ![m].state = "PendingFinalization"]
      /\ matchCounter' = matchCounter
      /\ pendingResults' = [pendingResults EXCEPT ![m] = [winner |-> winner, age |-> 0]]
      /\ disputes' = disputes
      /\ UNCHANGED <<records, poolVars>>
      /\ matches[m].state = "Active"
  BY DEF PostResult, set_pending_finalization, RecordResult, Enter
<1>2. Agree(m) /\ matches[m] \in Match
  BY <1>1, MatchTyped DEF ContractsAgree, Exists
<1>3. ASSUME NEW n \in MatchIds, n # m PROVE Agree(n)'
  <2>1. Same(n)
    BY <1>1, <1>3 DEF Same, TypeOK, RegistryTypeOK, SettlementTypeOK, poolVars
  <2> QED BY <2>1, AgreeFrame DEF ContractsAgree
<1>4. Agree(m)'
  <2>1. /\ matches'[m].player_a = matches[m].player_a
        /\ matches'[m].player_b = matches[m].player_b
        /\ matches'[m].bet_amount = matches[m].bet_amount
        /\ matches'[m].state = "PendingFinalization"
        /\ pendingResults'[m].winner = winner /\ winner # "None"
    BY <1>1, <1>2 DEF TypeOK, RegistryTypeOK, SettlementTypeOK, Match, Outcome
  <2>2. records' = records /\ markets' = markets
    BY <1>1 DEF poolVars
  <2> QED
    BY <1>1, <1>2, <2>1, <2>2
    DEF Agree, VaultAgrees, MarketAgrees, ResultAgrees, SeatsAgree, Recorded, Exists,
        Closed, Played, Decided, HasPending, Volume
<1> QED BY <1>3, <1>4 DEF ContractsAgree
-----------------------------------------------------------------------------
\* The cascade leaves the vault's record released, with the flywheel share of
\* the volume as its bonus and no more.
LEMMA CascadeAgree ==
  ASSUME TypeOK, ContractsAgree, NEW m \in MatchIds, NEW winner \in Outcome,
         Cascade(m, winner)
  PROVE  ContractsAgree'
<1>1. /\ matches' = [matches EXCEPT ![m].state = "Completed"]
      /\ matchCounter' = matchCounter
      /\ records' = [records EXCEPT ![m] = AfterRelease(Bonused(m))]
      /\ markets' = [markets EXCEPT ![m].settled = TRUE, ![m].result = winner]
      /\ pendingResults' = [pendingResults EXCEPT ![m] = NoResult]
      /\ disputes' = [disputes EXCEPT ![m] = NoAddress]
      /\ Decided(m)
  BY DEF Cascade, complete_match, CanComplete, Enter, settle, ClearResult, Decided
<1>2. Agree(m) /\ Exists(m) /\ Played(m)
  BY <1>1 DEF ContractsAgree, Exists, Played, Decided
<1>3. /\ matches[m] \in Match /\ records[m] \in DepositRecord /\ markets[m] \in Market
      /\ FeeFlywheel(Volume(m)) \in Nat
  BY <1>2, MatchTyped
<1>4. ASSUME NEW n \in MatchIds, n # m PROVE Agree(n)'
  <2>1. Same(n)
    BY <1>1, <1>4
    DEF Same, TypeOK, RegistryTypeOK, EscrowTypeOK, PoolTypeOK, SettlementTypeOK
  <2> QED BY <2>1, AgreeFrame DEF ContractsAgree
<1>5. Agree(m)'
  <2>1. /\ matches'[m].player_a = matches[m].player_a
        /\ matches'[m].player_b = matches[m].player_b
        /\ matches'[m].bet_amount = matches[m].bet_amount
        /\ matches'[m].state = "Completed"
    BY <1>1, <1>3 DEF TypeOK, RegistryTypeOK, Match
  <2>2. /\ markets'[m].opened = markets[m].opened
        /\ markets'[m].settled /\ markets'[m].result = winner
        /\ markets'[m].total_volume = markets[m].total_volume
    BY <1>1, <1>3 DEF TypeOK, PoolTypeOK, Market
  <2>3. winner # "Pending" /\ Volume(m)' = Volume(m)
    BY <2>2 DEF Outcome, Volume
  <2>4. pendingResults'[m] = NoResult /\ disputes'[m] = NoAddress
    BY <1>1 DEF TypeOK, SettlementTypeOK
  <2>5. /\ records[m].bonus = 0
        /\ records[m].amount_each \in Nat
        /\ records[m].total_locked = 2 * records[m].amount_each
    BY <1>1, <1>2, <1>3 DEF Agree, VaultAgrees, Decided, DepositRecord
  <2>6. /\ records'[m].player_a = records[m].player_a
        /\ records'[m].player_b = records[m].player_b
        /\ records'[m].amount_each = records[m].amount_each
        /\ records'[m].bonus = FeeFlywheel(Volume(m))
        /\ records'[m].total_locked =
             2 * records[m].amount_each + FeeFlywheel(Volume(m))
        /\ records'[m].released
    <3>1. records'[m] = AfterRelease(Bonused(m))
      BY <1>1 DEF TypeOK, EscrowTypeOK
    <3>2. CASE FeeFlywheel(Volume(m)) > 0
      BY <1>3, <2>5, <3>1, <3>2 DEF AfterRelease, Bonused, AfterBonus, DepositRecord
    <3>3. CASE FeeFlywheel(Volume(m)) = 0
      BY <1>3, <2>5, <3>1, <3>3 DEF AfterRelease, Bonused, DepositRecord
    <3> QED BY <1>3, <3>2, <3>3
  <2>7. VaultAgrees(m)'
    <3>1. /\ records'[m].player_a = matches'[m].player_a
          /\ records'[m].player_b = matches'[m].player_b
          /\ records'[m].amount_each = matches'[m].bet_amount
          /\ records'[m].player_a # NoAddress
      BY <1>2, <2>1, <2>6 DEF Agree, VaultAgrees, Recorded
    <3>2. records'[m].total_locked = 2 * records'[m].amount_each + records'[m].bonus
      BY <2>6
    <3> QED BY <2>1, <2>3, <2>6, <3>1, <3>2
            DEF VaultAgrees, Recorded, Exists, Closed, Played
  <2>8. MarketAgrees(m)' /\ ResultAgrees(m)'
    BY <1>2, <2>1, <2>2, <2>3, <2>4
    DEF Agree, MarketAgrees, ResultAgrees, Played, Decided, HasPending, NoResult
  <2>9. SeatsAgree(m)'
    BY <1>1, <1>2, <2>1 DEF Agree, SeatsAgree, Exists, Played
  <2> QED BY <2>7, <2>8, <2>9 DEF Agree
<1> QED BY <1>4, <1>5 DEF ContractsAgree

\* and one that is disputed.
LEMMA DisputeAgree ==
  ASSUME TypeOK, ContractsAgree, NEW m \in MatchIds, NEW who \in Accounts,
         OpenDispute(m, who)
  PROVE  ContractsAgree'
<1>1. /\ matches' = [matches EXCEPT ![m].state = "Disputed"]
      /\ matchCounter' = matchCounter
      /\ disputes' = [disputes EXCEPT ![m] = who]
      /\ pendingResults' = pendingResults
      /\ UNCHANGED <<records, poolVars>>
      /\ matches[m].state = "PendingFinalization"
  BY DEF OpenDispute, set_disputed, RecordDispute, Enter
<1>2. Agree(m) /\ matches[m] \in Match
  BY <1>1, MatchTyped DEF ContractsAgree, Exists
<1>3. ASSUME NEW n \in MatchIds, n # m PROVE Agree(n)'
  <2>1. Same(n)
    BY <1>1, <1>3 DEF Same, TypeOK, RegistryTypeOK, SettlementTypeOK, poolVars
  <2> QED BY <2>1, AgreeFrame DEF ContractsAgree
<1>4. Agree(m)'
  <2>1. /\ matches'[m].player_a = matches[m].player_a
        /\ matches'[m].player_b = matches[m].player_b
        /\ matches'[m].bet_amount = matches[m].bet_amount
        /\ matches'[m].state = "Disputed"
        /\ disputes'[m] = who
    BY <1>1, <1>2 DEF TypeOK, RegistryTypeOK, SettlementTypeOK, Match
  <2>2. records' = records /\ markets' = markets /\ pendingResults' = pendingResults
    BY <1>1 DEF poolVars
  <2>3. who # NoAddress
    BY AddressAssumption DEF Holders
  <2> QED
    BY <1>1, <1>2, <2>1, <2>2, <2>3
    DEF Agree, VaultAgrees, MarketAgrees, ResultAgrees, SeatsAgree, Recorded, Exists,
        Closed, Played, Decided, HasPending, Volume
<1> QED BY <1>3, <1>4 DEF ContractsAgree

\* Claims, settings and the passing of time change nothing the contracts must
\* agree on.
LEMMA OtherAgree ==
  ASSUME TypeOK, ContractsAgree, matches' = matches, matchCounter' = matchCounter,
         records' = records, markets' = markets, disputes' = disputes,
         UNCHANGED pendingResults \/ Tick
  PROVE  ContractsAgree'
<1> SUFFICES ASSUME NEW n \in MatchIds PROVE Agree(n)'
  BY DEF ContractsAgree
<1>1. pendingResults'[n].winner = pendingResults[n].winner
  BY DEF Tick, TypeOK, SettlementTypeOK
<1> QED BY <1>1, AgreeFrame DEF Same, ContractsAgree
-----------------------------------------------------------------------------
\* Every step keeps the contracts agreed.
LEMMA NextAgree == TypeOK /\ ContractsAgree /\ [Next]_vars => ContractsAgree'
<1> SUFFICES ASSUME TypeOK, ContractsAgree, [Next]_vars PROVE ContractsAgree'
  OBVIOUS
<1>1. CASE RegistryNext
  BY <1>1, CreateAgree, JoinAgree, CancelAgree DEF RegistryNext
<1>2. CASE PoolNext
  <2>1. ASSUME NEW m \in MatchIds, NEW t \in Accounts, NEW o \in Outcome,
               PayTrader(m, t, o)
        PROVE  ContractsAgree'
    BY <2>1, OtherAgree DEF PayTrader, pay_trader, registryVars, settlementVars
  <2> QED BY <1>2, <2>1, BuyAgree DEF PoolNext
<1>3. CASE OracleNext
  <2>1. ASSUME NEW t \in Thresholds, SetThreshold(t) PROVE ContractsAgree'
    BY <2>1, OtherAgree DEF SetThreshold, registryVars, poolVars, settlementVars
  <2>2. ASSUME NEW c \in Confirmations, SetConfirmations(c) PROVE ContractsAgree'
    BY <2>2, OtherAgree DEF SetConfirmations, registryVars, poolVars, settlementVars
  <2> QED BY <1>3, <2>1, <2>2, EvaluationAgree, ResultAgree DEF OracleNext
<1>4. CASE SettlementNext
  <2>1. ASSUME NEW m \in MatchIds, Finalize(m) PROVE ContractsAgree'
    <3>1. pendingResults[m].winner \in Outcome
      BY <2>1 DEF Finalize, Finalizable, HasPending, TypeOK, SettlementTypeOK
    <3> QED BY <2>1, <3>1, CascadeAgree DEF Finalize
  <2>2. ASSUME NEW m \in MatchIds, NEW who \in Accounts, NEW outcome \in DisputeOutcome,
               ResolveDispute(m, who, outcome)
        PROVE  ContractsAgree'
    <3>1. FinalWinner(m, outcome) \in Outcome
      BY <2>2, SettlementTyped DEF ResolveDispute, TypeOK
    <3> QED BY <2>2, <3>1, CascadeAgree DEF ResolveDispute
  <2>3. ASSUME NEW who \in Accounts, NEW w \in Windows, SetChallengeWindow(who, w)
        PROVE  ContractsAgree'
    BY <2>3, OtherAgree
    DEF SetChallengeWindow, set_challenge_window, registryVars, poolVars
  <2>4. ASSUME NEW who \in Accounts, NEW new \in Accounts, SetArbiter(who, new)
        PROVE  ContractsAgree'
    BY <2>4, OtherAgree DEF SetArbiter, set_arbiter, registryVars, poolVars
  <2>5. ASSUME PassTime PROVE ContractsAgree'
    BY <2>5, OtherAgree DEF PassTime, Tick, registryVars, poolVars
  <2> QED BY <1>4, <2>1, <2>2, <2>3, <2>4, <2>5, DisputeAgree DEF SettlementNext
<1>5. CASE UNCHANGED vars
  BY <1>5, OtherAgree DEF vars
<1> QED BY <1>1, <1>2, <1>3, <1>4, <1>5 DEF Next

\* The five contracts agree about every match in every reachable state: no
\* order of entry-point calls leaves the vault, the market or a parked result
\* out of step with the match.
THEOREM ContractsAlwaysAgree == Spec => []ContractsAgree
<1>1. Init => TypeOK /\ ContractsAgree
  BY InitTypeOK, InitAgree
<1>2. TypeOK /\ ContractsAgree /\ [Next]_vars => (TypeOK /\ ContractsAgree)'
  BY NextTyped, NextAgree
<1> QED BY <1>1, <1>2, PTL DEF Spec
-----------------------------------------------------------------------------
(* What a step may never do *)

IInv == TypeOK /\ ContractsAgree

\* So they always agree.
LEMMA IInvAlways == Spec => []IInv
  BY TypeCorrect, ContractsAlwaysAgree, PTL DEF IInv
-----------------------------------------------------------------------------
\* What the books of each say decides the window,
LEMMA DecidesFromAgreement == IInv => WindowDecides
<1> SUFFICES ASSUME IInv, NEW m \in MatchIds,
                    matches[m].state = "PendingFinalization"
             PROVE  /\ ~(Disputable(m) /\ Finalizable(m))
                    /\ Disputable(m) \/ Finalizable(m) \/ DeadlineOverflows
  BY DEF WindowDecides
<1>1. HasPending(m)
  BY DEF IInv, ContractsAgree, Agree, ResultAgrees, Decided
<1>2. pendingResults[m].age \in Int /\ challenge_window \in Int
  BY WindowAssumption DEF IInv, TypeOK, SettlementTypeOK
<1> QED BY <1>1, <1>2 DEF Disputable, Finalizable, WindowOpen, WindowElapsed

\* A pending result can be disputed or finalized, never both; and always one,
\* unless the arbiter's window overflows the deadline.
THEOREM WindowAlwaysDecides == Spec => []WindowDecides
  BY IInvAlways, DecidesFromAgreement, PTL

\* Once a result is in, none of the checks made by the contracts that the
\* cascade calls can fail, whichever verdict is given.
ChecksPass ==
  \A m \in MatchIds, winner \in Outcome : Decided(m) => CascadeChecks(m, winner)

\* and lets every check of the cascade pass.
LEMMA ChecksFromAgreement == IInv => ChecksPass
<1> SUFFICES ASSUME IInv, NEW m \in MatchIds, NEW winner \in Outcome, Decided(m)
             PROVE  CascadeChecks(m, winner)
  BY DEF ChecksPass
<1>1. /\ TypeOK /\ VaultAgrees(m) /\ MarketAgrees(m) /\ SeatsAgree(m)
      /\ Exists(m) /\ Played(m) /\ ~Closed(m) /\ matches[m].state # "Completed"
  BY DEF IInv, ContractsAgree, Agree, Decided, Exists, Played, Closed
<1>2. /\ matches[m] \in Match /\ records[m] \in DepositRecord
      /\ FeeFlywheel(Volume(m)) \in Nat /\ Volume(m) \in Nat
  BY <1>1, VolumeTyped, MatchTyped
<1> DEFINE bet == matches[m].bet_amount
           fly == FeeFlywheel(Volume(m))
<1>3. /\ CanSettle(m) /\ CanComplete(m) /\ matches[m].player_b # NoAddress
      /\ Recorded(records[m]) /\ ~records[m].released
      /\ records[m].total_locked = 2 * bet
      /\ bet \in Nat /\ bet > 0
  BY <1>1, <1>2, MinBetAssumption
  DEF VaultAgrees, MarketAgrees, SeatsAgree, CanSettle, CanComplete, Decided, Match
<1>4. /\ Recorded(Bonused(m)) /\ ~Bonused(m).released
      /\ Bonused(m).total_locked = 2 * bet + fly
  <2>1. CASE fly > 0
    BY <1>2, <1>3, <2>1 DEF Bonused, AfterBonus, Recorded, DepositRecord
  <2>2. CASE fly = 0
    BY <1>2, <1>3, <2>2 DEF Bonused
  <2> QED BY <1>2, <2>1, <2>2
<1>5. /\ Prize(m) \in Nat /\ Prize(m) > 0 /\ Prize(m) <= 2 * bet + fly
  <2>1. /\ PlayerPrize(bet, Volume(m)) \in Nat
        /\ PlayerPrize(bet, Volume(m)) <= PlayerPool(bet, Volume(m))
        /\ PlayerPrize(bet, Volume(m)) > 0
    BY <1>2, <1>3, PrizeBounds
  <2>2. PlayerPool(bet, Volume(m)) = 2 * bet + fly
    BY <1>2, <1>3 DEF PlayerPool
  <2> QED BY <2>1, <2>2 DEF Prize
<1>6. fly > 0 => CanAddBonus(records[m], fly)
  BY <1>3 DEF CanAddBonus
<1>7. CanReleaseDraw(Bonused(m)) /\ CanRelease(Bonused(m), Prize(m))
  BY <1>4, <1>5 DEF CanReleaseDraw, CanRelease
<1> QED BY <1>3, <1>6, <1>7 DEF CascadeChecks

\* No check of a callee ever freezes a match whose result is in.
THEOREM ChecksAlwaysPass == Spec => []ChecksPass
  BY IInvAlways, ChecksFromAgreement, PTL
-----------------------------------------------------------------------------
(* What each kind of step does to the vault: its books and its balance *)

\* The vault is not touched.
Untouched == records' = records /\ balance'[EscrowAddr] = balance[EscrowAddr]

\* The books of one match change, and the balance with them.
Touches(m) ==
  /\ \A n \in MatchIds \ {m} : records'[n] = records[n]
  /\ balance'[EscrowAddr] - balance[EscrowAddr] = Outstanding(m)' - Outstanding(m)

\* A transfer that neither leaves nor reaches the vault.
LEMMA TransferElsewhere ==
  ASSUME TypeOK, NEW from \in Holders \ {EscrowAddr}, NEW to \in Holders \ {EscrowAddr},
         from # to, NEW amount \in Nat, transfer(from, to, amount)
  PROVE  balance'[EscrowAddr] = balance[EscrowAddr]
  BY DEF transfer, Moved, TypeOK, Holders

\* Creating a match touches it alone, and puts in the books what is paid in.
LEMMA CreateTouches ==
  ASSUME IInv, NEW a \in Accounts, NEW bet \in BetAmounts,
         NEW tc \in TimeControls, CreateMatch(a, bet, tc)
  PROVE  \E m \in MatchIds : Touches(m) /\ Outstanding(m)' >= Outstanding(m)
<1>1. bet \in Nat /\ bet > 0 /\ balance \in [Holders -> Nat] /\ TypeOK
  BY BetAssumption, MinBetAssumption DEF CreateMatch, create_match, IInv, TypeOK
<1>2. PICK m \in MatchIds : m = matchCounter + 1
  BY MatchAssumption DEF CreateMatch, create_match, IInv, TypeOK, RegistryTypeOK, MatchIds
<1>3. records' = [records EXCEPT ![m] = AfterDeposit(records[m], a, bet)]
  BY <1>2 DEF CreateMatch, record_deposit
<1>4. ~Exists(m)
  BY <1>2 DEF IInv, TypeOK, RegistryTypeOK, ContractsAgree, Agree, SeatsAgree
<1>5. /\ ~Recorded(records[m]) /\ ~records[m].released
      /\ records[m].total_locked = 0
  BY <1>4 DEF IInv, ContractsAgree, Agree, VaultAgrees, Exists, Closed
<1>6. records'[m].total_locked = bet /\ ~records'[m].released
  <2>1. RecordFor(records[m], a, bet) =
          [player_a |-> a, player_b |-> NoAddress, amount_each |-> bet,
           bonus |-> 0, total_locked |-> 0, released |-> FALSE]
    BY <1>5 DEF RecordFor, NoRecord
  <2>2. records'[m] = AfterDeposit(records[m], a, bet)
    BY <1>1, <1>3 DEF TypeOK, EscrowTypeOK
  <2> QED BY <1>1, <2>1, <2>2 DEF AfterDeposit
<1>7. Outstanding(m) = 0 /\ Outstanding(m)' = bet
  BY <1>5, <1>6 DEF Outstanding
<1>8. balance'[EscrowAddr] = balance[EscrowAddr] + bet
  BY <1>1, AddressAssumption DEF CreateMatch, transfer, Moved, Holders
<1>9. \A n \in MatchIds \ {m} : records'[n] = records[n]
  BY <1>1, <1>3 DEF TypeOK, EscrowTypeOK
<1> QED BY <1>1, <1>7, <1>8, <1>9 DEF Touches, Holders

\* So does joining,
LEMMA JoinTouches ==
  ASSUME IInv, NEW m \in MatchIds, NEW b \in Accounts, JoinMatch(m, b)
  PROVE  Touches(m) /\ Outstanding(m)' >= Outstanding(m)
<1> DEFINE bet == matches[m].bet_amount
<1>1. /\ TypeOK /\ balance \in [Holders -> Nat] /\ Agree(m)
      /\ matches[m].state = "Open" /\ Exists(m)
      /\ records' = [records EXCEPT ![m] = AfterDeposit(records[m], b, bet)]
  BY DEF IInv, TypeOK, ContractsAgree, JoinMatch, join_match, record_deposit, Exists
<1>2. matches[m] \in Match /\ records[m] \in DepositRecord /\ bet \in Nat
  BY <1>1, MatchTyped DEF Match
<1>3. /\ Recorded(records[m]) /\ ~records[m].released
      /\ records[m].total_locked = bet
  BY <1>1 DEF Agree, VaultAgrees, Closed
<1>4. records'[m].total_locked = 2 * bet /\ ~records'[m].released
  <2>1. RecordFor(records[m], b, bet) = records[m]
    BY <1>3 DEF RecordFor
  <2>2. records'[m] = AfterDeposit(records[m], b, bet)
    BY <1>1 DEF TypeOK, EscrowTypeOK
  <2> QED BY <1>2, <1>3, <2>1, <2>2 DEF AfterDeposit, DepositRecord
<1>5. Outstanding(m) = bet /\ Outstanding(m)' = 2 * bet
  BY <1>3, <1>4, <1>1, <1>2 DEF Outstanding
<1>6. balance'[EscrowAddr] = balance[EscrowAddr] + bet
  BY <1>1, <1>2, AddressAssumption DEF JoinMatch, transfer, Moved, Holders
<1>7. \A n \in MatchIds \ {m} : records'[n] = records[n]
  BY <1>1 DEF TypeOK, EscrowTypeOK
<1> QED BY <1>1, <1>2, <1>5, <1>6, <1>7 DEF Touches, Holders

\* cancelling,
LEMMA CancelTouches ==
  ASSUME IInv, NEW m \in MatchIds, NEW a \in Accounts, CancelMatch(m, a)
  PROVE  Touches(m)
<1> DEFINE bet == matches[m].bet_amount
<1>1. /\ TypeOK /\ balance \in [Holders -> Nat] /\ Agree(m)
      /\ matches[m].state = "Open" /\ Exists(m)
      /\ records' = [records EXCEPT ![m] = AfterRefund(records[m], bet)]
  BY DEF IInv, TypeOK, ContractsAgree, CancelMatch, cancel_match, refund, Exists
<1>2. matches[m] \in Match /\ records[m] \in DepositRecord /\ bet \in Nat
  BY <1>1, MatchTyped DEF Match
<1>3. ~records[m].released /\ records[m].total_locked = bet
  BY <1>1 DEF Agree, VaultAgrees, Closed
<1>4. records'[m].released
  BY <1>1, <1>2 DEF AfterRefund, TypeOK, EscrowTypeOK, DepositRecord
<1>5. Outstanding(m) = bet /\ Outstanding(m)' = 0
  BY <1>3, <1>4 DEF Outstanding
<1>6. balance'[EscrowAddr] = balance[EscrowAddr] - bet
  BY <1>1, <1>2, AddressAssumption DEF CancelMatch, transfer, Moved, Holders
<1>7. \A n \in MatchIds \ {m} : records'[n] = records[n]
  BY <1>1 DEF TypeOK, EscrowTypeOK
<1> QED BY <1>1, <1>2, <1>5, <1>6, <1>7 DEF Touches, Holders

\* and the cascade.
LEMMA CascadeTouches ==
  ASSUME IInv, NEW m \in MatchIds, NEW winner \in Outcome, Cascade(m, winner)
  PROVE  Touches(m)
<1> DEFINE fly == FeeFlywheel(Volume(m))
<1>1. /\ TypeOK /\ Agree(m) /\ CanCascade(m, winner) /\ Decided(m)
      /\ records' = [records EXCEPT ![m] = AfterRelease(Bonused(m))]
      /\ balance' = PlayersPaid(m, winner)
  BY DEF IInv, ContractsAgree, Cascade, complete_match, CanComplete, Decided
<1>2. /\ records[m] \in DepositRecord /\ fly \in Nat /\ Bonused(m) \in DepositRecord
      /\ balance[EscrowAddr] \in Nat
  BY <1>1, MatchTyped, VolumeTyped DEF TypeOK, Holders
<1>3. /\ ~records[m].released /\ records[m].bonus = 0
      /\ records[m].player_b # NoAddress
      /\ records[m].total_locked = 2 * records[m].amount_each
      /\ records[m].amount_each \in Nat
  BY <1>1, <1>2
  DEF Agree, VaultAgrees, SeatsAgree, Closed, Played, Decided, DepositRecord
<1>4. VaultOutflow(m, winner) = 2 * records[m].amount_each + fly
  <2>1. CASE winner = "Draw"
    BY <1>2, <1>3, <2>1 DEF VaultOutflow, DrawPayout
  <2>2. CASE winner # "Draw"
    <3>1. VaultOutflow(m, winner) = Bonused(m).total_locked
      BY <2>2 DEF VaultOutflow
    <3>2. CASE fly > 0
      BY <1>2, <1>3, <3>1, <3>2 DEF Bonused, AfterBonus, DepositRecord
    <3>3. CASE fly = 0
      BY <1>2, <1>3, <3>1, <3>3 DEF Bonused
    <3> QED BY <1>2, <3>2, <3>3
  <2> QED BY <2>1, <2>2
<1>5. balance'[EscrowAddr] = balance[EscrowAddr] + fly - VaultOutflow(m, winner)
  BY <1>1, PlayersPay
<1>6. records'[m].released
  BY <1>1, <1>2 DEF AfterRelease, TypeOK, EscrowTypeOK, DepositRecord
<1>7. Outstanding(m) = 2 * records[m].amount_each /\ Outstanding(m)' = 0
  BY <1>3, <1>6 DEF Outstanding
<1>8. \A n \in MatchIds \ {m} : records'[n] = records[n]
  BY <1>1 DEF TypeOK, EscrowTypeOK
<1> QED BY <1>2, <1>3, <1>4, <1>5, <1>7, <1>8 DEF Touches

\* Why the vault may owe a match less after a step.
Verdict(m) ==
  \/ matches[m].state = "Open" /\ matches'[m].state = "Cancelled"
  \/ /\ matches[m].state = "PendingFinalization"
     /\ WindowElapsed(m)
     /\ markets'[m].result = pendingResults[m].winner
  \/ matches[m].state = "Disputed" /\ matches'[m].state = "Completed"

\* Every step touches one match, and takes out of the books only by a verdict.
LEMMA StepTouches ==
  ASSUME IInv, [Next]_vars
  PROVE  \/ Untouched
         \/ \E m \in MatchIds :
              Touches(m) /\ (Outstanding(m)' >= Outstanding(m) \/ Verdict(m))
<1>1. ASSUME NEW m \in MatchIds, NEW a \in Accounts, CancelMatch(m, a)
      PROVE  Touches(m) /\ Verdict(m)
  <2>1. matches[m] \in Match
    BY <1>1, MatchTyped DEF CancelMatch, cancel_match, Exists, IInv
  <2>2. matches[m].state = "Open" /\ matches'[m].state = "Cancelled"
    BY <1>1, <2>1
    DEF CancelMatch, cancel_match, Enter, IInv, TypeOK, RegistryTypeOK, Match
  <2> QED BY <1>1, <2>2, CancelTouches DEF Verdict
<1>2. CASE RegistryNext
  BY <1>1, <1>2, CreateTouches, JoinTouches DEF RegistryNext
<1>3. CASE PoolNext
  <2>1. \A t \in Accounts : t \in Holders \ {EscrowAddr}
    BY AddressAssumption DEF Holders
  <2>2. PoolAddr \in Holders \ {EscrowAddr} /\ \A t \in Accounts : t # PoolAddr
    BY AddressAssumption DEF Holders
  <2>3. ASSUME NEW m \in MatchIds, NEW t \in Accounts, NEW o \in Outcome,
               NEW amount \in TradeAmounts, BuyOutcome(m, t, o, amount)
        PROVE  Untouched
    <3>1. amount \in Nat
      BY <2>3, PoolTyped DEF BuyOutcome, IInv, TypeOK
    <3>2. transfer(t, PoolAddr, amount) /\ records' = records
      BY <2>3 DEF BuyOutcome
    <3> QED BY <2>1, <2>2, <3>1, <3>2, TransferElsewhere DEF Untouched, IInv
  <2>4. ASSUME NEW m \in MatchIds, NEW t \in Accounts, NEW o \in Outcome,
               PayTrader(m, t, o)
        PROVE  Untouched
    <3>1. Payout(m, t, o) \in Nat
      BY <2>4, PoolTyped DEF PayTrader, IInv, TypeOK
    <3>2. transfer(PoolAddr, t, Payout(m, t, o)) /\ records' = records
      BY <2>4 DEF PayTrader
    <3> QED BY <2>1, <2>2, <3>1, <3>2, TransferElsewhere DEF Untouched, IInv
  <2> QED BY <1>3, <2>3, <2>4 DEF PoolNext
<1>4. CASE OracleNext
  BY <1>4 DEF OracleNext, PostEvaluation, PostResult, SetThreshold, SetConfirmations,
     Untouched
<1>5. CASE SettlementNext
  <2>1. ASSUME NEW m \in MatchIds, NEW winner \in Outcome, Cascade(m, winner)
        PROVE  matches'[m].state = "Completed" /\ markets'[m].result = winner
    <3>1. matches[m] \in Match /\ markets[m] \in Market
      BY <2>1, MatchTyped DEF Cascade, complete_match, CanComplete, Exists, IInv
    <3> QED
      BY <2>1, <3>1
      DEF Cascade, complete_match, Enter, settle, IInv, TypeOK, RegistryTypeOK,
          PoolTypeOK, Match, Market
  <2>2. ASSUME NEW m \in MatchIds, Finalize(m) PROVE Touches(m) /\ Verdict(m)
    <3>1. pendingResults[m].winner \in Outcome
      BY <2>2 DEF Finalize, Finalizable, HasPending, IInv, TypeOK, SettlementTypeOK
    <3> QED BY <2>1, <2>2, <3>1, CascadeTouches DEF Finalize, Finalizable, Verdict
  <2>3. ASSUME NEW m \in MatchIds, NEW who \in Accounts, NEW outcome \in DisputeOutcome,
               ResolveDispute(m, who, outcome)
        PROVE  Touches(m) /\ Verdict(m)
    <3>1. FinalWinner(m, outcome) \in Outcome
      BY <2>3, SettlementTyped DEF ResolveDispute, IInv, TypeOK
    <3> QED BY <2>1, <2>3, <3>1, CascadeTouches DEF ResolveDispute, Verdict
  <2>4. ASSUME \/ \E m \in MatchIds, who \in Accounts : OpenDispute(m, who)
               \/ \E who \in Accounts, w \in Windows : SetChallengeWindow(who, w)
               \/ \E who, new \in Accounts : SetArbiter(who, new)
               \/ PassTime
        PROVE  Untouched
    BY <2>4 DEF OpenDispute, SetChallengeWindow, SetArbiter, PassTime, Untouched
  <2> QED BY <1>5, <2>2, <2>3, <2>4 DEF SettlementNext
<1>6. CASE UNCHANGED vars
  BY <1>6 DEF vars, Untouched
<1> QED BY <1>2, <1>3, <1>4, <1>5, <1>6 DEF Next
-----------------------------------------------------------------------------
\* The vault's balance moves with the books.
LEMMA StepMovesWithBooks == IInv /\ [Next]_vars => MovesWithBooks
<1> SUFFICES ASSUME IInv, [Next]_vars PROVE MovesWithBooks
  OBVIOUS
<1>1. CASE Untouched
  <2>1. 1 \in MatchIds
    BY MatchAssumption DEF MatchIds
  <2>2. balance[EscrowAddr] \in Int /\ \A m \in MatchIds : Outstanding(m) \in Int
    BY DEF IInv, TypeOK, EscrowTypeOK, DepositRecord, Outstanding, Holders
  <2>3. \A m \in MatchIds : Outstanding(m)' = Outstanding(m)
    BY <1>1 DEF Untouched, Outstanding
  <2>4. balance'[EscrowAddr] - balance[EscrowAddr] = Outstanding(1)' - Outstanding(1)
    BY <1>1, <2>1, <2>2, <2>3 DEF Untouched
  <2>5. \A n \in MatchIds : records'[n] = records[n]
    BY <1>1 DEF Untouched
  <2> QED BY <2>1, <2>4, <2>5 DEF MovesWithBooks
<1>2. CASE \E m \in MatchIds : Touches(m)
  BY <1>2 DEF Touches, MovesWithBooks
<1> QED BY <1>1, <1>2, StepTouches

\* The vault's token account and its books move together, one match at a
\* time: no step pays one match out of another one's stakes.
THEOREM VaultAlwaysMovesWithBooks == Spec => VaultMovesWithBooks
<1>1. IInv /\ [Next]_vars => [MovesWithBooks]_vars
  BY StepMovesWithBooks
<1> QED BY <1>1, IInvAlways, PTL DEF Spec, VaultMovesWithBooks

\* What leaves the books leaves by a verdict.
LEMMA StepReleases == IInv /\ [Next]_vars => ReleasesByVerdict
<1> SUFFICES ASSUME IInv, [Next]_vars, NEW m \in MatchIds,
                    Outstanding(m)' < Outstanding(m)
             PROVE  Verdict(m)
  BY DEF ReleasesByVerdict, Verdict
<1>1. Outstanding(m) \in Int /\ Outstanding(m)' \in Int
  BY NextTyped DEF IInv, TypeOK, EscrowTypeOK, DepositRecord, Outstanding
<1>2. ~(records'[m] = records[m])
  BY <1>1 DEF Outstanding
<1>3. ~Untouched
  BY <1>2 DEF Untouched
<1>4. PICK n \in MatchIds :
        Touches(n) /\ (Outstanding(n)' >= Outstanding(n) \/ Verdict(n))
  BY <1>3, StepTouches
<1>5. n = m
  BY <1>2, <1>4 DEF Touches
<1> QED BY <1>1, <1>4, <1>5

\* Stakes leave the vault by a withdrawal of an Open match, by the submitted
\* result once its window is over, or by the arbiter's verdict on a dispute.
THEOREM StakesAlwaysReleasedByVerdict == Spec => StakesReleasedByVerdict
<1>1. IInv /\ [Next]_vars => [ReleasesByVerdict]_vars
  BY StepReleases
<1> QED BY <1>1, IInvAlways, PTL DEF Spec, StakesReleasedByVerdict
-----------------------------------------------------------------------------
\* What a step leaves alone: the market, or the records of a closed match.
MarketKept(m) ==
  /\ markets[m].locked => markets'[m].locked
  /\ markets[m].locked \/ markets[m].settled =>
       /\ markets'[m].pool = markets[m].pool
       /\ markets'[m].total_volume = markets[m].total_volume
  /\ markets[m].settled =>
       markets'[m].settled /\ markets'[m].result = markets[m].result

\* A market never reopens nor shrinks.
LEMMA StepKeepsMarket ==
  ASSUME IInv, [Next]_vars, NEW m \in MatchIds
  PROVE  MarketKept(m)
<1>0. /\ markets \in [MatchIds -> Market] /\ markets[m] \in Market /\ MarketAgrees(m)
  BY DEF IInv, TypeOK, PoolTypeOK, ContractsAgree, Agree
<1>1. ASSUME markets'[m] = markets[m] PROVE MarketKept(m)
  BY <1>1 DEF MarketKept
<1>2. ASSUME NEW k \in MatchIds, NEW b \in Accounts, JoinMatch(k, b)
      PROVE  MarketKept(m)
  <2>1. CASE k = m
    BY <1>0, <1>2, <2>1
    DEF JoinMatch, join_match, open_market, MarketAgrees, MarketKept
  <2>2. CASE k # m
    BY <1>0, <1>1, <1>2, <2>2 DEF JoinMatch, open_market
  <2> QED BY <2>1, <2>2
<1>3. ASSUME NEW k \in MatchIds, NEW t \in Accounts, NEW o \in Outcome,
             NEW amount \in TradeAmounts, BuyOutcome(k, t, o, amount)
      PROVE  MarketKept(m)
  <2>1. CASE k = m
    BY <1>3, <2>1 DEF BuyOutcome, buy_outcome, MarketKept
  <2>2. CASE k # m
    BY <1>0, <1>1, <1>3, <2>2 DEF BuyOutcome, buy_outcome
  <2> QED BY <2>1, <2>2
<1>4. ASSUME NEW k \in MatchIds, lock_market(k)
      PROVE  MarketKept(m)
  <2>1. CASE k = m
    BY <1>0, <1>4, <2>1 DEF lock_market, MarketKept, Market
  <2>2. CASE k # m
    BY <1>0, <1>1, <1>4, <2>2 DEF lock_market
  <2> QED BY <2>1, <2>2
<1>5. ASSUME NEW k \in MatchIds, NEW winner, settle(k, winner)
      PROVE  MarketKept(m)
  <2>1. CASE k = m
    BY <1>0, <1>5, <2>1 DEF settle, CanSettle, MarketKept, Market
  <2>2. CASE k # m
    BY <1>0, <1>1, <1>5, <2>2 DEF settle
  <2> QED BY <2>1, <2>2
<1>6. CASE RegistryNext
  BY <1>1, <1>2, <1>6 DEF RegistryNext, CreateMatch, CancelMatch, poolVars
<1>7. CASE PoolNext
  BY <1>1, <1>3, <1>7 DEF PoolNext, PayTrader, pay_trader
<1>8. CASE OracleNext
  BY <1>1, <1>4, <1>8
  DEF OracleNext, PostEvaluation, PostResult, SetThreshold, SetConfirmations, poolVars
<1>9. CASE SettlementNext
  BY <1>1, <1>5, <1>9
  DEF SettlementNext, Finalize, ResolveDispute, Cascade, OpenDispute,
      SetChallengeWindow, SetArbiter, PassTime, poolVars
<1>10. CASE UNCHANGED vars
  BY <1>1, <1>10 DEF vars
<1> QED BY <1>6, <1>7, <1>8, <1>9, <1>10 DEF Next

\* A closed match stays as it is.
LEMMA StepKeepsClosed ==
  ASSUME IInv, [Next]_vars, NEW m \in MatchIds, Closed(m)
  PROVE  matches'[m] = matches[m] /\ records'[m] = records[m]
<1>0. /\ matches \in [MatchIds -> Match \cup {NoMatch}]
      /\ records \in [MatchIds -> DepositRecord]
      /\ matches[m].state \in {"Completed", "Cancelled"} /\ Exists(m)
      /\ m <= matchCounter /\ matchCounter \in Nat
  BY DEF IInv, TypeOK, RegistryTypeOK, EscrowTypeOK, Closed, ContractsAgree, Agree,
         SeatsAgree, Exists
<1>1. ASSUME NEW k \in MatchIds,
             matches[k].state \notin {"Completed", "Cancelled"},
             \A n \in MatchIds \ {k} : matches'[n] = matches[n] /\ records'[n] = records[n]
      PROVE  matches'[m] = matches[m] /\ records'[m] = records[m]
  BY <1>0, <1>1
<1>2. CASE RegistryNext
  <2>1. ASSUME NEW a \in Accounts, NEW bet \in BetAmounts, NEW tc \in TimeControls,
               CreateMatch(a, bet, tc)
        PROVE  matches'[m] = matches[m] /\ records'[m] = records[m]
    BY <1>0, <2>1 DEF CreateMatch, create_match, record_deposit, MatchIds
  <2>2. ASSUME NEW k \in MatchIds, NEW b \in Accounts, JoinMatch(k, b)
        PROVE  matches'[m] = matches[m] /\ records'[m] = records[m]
    BY <1>0, <1>1, <2>2 DEF JoinMatch, join_match, record_deposit
  <2>3. ASSUME NEW k \in MatchIds, NEW a \in Accounts, CancelMatch(k, a)
        PROVE  matches'[m] = matches[m] /\ records'[m] = records[m]
    BY <1>0, <1>1, <2>3 DEF CancelMatch, cancel_match, Enter, refund
  <2> QED BY <1>2, <2>1, <2>2, <2>3 DEF RegistryNext
<1>3. CASE PoolNext
  BY <1>3 DEF PoolNext, BuyOutcome, PayTrader, registryVars
<1>4. CASE OracleNext
  <2>1. ASSUME NEW k \in MatchIds, NEW winner \in Outcome, PostResult(k, winner)
        PROVE  matches'[m] = matches[m] /\ records'[m] = records[m]
    BY <1>0, <1>1, <2>1 DEF PostResult, set_pending_finalization, Enter
  <2> QED BY <1>4, <2>1
          DEF OracleNext, PostEvaluation, SetThreshold, SetConfirmations, registryVars
<1>5. CASE SettlementNext
  <2>1. ASSUME NEW k \in MatchIds, NEW winner, Cascade(k, winner)
        PROVE  matches'[m] = matches[m] /\ records'[m] = records[m]
    BY <1>0, <1>1, <2>1 DEF Cascade, complete_match, CanComplete, Enter
  <2>2. ASSUME NEW k \in MatchIds, NEW who \in Accounts, OpenDispute(k, who)
        PROVE  matches'[m] = matches[m] /\ records'[m] = records[m]
    BY <1>0, <1>1, <2>2 DEF OpenDispute, set_disputed, Enter
  <2> QED BY <1>5, <2>1, <2>2
          DEF SettlementNext, Finalize, ResolveDispute, SetChallengeWindow, SetArbiter,
              PassTime, registryVars
<1>6. CASE UNCHANGED vars
  BY <1>6 DEF vars
<1> QED BY <1>2, <1>3, <1>4, <1>5, <1>6 DEF Next

\* Nothing reopens: locked markets stay locked and take no bet, settled ones
\* keep their result, and a match that is over keeps its records.
THEOREM AlwaysOneWay == Spec => OneWay
<1>1. IInv /\ [Next]_vars => [NothingReopens]_vars
  BY StepKeepsMarket, StepKeepsClosed DEF NothingReopens, MarketKept
<1> QED BY <1>1, IInvAlways, PTL DEF Spec, OneWay
-----------------------------------------------------------------------------
(* The oracle locks a market exactly when its evaluations call for it *)

Evaluations == [score : Int, decisive : BOOLEAN, needed : Nat \ {0}]

\* The j-th evaluation is decisive for the side that is ahead.
Decisive(es, j, ahead) == es[j].decisive /\ (es[j].score > 0 <=> ahead)

\* So are the last k.
LastOnes(es, k, ahead) ==
  \A j \in (Len(es) - k + 1) .. Len(es) : Decisive(es, j, ahead)

Length(s) == IF s > 0 THEN s ELSE -s

\* What the signed counter knows of the evaluations: it counts the run that
\* they end with, all of it unless the counter is at its limit.
Counts(es, s) ==
  IF s = 0 THEN Len(es) = 0 \/ ~es[Len(es)].decisive
  ELSE /\ Length(s) <= Len(es)
       /\ LastOnes(es, Length(s), s > 0)
       /\ Length(s) < MaxStreak /\ Length(s) < Len(es) =>
            ~Decisive(es, Len(es) - Length(s), s > 0)

OracleInv ==
  /\ IInv
  /\ evaluations \in [MatchIds -> Seq(Evaluations)]
  /\ \A m \in MatchIds : Len(evaluations[m]) <= MaxEvaluations
  /\ confirmations \in Confirmations \cup {DEFAULT_LOCK_CONFIRMATIONS}
  /\ \A m \in MatchIds : Counts(evaluations[m], streak[m])
  /\ LockedExactlyWhenSustained

\* One more evaluation, and the counter still counts.
LEMMA AppendCounts ==
  ASSUME NEW es \in Seq(Evaluations), NEW e \in Evaluations, e.decisive = Crosses(e.score),
         NEW s \in -(MaxStreak + 1) .. MaxStreak, Counts(es, s)
  PROVE  Counts(Append(es, e), NextStreak(s, e.score))
<1> DEFINE n == Len(es)
           new == Append(es, e)
<1>1. /\ n \in Nat /\ Len(new) = n + 1 /\ new[n + 1] = e
      /\ \A j \in 1 .. n : new[j] = es[j]
      /\ MaxStreak \in Nat \ {0} /\ s \in Int /\ e.score \in Int
  BY OracleAssumption DEF Evaluations
<1> HIDE DEF new
<1>2. \A j \in 1 .. n, ahead \in BOOLEAN : Decisive(new, j, ahead) <=> Decisive(es, j, ahead)
  BY <1>1 DEF Decisive
<1>3. CASE ~Crosses(e.score)
  <2>1. NextStreak(s, e.score) = 0 /\ ~new[Len(new)].decisive
    BY <1>1, <1>3 DEF NextStreak
  <2> QED BY <2>1 DEF Counts, new
<1>4. ASSUME Crosses(e.score), NEW ahead \in BOOLEAN, ahead <=> e.score > 0,
             NEW k \in Nat, k <= n, LastOnes(es, k, ahead), NEW t \in Int, Length(t) = k + 1,
             ahead <=> t > 0, k + 1 < MaxStreak /\ k < n => ~Decisive(es, n - k, ahead)
      PROVE  Counts(new, t)
  <2>1. Decisive(new, n + 1, ahead)
    BY <1>1, <1>4 DEF Decisive
  <2>2. LastOnes(new, k + 1, ahead)
    BY <1>1, <1>2, <1>4, <2>1 DEF LastOnes
  <2>3. k < n => (Decisive(new, n - k, ahead) <=> Decisive(es, n - k, ahead))
    BY <1>1, <1>2, <1>4
  <2>4. t # 0 /\ (t > 0) = ahead
    BY <1>4 DEF Length
  <2>5. n + 1 - (k + 1) = n - k
    BY <1>1
  <2> QED BY <1>1, <1>4, <2>2, <2>3, <2>4, <2>5 DEF Counts
<1>5. CASE Crosses(e.score) /\ ((e.score > 0 /\ s > 0) \/ (~(e.score > 0) /\ s < 0))
  <2>0. PICK ahead, t : ahead \in BOOLEAN /\ (ahead <=> e.score > 0) /\ t = NextStreak(s, e.score)
    OBVIOUS
  <2>1. /\ Length(s) <= n /\ LastOnes(es, Length(s), ahead) /\ Length(s) \in Nat \ {0}
        /\ Length(s) < MaxStreak /\ Length(s) < n => ~Decisive(es, n - Length(s), ahead)
    BY <1>1, <1>5, <2>0 DEF Counts, Length
  <2>2. CASE s = MaxStreak \/ s = -(MaxStreak + 1)
    <3>1. t = s /\ LastOnes(es, Length(s) - 1, ahead)
      BY <1>1, <1>5, <2>0, <2>1, <2>2 DEF NextStreak, LastOnes
    <3>2. Decisive(new, n + 1, ahead)
      BY <1>1, <1>5, <2>0 DEF Decisive
    <3>3. LastOnes(new, Length(s), ahead)
      <4>1. ASSUME NEW j \in (n + 1 - Length(s) + 1) .. n PROVE Decisive(new, j, ahead)
        <5>1. j \in 1 .. n /\ j \in (n - (Length(s) - 1) + 1) .. n
          BY <1>1, <2>1
        <5> QED BY <1>2, <2>0, <3>1, <5>1 DEF LastOnes
      <4> QED BY <1>1, <2>1, <3>2, <4>1 DEF LastOnes
    <3>4. (s > 0) = ahead /\ s # 0 /\ ~(Length(s) < MaxStreak)
      BY <1>1, <1>5, <2>0, <2>2 DEF Length
    <3> QED BY <1>1, <2>0, <2>1, <3>1, <3>3, <3>4 DEF Counts, new
  <2>3. CASE s # MaxStreak /\ s # -(MaxStreak + 1)
    <3>1. Length(t) = Length(s) + 1 /\ (ahead <=> t > 0) /\ t \in Int
      BY <1>1, <1>5, <2>0, <2>3 DEF NextStreak, Length
    <3> QED BY <1>1, <1>4, <1>5, <2>0, <2>1, <3>1 DEF new
  <2> QED BY <2>2, <2>3
<1>6. CASE Crosses(e.score) /\ ~((e.score > 0 /\ s > 0) \/ (~(e.score > 0) /\ s < 0))
  <2>0. PICK ahead, t : ahead \in BOOLEAN /\ (ahead <=> e.score > 0) /\ t = NextStreak(s, e.score)
    OBVIOUS
  <2>1. t \in Int /\ ((t = 1 /\ ahead) \/ (t + 1 = 0 /\ ~ahead))
    BY <1>1, <1>6, <2>0 DEF NextStreak
  <2>2. Length(t) = 1 /\ (ahead <=> t > 0) /\ t \in Int
    <3>1. t = 1 => Length(t) = 1 /\ t > 0 /\ t \in Int
      BY DEF Length
    <3>2. t \in Int /\ t + 1 = 0 => Length(t) = 1 /\ ~(t > 0) /\ t \in Int
      BY DEF Length
    <3> HIDE DEF Length
    <3> QED BY <2>1, <3>1, <3>2
  <2>3. LastOnes(es, 0, ahead)
    BY <1>1 DEF LastOnes
  <2>4. 0 < n => ~Decisive(es, n, ahead)
    <3>1. CASE s = 0
      BY <1>1, <2>0, <3>1 DEF Counts, Decisive
    <3>2. CASE s # 0
      <4>1. /\ LastOnes(es, Length(s), s > 0) /\ Length(s) \in Nat \ {0} /\ Length(s) <= n
            /\ (s > 0) # ahead
        BY <1>1, <1>6, <2>0, <3>2 DEF Counts, Length
      <4>2. Decisive(es, n, s > 0)
        BY <1>1, <4>1 DEF LastOnes
      <4> QED BY <2>0, <4>1, <4>2 DEF Decisive
    <3> QED BY <3>1, <3>2
  <2> QED BY <1>1, <1>4, <1>6, <2>0, <2>2, <2>3, <2>4 DEF new
<1> QED BY <1>3, <1>5, <1>6 DEF new

\* While the counter counts, it reaches the confirmations when the run does.
LEMMA LocksAsCalled ==
  ASSUME NEW es \in Seq(Evaluations), NEW t \in Int, Counts(es, t),
         Len(es) > 0, Len(es) <= MaxEvaluations, EvaluationAssumption,
         es[Len(es)].needed \in Confirmations \cup {DEFAULT_LOCK_CONFIRMATIONS}
  PROVE  CallsForLock(es, Len(es)) <=>
           IsMate(es[Len(es)].score) \/ t >= es[Len(es)].needed \/ -t >= es[Len(es)].needed
<1> DEFINE n == Len(es)
           needed == es[n].needed
           k == Length(t)
<1>0. n \in Nat \ {0} /\ es[n] \in Evaluations
  OBVIOUS
<1>1. /\ n \in Nat \ {0} /\ es[n] \in Evaluations /\ needed \in Nat \ {0}
      /\ MaxStreak \in Nat \ {0} /\ MaxEvaluations \in Nat /\ k \in Nat
  BY <1>0, OracleAssumption, EvaluationAssumption DEF Evaluations, Length
<1>2. t >= needed \/ -t >= needed <=> k >= needed
  BY <1>1 DEF Length
<1>3. CASE t = 0
  <2>1. ~es[n].decisive /\ k < needed
    BY <1>1, <1>3 DEF Counts, Length
  <2>2. n \in (n - needed + 1) .. n
    BY <1>1
  <2> QED BY <1>1, <1>2, <2>1, <2>2 DEF CallsForLock
<1>4. CASE t # 0
  <2>0. k > 0 /\ k <= n
    BY <1>1, <1>4 DEF Counts, Length
  <2>1. \A j \in (n - k + 1) .. n : Decisive(es, j, t > 0)
    BY <1>4 DEF Counts, LastOnes
  <2>2. es[n].score > 0 <=> t > 0
    BY <1>1, <2>0, <2>1 DEF Decisive
  <2>3. CASE k >= needed
    <3>1. ASSUME NEW j \in (n - needed + 1) .. n
          PROVE  Decisive(es, j, t > 0)
      <4>1. PICK x \in Nat, y \in Nat, z \in Nat : x = n /\ y = needed /\ z = k
        BY <1>1
      <4>2. j \in (x - y + 1) .. x => j \in (x - z + 1) .. x
        BY SMTT(30), <2>3, <4>1
      <4> QED BY <2>1, <4>1, <4>2
    <3> QED BY <1>1, <1>2, <2>0, <2>2, <2>3, <3>1 DEF CallsForLock, Decisive
  <2>4. ASSUME k < needed, needed <= n,
               \A j \in (n - needed + 1) .. n : Decisive(es, j, t > 0)
        PROVE  FALSE
    <3>1. k < MaxStreak
      BY <1>1, <2>0, <2>4, StreakAssumption
    <3>2. ~Decisive(es, n - k, t > 0)
      BY <1>1, <1>4, <2>4, <3>1 DEF Counts
    <3> QED BY <1>1, <2>0, <2>4, <3>2
  <2> QED BY <1>1, <1>2, <2>2, <2>3, <2>4 DEF CallsForLock, Decisive
<1> QED BY <1>3, <1>4

\* What an evaluation called for does not change when another one is posted.
LEMMA EarlierCalls ==
  ASSUME NEW es \in Seq(Evaluations), NEW e \in Evaluations, NEW i \in 1 .. Len(es)
  PROVE  CallsForLock(Append(es, e), i) <=> CallsForLock(es, i)
<1>1. \A j \in 1 .. Len(es) : Append(es, e)[j] = es[j]
  OBVIOUS
<1>0. es[i] \in Evaluations
  OBVIOUS
<1>2. es[i].needed \in Nat \ {0} /\ Len(es) \in Nat
  BY <1>0 DEF Evaluations
<1>3. es[i].needed <= i => (i - es[i].needed + 1) .. i \subseteq 1 .. Len(es)
  BY <1>2
<1> HIDE DEF CallsForLock
<1> QED BY <1>1, <1>2, <1>3 DEF CallsForLock

-----------------------------------------------------------------------------
\* Nothing has been posted.
LEMMA InitOracle == HistoryInit => OracleInv
<1> SUFFICES ASSUME HistoryInit PROVE OracleInv
  OBVIOUS
<1>1. IInv
  BY InitTypeOK, InitAgree DEF HistoryInit, IInv
<1>2. /\ evaluations = [m \in MatchIds |-> <<>>]
      /\ confirmations = DEFAULT_LOCK_CONFIRMATIONS
      /\ \A m \in MatchIds : streak[m] = 0 /\ ~markets[m].locked
  BY DEF HistoryInit, Init, OracleInit, PoolInit, NoMarket
<1>3. /\ evaluations \in [MatchIds -> Seq(Evaluations)]
      /\ \A m \in MatchIds : evaluations[m] = <<>> /\ Len(evaluations[m]) = 0
  BY <1>2
<1>4. LockedExactlyWhenSustained
  BY <1>2, <1>3 DEF LockedExactlyWhenSustained
<1> QED BY <1>1, <1>2, <1>3, <1>4, EvaluationAssumption DEF OracleInv, Counts

\* A step of the system with its history is one of the system.
LEMMA HistoryStep == [HistoryNext]_historyVars => [Next]_vars
  BY DEF HistoryNext, historyVars, PostAndKeep, OtherSteps, Next, OracleNext

\* A posted evaluation is an evaluation.
LEMMA EvaluationTyped ==
  ASSUME OracleInv, NEW score \in Scores
  PROVE  Evaluation(score) \in Evaluations /\ Evaluation(score).decisive = Crosses(score)
<1>1. Crosses(score) \in BOOLEAN
  BY DEF Crosses
<1> QED BY <1>1, OracleAssumption
        DEF OracleInv, IInv, TypeOK, OracleTypeOK, Evaluation, Evaluations

\* The evaluation that is posted keeps the count, and locks the market if and
\* only if it calls for that.
LEMMA PostKeepsOracle ==
  ASSUME OracleInv, NEW m \in MatchIds, NEW score \in Scores,
         PostAndKeep(m, score)
  PROVE  OracleInv'
<1> DEFINE e == Evaluation(score)
           es == evaluations[m]
           new == Append(es, e)
<1>0. /\ e \in Evaluations /\ e.decisive = Crosses(e.score) /\ e.score = score
      /\ e.needed = confirmations
  BY EvaluationTyped DEF Evaluation
<1>1. IInv'
  BY NextTyped, NextAgree DEF OracleInv, IInv, PostAndKeep, Next, OracleNext
<1>2. /\ es \in Seq(Evaluations) /\ new \in Seq(Evaluations)
      /\ Len(new) = Len(es) + 1 /\ Len(es) \in Nat /\ Len(new) <= MaxEvaluations
      /\ new[Len(new)] = e
  BY <1>0, EvaluationAssumption DEF OracleInv, PostAndKeep
<1>3. /\ evaluations' \in [MatchIds -> Seq(Evaluations)] /\ evaluations'[m] = new
      /\ \A n \in MatchIds \ {m} : evaluations'[n] = evaluations[n]
  BY <1>2 DEF OracleInv, PostAndKeep
<1>4. /\ streak'[m] = NextStreak(streak[m], score) /\ confirmations' = confirmations
      /\ \A n \in MatchIds \ {m} : streak'[n] = streak[n]
      /\ streak \in [MatchIds -> -(MaxStreak + 1) .. MaxStreak] /\ streak'[m] \in Int
  BY <1>1, OracleAssumption
  DEF PostAndKeep, PostEvaluation, post_evaluation, OracleInv, IInv, TypeOK, OracleTypeOK
<1> HIDE DEF e, es, new
<1>5. Counts(new, streak'[m])
  BY <1>0, <1>2, <1>4, AppendCounts DEF OracleInv, es, new
<1>6. CallsForLock(new, Len(new)) <=> Locks(m, score)
  <2>1. CallsForLock(new, Len(new)) <=>
          IsMate(score) \/ streak'[m] >= confirmations \/ -streak'[m] >= confirmations
    BY <1>0, <1>2, <1>4, <1>5, LocksAsCalled, EvaluationAssumption DEF OracleInv
  <2> QED BY <1>4, <2>1 DEF Locks
<1>7. \A i \in 1 .. Len(es) : CallsForLock(new, i) <=> CallsForLock(es, i)
  BY <1>0, <1>2, EarlierCalls DEF new
<1>8. /\ DOMAIN new = 1 .. Len(es) + 1 /\ DOMAIN es = 1 .. Len(es)
  BY <1>2
<1>9. /\ markets'[m].locked <=> markets[m].locked \/ Locks(m, score)
      /\ \A n \in MatchIds \ {m} : markets'[n] = markets[n]
  BY DEF PostAndKeep, PostEvaluation, lock_market, poolVars, OracleInv, IInv, TypeOK,
         PoolTypeOK, Market
<1>10. ASSUME NEW n \in MatchIds
       PROVE  markets'[n].locked <=>
                \E i \in DOMAIN evaluations'[n] : CallsForLock(evaluations'[n], i)
  <2>1. CASE n # m
    BY <1>3, <1>9, <2>1 DEF OracleInv, LockedExactlyWhenSustained
  <2>2. CASE n = m
    <3>1. markets[m].locked <=> \E i \in 1 .. Len(es) : CallsForLock(es, i)
      BY <1>8 DEF OracleInv, LockedExactlyWhenSustained, es
    <3>2. (\E i \in 1 .. Len(es) + 1 : CallsForLock(new, i)) <=>
            (\E i \in 1 .. Len(es) : CallsForLock(new, i)) \/ CallsForLock(new, Len(es) + 1)
      BY <1>2
    <3> QED BY <1>2, <1>3, <1>6, <1>7, <1>8, <1>9, <2>2, <3>1, <3>2
  <2> QED BY <2>1, <2>2
<1>11. LockedExactlyWhenSustained'
  BY <1>10 DEF LockedExactlyWhenSustained
<1>12. \A n \in MatchIds : Len(evaluations'[n]) <= MaxEvaluations
                           /\ Counts(evaluations'[n], streak'[n])
  BY <1>2, <1>3, <1>4, <1>5 DEF OracleInv
<1> QED BY <1>1, <1>3, <1>4, <1>11, <1>12 DEF OracleInv

\* No other step locks a market or unlocks it; least of all opening it.
LEMMA OtherKeepsLock ==
  ASSUME IInv, OtherSteps, NEW n \in MatchIds
  PROVE  /\ markets'[n].locked <=> markets[n].locked
         /\ streak' = streak
         /\ confirmations' \in Confirmations \cup {confirmations}
<1>0. /\ markets \in [MatchIds -> Market]
      /\ \A k \in MatchIds : markets[k].locked => markets[k].opened
  BY DEF IInv, TypeOK, PoolTypeOK, ContractsAgree, Agree, MarketAgrees
<1>1. CASE RegistryNext
  <2>1. ASSUME NEW k \in MatchIds, open_market(k) PROVE markets'[n].locked <=> markets[n].locked
    BY <1>0, <2>1 DEF open_market, NoMarket
  <2> QED BY <1>1, <2>1
          DEF RegistryNext, CreateMatch, JoinMatch, CancelMatch, poolVars, oracleVars
<1>2. CASE PoolNext
  <2>1. ASSUME NEW k \in MatchIds, NEW t \in Accounts, NEW o \in Outcome, NEW amount \in TradeAmounts,
               buy_outcome(k, t, o, amount)
        PROVE  markets'[n].locked <=> markets[n].locked
    BY <1>0, <2>1 DEF buy_outcome
  <2> QED BY <1>2, <2>1 DEF PoolNext, BuyOutcome, PayTrader, pay_trader, oracleVars
<1>3. CASE SettlementNext
  <2>1. ASSUME NEW k \in MatchIds, NEW winner, Cascade(k, winner)
        PROVE  (markets'[n].locked <=> markets[n].locked) /\ UNCHANGED oracleVars
    BY <1>0, <2>1 DEF Cascade, settle
  <2> QED BY <1>3, <2>1
          DEF SettlementNext, Finalize, ResolveDispute, OpenDispute, SetChallengeWindow,
              SetArbiter, PassTime, poolVars, oracleVars
<1>4. CASE \/ \E m \in MatchIds, winner \in Outcome : PostResult(m, winner)
           \/ \E t \in Thresholds : SetThreshold(t)
           \/ \E c \in Confirmations : SetConfirmations(c)
  BY <1>4 DEF PostResult, SetThreshold, SetConfirmations, set_threshold, set_confirmations,
              poolVars, oracleVars
<1> QED BY <1>1, <1>2, <1>3, <1>4 DEF OtherSteps

\* The other contracts leave the streak alone.
LEMMA OtherKeepsOracle ==
  ASSUME OracleInv, OtherSteps, UNCHANGED evaluations
  PROVE  OracleInv'
<1>1. IInv'
  BY NextTyped, NextAgree DEF OracleInv, IInv, OtherSteps, Next, OracleNext
<1>2. /\ streak' = streak /\ confirmations' \in Confirmations \cup {confirmations}
      /\ \A n \in MatchIds : markets'[n].locked <=> markets[n].locked
  BY OtherKeepsLock, MatchAssumption DEF OracleInv, MatchIds
<1>3. LockedExactlyWhenSustained'
  BY <1>2 DEF OracleInv, LockedExactlyWhenSustained
<1> QED BY <1>1, <1>2, <1>3 DEF OracleInv

\* Every step keeps what the streak says of the evaluations.
LEMMA NextOracle ==
  ASSUME OracleInv, [HistoryNext]_historyVars
  PROVE  OracleInv'
<1>1. CASE UNCHANGED historyVars
  <2>1. IInv'
    BY <1>1, NextTyped, NextAgree DEF OracleInv, IInv, historyVars
  <2>2. UNCHANGED <<evaluations, streak, confirmations, markets>>
    BY <1>1 DEF historyVars, vars
  <2> QED BY <2>1, <2>2 DEF OracleInv, LockedExactlyWhenSustained
<1> QED BY <1>1, PostKeepsOracle, OtherKeepsOracle DEF HistoryNext

\* A market is locked exactly when an evaluation of it called for that: mate,
\* or the end of a long enough run of decisive ones on one side, by the
\* threshold and the confirmations of the time.
THEOREM LocksExactlyWhenSustained == HistorySpec => []LockedExactlyWhenSustained
<1>1. OracleInv => LockedExactlyWhenSustained
  BY DEF OracleInv
<1> QED BY <1>1, InitOracle, NextOracle, PTL DEF HistorySpec
-----------------------------------------------------------------------------
(* The vault *)

\* What the vault owes on each match.
Owing == [m \in MatchIds |-> Outstanding(m)]

VaultHolds == balance[EscrowAddr] = SumOf(Owing, MatchIds)

\* The vault's books can be added up.
LEMMA OwingTyped ==
  ASSUME TypeOK
  PROVE  Weights(Owing, MatchIds) /\ balance[EscrowAddr] \in Int
<1>1. IsFiniteSet(MatchIds)
  BY FS_Interval, MatchAssumption DEF MatchIds
<1> QED BY <1>1 DEF Owing, Weights, TypeOK, EscrowTypeOK, DepositRecord, Outstanding, Holders

\* The vault owes nothing.
LEMMA InitVault == Init => VaultHolds
<1> SUFFICES ASSUME Init PROVE VaultHolds
  OBVIOUS
<1>1. \A m \in MatchIds : Owing[m] = 0
  BY DEF Init, EscrowInit, NoRecord, Owing, Outstanding
<1>2. balance[EscrowAddr] = 0
  BY AddressAssumption DEF Init, Holders
<1>3. Weights(Owing, MatchIds)
  BY InitTypeOK, OwingTyped
<1> QED BY <1>1, <1>2, <1>3, SumOfZeros DEF VaultHolds

\* Every step changes one entry of the books, and the balance by as much.
LEMMA StepVault == IInv /\ VaultHolds /\ [Next]_vars => VaultHolds'
<1> SUFFICES ASSUME IInv, VaultHolds, [Next]_vars PROVE VaultHolds'
  OBVIOUS
<1>1. Weights(Owing, MatchIds) /\ balance[EscrowAddr] \in Int
  BY OwingTyped DEF IInv
<1>2. PICK new : new = Owing'
  OBVIOUS
<1>3. \A m \in MatchIds : new[m] = Outstanding(m)' /\ new[m] \in Int /\ Owing[m] = Outstanding(m)
  BY <1>2, NextTyped DEF Owing, IInv, TypeOK, EscrowTypeOK, DepositRecord, Outstanding
<1>3a. balance'[EscrowAddr] \in Int
  BY NextTyped DEF IInv, TypeOK, Holders
<1>4. balance'[EscrowAddr] = SumOf(new, MatchIds)
  <2>1. CASE Untouched
    <3>1. \A m \in MatchIds : new[m] = Owing[m]
      BY <1>3, <2>1 DEF Untouched, Outstanding
    <3> QED BY <1>1, <2>1, <3>1, SumSame DEF VaultHolds, Untouched
  <2>2. ASSUME NEW m \in MatchIds, Touches(m)
        PROVE  balance'[EscrowAddr] = SumOf(new, MatchIds)
    <3>1. \A n \in MatchIds \ {m} : new[n] = Owing[n]
      BY <1>3, <2>2 DEF Touches, Outstanding
    <3>2. SumOf(new, MatchIds) = SumOf(Owing, MatchIds) + new[m] - Owing[m]
      <4>1. ChangesAt(Owing, new, MatchIds, m)
        BY <1>3, <3>1 DEF ChangesAt
      <4> QED BY <1>1, <4>1, SumChanges
    <3>3. balance'[EscrowAddr] - balance[EscrowAddr] = new[m] - Owing[m]
      BY <1>3, <2>2 DEF Touches
    <3>4. Owing[m] \in Int /\ new[m] \in Int
      BY <1>1, <1>3 DEF Weights
    <3> QED BY <1>1, <1>3a, <3>2, <3>3, <3>4 DEF VaultHolds
  <2> QED BY <2>1, <2>2, StepTouches
<1> QED BY <1>2, <1>4 DEF VaultHolds

\* What the vault owes, in the property's own words.
LEMMA VaultSum ==
  ASSUME TypeOK
  PROVE  MapThenSumSet(Outstanding, MatchIds) = SumOf(Owing, MatchIds)
<1> DEFINE Sums(h) == h = [s \in SUBSET MatchIds |->
             IF s = {} THEN 0
             ELSE Outstanding(CHOOSE x \in s : TRUE) + h[s \ {CHOOSE x \in s : TRUE}]]
           sum == CHOOSE h : Sums(h)
<1>1. MapThenSumSet(Outstanding, MatchIds) = sum[MatchIds]
  BY DEF MapThenSumSet, MapThenFoldSet
<1>2. \A h : Sums(h) <=> Takes(h, Owing, MatchIds)
  BY DEF Takes, Owing
<1> HIDE DEF Sums
<1>3. Takes(sum, Owing, MatchIds)
  <2>1. \E h : Sums(h)
    BY <1>2, OwingTyped, TakesSum
  <2>2. Sums(sum)
    BY <2>1
  <2> QED BY <1>2, <2>2
<1> QED BY <1>1, <1>3, OwingTyped, TakesSum
-----------------------------------------------------------------------------
(* What a step does to the pool *)

\* A payment out of the vault to anybody but the pool leaves the pool alone.
LEMMA PaidApart ==
  ASSUME NEW bal, DOMAIN bal = Holders, NEW to \in Holders \ {PoolAddr}, NEW amount
  PROVE  /\ DOMAIN Moved(bal, EscrowAddr, to, amount) = Holders
         /\ Moved(bal, EscrowAddr, to, amount)[PoolAddr] = bal[PoolAddr]
<1>1. PoolAddr \in Holders /\ PoolAddr # EscrowAddr
  BY AddressAssumption DEF Holders
<1> QED BY <1>1 DEF Moved

\* The cascade takes from the pool its fees and what it sweeps.
LEMMA CascadePoolPays ==
  ASSUME IInv, NEW m \in MatchIds, NEW winner \in Outcome, Cascade(m, winner)
  PROVE  balance'[PoolAddr] = balance[PoolAddr] - PoolOutflow(m, winner)
<1> DEFINE r    == Bonused(m)
           paid == PoolPaid(m, winner)
<1>1. /\ TypeOK /\ CanCascade(m, winner) /\ CascadeChecks(m, winner)
      /\ CascadeFunded(m, winner) /\ balance' = PlayersPaid(m, winner)
  BY DEF IInv, Cascade, CanCascade
<1>2. matches[m] \in Match /\ r \in DepositRecord
  BY <1>1, VolumeTyped
  DEF CascadeChecks, CanComplete, TypeOK, RegistryTypeOK, NoMatch
<1>3. /\ DOMAIN paid = Holders
      /\ paid[PoolAddr] = balance[PoolAddr] - PoolOutflow(m, winner)
  BY <1>1, PoolPays DEF Covered
<1> HIDE DEF r, paid
<1>4. /\ \A a \in Accounts : a \in Holders \ {PoolAddr}
      /\ TreasuryAddr \in Holders \ {PoolAddr}
  BY AddressAssumption DEF Holders
<1>5. ASSUME NEW to \in Accounts,
             PlayersPaid(m, winner) =
               Moved(Moved(paid, EscrowAddr, to, Prize(m)),
                     EscrowAddr, TreasuryAddr, r.total_locked - Prize(m))
      PROVE  PlayersPaid(m, winner)[PoolAddr] = paid[PoolAddr]
  BY <1>3, <1>4, <1>5, PaidApart
<1>6. PlayersPaid(m, winner)[PoolAddr] = paid[PoolAddr]
  <2>1. CASE winner = "PlayerA"
    <3>1. matches[m].player_a \in Accounts
      BY <1>2 DEF Match
    <3> QED BY <1>5, <2>1, <3>1 DEF PlayersPaid, r, paid
  <2>2. CASE winner = "PlayerB"
    <3>1. matches[m].player_b \in Accounts
      BY <1>1, <1>2, <2>2 DEF Match, CascadeChecks
    <3> QED BY <1>5, <2>2, <3>1 DEF PlayersPaid, r, paid
  <2>3. CASE winner = "Draw"
    <3>1. r.player_a \in Accounts /\ r.player_b \in Accounts \cup {NoAddress}
      BY <1>1, <1>2, <2>3 DEF CascadeChecks, CanReleaseDraw, Recorded, DepositRecord, r
    <3> DEFINE toA == Moved(paid, EscrowAddr, r.player_a, r.amount_each)
               toB == IF r.player_b = NoAddress THEN toA
                      ELSE Moved(toA, EscrowAddr, r.player_b, r.amount_each)
    <3>2. PlayersPaid(m, winner) = Moved(toB, EscrowAddr, TreasuryAddr, r.bonus)
      BY <2>3 DEF PlayersPaid, r, paid
    <3>3. DOMAIN toA = Holders /\ toA[PoolAddr] = paid[PoolAddr]
      BY <1>3, <1>4, <3>1, PaidApart
    <3> HIDE DEF toA
    <3>4. DOMAIN toB = Holders /\ toB[PoolAddr] = paid[PoolAddr]
      BY <1>4, <3>1, <3>3, PaidApart
    <3> HIDE DEF toB
    <3> QED BY <1>4, <3>2, <3>4, PaidApart
  <2> QED BY <2>1, <2>2, <2>3 DEF Outcome
<1> QED BY <1>1, <1>3, <1>6

\* What a step does to the pool's storage and to its token account.
PoolRests == UNCHANGED poolVars /\ balance'[PoolAddr] = balance[PoolAddr]
PoolOpens(m) == open_market(m) /\ balance'[PoolAddr] = balance[PoolAddr]
PoolLocks(m) == lock_market(m) /\ balance'[PoolAddr] = balance[PoolAddr]
PoolSells(m, t, o, amount) ==
  /\ buy_outcome(m, t, o, amount)
  /\ balance'[PoolAddr] = balance[PoolAddr] + amount
PoolClaimed(m, t, o) ==
  /\ pay_trader(m, t, o)
  /\ balance'[PoolAddr] = balance[PoolAddr] - Payout(m, t, o)
PoolSettles(m, winner) ==
  /\ settle(m, winner)
  /\ balance'[PoolAddr] = balance[PoolAddr] - PoolOutflow(m, winner)

PoolStep ==
  \/ PoolRests
  \/ \E m \in MatchIds : PoolOpens(m) \/ PoolLocks(m)
  \/ \E m \in MatchIds, t \in Accounts, o \in Outcome :
       PoolClaimed(m, t, o) \/ \E amount \in TradeAmounts : PoolSells(m, t, o, amount)
  \/ \E m \in MatchIds, winner \in Outcome : PoolSettles(m, winner)

\* Every step of the pool is about one market, or about none.
LEMMA StepsOfPool ==
  ASSUME IInv, [Next]_vars
  PROVE  PoolStep
<1>0. /\ balance \in [Holders -> Nat] /\ PoolAddr \in Holders /\ EscrowAddr \in Holders
      /\ \A a \in Accounts : a \in Holders /\ a # PoolAddr
      /\ EscrowAddr # PoolAddr
  BY AddressAssumption DEF IInv, TypeOK, Holders
<1>1. ASSUME NEW from \in Holders \ {PoolAddr}, NEW to \in Holders \ {PoolAddr},
             NEW amount, transfer(from, to, amount)
      PROVE  balance'[PoolAddr] = balance[PoolAddr]
  BY <1>0, <1>1 DEF transfer, Moved
<1>2. ASSUME NEW m \in MatchIds, NEW winner \in Outcome, Cascade(m, winner)
      PROVE  PoolSettles(m, winner)
  BY <1>2, CascadePoolPays DEF Cascade, PoolSettles
<1>3. CASE RegistryNext
  BY <1>0, <1>1, <1>3
  DEF RegistryNext, CreateMatch, JoinMatch, CancelMatch, PoolStep, PoolRests, PoolOpens
<1>4. CASE PoolNext
  <2>1. ASSUME NEW m \in MatchIds, NEW t \in Accounts, NEW o \in Outcome,
               NEW amount \in TradeAmounts, BuyOutcome(m, t, o, amount)
        PROVE  PoolSells(m, t, o, amount)
    <3>1. amount \in Nat
      BY <2>1, PoolTyped DEF BuyOutcome, IInv, TypeOK
    <3> QED BY <1>0, <2>1, <3>1 DEF BuyOutcome, PoolSells, transfer, Moved
  <2>2. ASSUME NEW m \in MatchIds, NEW t \in Accounts, NEW o \in Outcome,
               PayTrader(m, t, o)
        PROVE  PoolClaimed(m, t, o)
    <3>1. Payout(m, t, o) \in Nat
      BY <2>2, PoolTyped DEF PayTrader, IInv, TypeOK
    <3> QED BY <1>0, <2>2, <3>1 DEF PayTrader, PoolClaimed, transfer, Moved
  <2> QED BY <1>4, <2>1, <2>2 DEF PoolNext, PoolStep
<1>5. CASE OracleNext
  BY <1>5
  DEF OracleNext, PostEvaluation, PostResult, SetThreshold, SetConfirmations, PoolStep,
      PoolRests, PoolLocks
<1>6. CASE SettlementNext
  <2>1. ASSUME NEW m \in MatchIds, Finalize(m) PROVE PoolStep
    <3>1. pendingResults[m].winner \in Outcome
      BY <2>1 DEF Finalize, Finalizable, HasPending, IInv, TypeOK, SettlementTypeOK
    <3> QED BY <1>2, <2>1, <3>1 DEF Finalize, PoolStep
  <2>2. ASSUME NEW m \in MatchIds, NEW who \in Accounts, NEW outcome \in DisputeOutcome,
               ResolveDispute(m, who, outcome)
        PROVE  PoolStep
    <3>1. FinalWinner(m, outcome) \in Outcome
      BY <2>2, SettlementTyped DEF ResolveDispute, IInv, TypeOK
    <3> QED BY <1>2, <2>2, <3>1 DEF ResolveDispute, PoolStep
  <2> QED BY <1>6, <2>1, <2>2
          DEF SettlementNext, OpenDispute, SetChallengeWindow, SetArbiter, PassTime,
              PoolStep, PoolRests
<1>7. CASE UNCHANGED vars
  BY <1>7 DEF vars, poolVars, PoolStep, PoolRests
<1> QED BY <1>3, <1>4, <1>5, <1>6, <1>7 DEF Next
-----------------------------------------------------------------------------
(* The buckets count the positions *)

\* What the traders staked on outcome o of match m.
Stakes(m, o) == [t \in Accounts |-> positions[m][t][o]]

\* The buckets count the positions: a market nobody opened has none, no
\* position exceeds its bucket and no bucket the volume, and until the market
\* settles each bucket is the sum of its positions.
BucketsCount(m) ==
  /\ ~markets[m].opened =>
       /\ markets[m] = NoMarket
       /\ \A t \in Accounts, o \in Outcome : positions[m][t][o] = 0
  /\ \A t \in Accounts, o \in Outcome : positions[m][t][o] <= markets[m].pool[o]
  /\ \A o \in Outcome : markets[m].pool[o] <= markets[m].total_volume
  /\ ~markets[m].settled =>
       \A o \in Outcome : markets[m].pool[o] = SumOf(Stakes(m, o), Accounts)

StakesTyped(m) ==
  /\ markets[m] \in Market
  /\ positions[m] \in [Accounts -> [Outcome -> Nat]]
  /\ \A o \in Outcome : Weights(Stakes(m, o), Accounts)

\* The stakes in a market can be added up.
LEMMA StakesWellTyped ==
  ASSUME TypeOK, NEW m \in MatchIds
  PROVE  StakesTyped(m)
<1>1. markets[m] \in Market /\ positions[m] \in [Accounts -> [Outcome -> Nat]]
  BY DEF TypeOK, PoolTypeOK
<1>2. ASSUME NEW o \in Outcome PROVE Weights(Stakes(m, o), Accounts)
  BY <1>1, AccountsAssumption DEF Weights, Stakes
<1> QED BY <1>1, <1>2 DEF StakesTyped

\* No stake and no pool.
LEMMA InitCounts == Init => \A m \in MatchIds : BucketsCount(m)
<1> SUFFICES ASSUME Init, NEW m \in MatchIds PROVE BucketsCount(m)
  OBVIOUS
<1>1. /\ markets[m] = NoMarket
      /\ \A t \in Accounts, o \in Outcome : positions[m][t][o] = 0
  BY DEF Init, PoolInit
<1>2. ASSUME NEW o \in Outcome PROVE SumOf(Stakes(m, o), Accounts) = 0
  <2>1. \A t \in Accounts : Stakes(m, o)[t] = 0
    BY <1>1 DEF Stakes
  <2>2. Weights(Stakes(m, o), Accounts)
    BY <2>1, AccountsAssumption DEF Weights
  <2> QED BY <2>1, <2>2, SumOfZeros
<1> QED BY <1>1, <1>2 DEF BucketsCount, NoMarket

\* A bet changes one stake, and its pool by as much.
LEMMA StepCounts ==
  ASSUME IInv, [Next]_vars, NEW m \in MatchIds, BucketsCount(m)
  PROVE  BucketsCount(m)'
<1>1. /\ TypeOK /\ StakesTyped(m) /\ MarketAgrees(m)
      /\ markets \in [MatchIds -> Market]
      /\ positions \in [MatchIds -> [Accounts -> [Outcome -> Nat]]]
  BY StakesWellTyped DEF IInv, ContractsAgree, Agree, TypeOK, PoolTypeOK
<1>2. CASE markets'[m] = markets[m] /\ positions'[m] = positions[m]
  BY <1>2 DEF BucketsCount, Stakes
<1>3. CASE PoolOpens(m)
  <2>1. /\ markets'[m] = [NoMarket EXCEPT !.opened = TRUE]
        /\ positions'[m] = positions[m]
        /\ markets[m] = NoMarket /\ ~markets[m].settled
        /\ \A t \in Accounts, o \in Outcome : positions[m][t][o] = 0
    BY <1>1, <1>3 DEF PoolOpens, open_market, BucketsCount, NoMarket
  <2>2. /\ markets'[m].opened /\ markets'[m].pool = markets[m].pool
        /\ markets'[m].total_volume = markets[m].total_volume
        /\ markets'[m].settled = markets[m].settled
    BY <2>1 DEF NoMarket
  <2> QED BY <2>1, <2>2 DEF BucketsCount, Stakes
<1>4. CASE PoolLocks(m)
  <2>1. /\ positions'[m] = positions[m]
        /\ markets[m].opened /\ markets'[m].opened
        /\ markets'[m].pool = markets[m].pool
        /\ markets'[m].total_volume = markets[m].total_volume
        /\ markets'[m].settled = markets[m].settled
    BY <1>1, <1>4 DEF PoolLocks, lock_market, Market
  <2> QED BY <2>1 DEF BucketsCount, Stakes
<1>5. ASSUME NEW t \in Accounts, NEW o \in Outcome, NEW amount \in TradeAmounts,
             PoolSells(m, t, o, amount)
      PROVE  BucketsCount(m)'
  <2>1. /\ amount \in Nat /\ markets[m].opened /\ ~markets[m].settled
        /\ markets'[m].opened /\ ~markets'[m].settled
        /\ markets'[m].pool = [markets[m].pool EXCEPT ![o] = @ + amount]
        /\ markets'[m].total_volume = markets[m].total_volume + amount
        /\ positions'[m] = [positions[m] EXCEPT ![t][o] = @ + amount]
    BY <1>1, <1>5, PoolTyped DEF PoolSells, buy_outcome, Market, TypeOK
  <2>2. ASSUME NEW p \in Outcome
        PROVE  markets'[m].pool[p] = SumOf(Stakes(m, p), Accounts)'
    <3>1. PICK new : new = Stakes(m, p)'
      OBVIOUS
    <3>2. /\ markets[m].pool[p] = SumOf(Stakes(m, p), Accounts)
          /\ Weights(Stakes(m, p), Accounts)
          /\ markets[m].pool[p] \in Int
      BY <1>1, <2>1 DEF BucketsCount, StakesTyped, Market
    <3>3. CASE p = o
      <4>1. new[t] = Stakes(m, p)[t] + amount /\ Stakes(m, p)[t] \in Int
        BY <1>1, <2>1, <3>1, <3>3 DEF Stakes, StakesTyped
      <4>2. SumOf(new, Accounts) = SumOf(Stakes(m, p), Accounts) + new[t] - Stakes(m, p)[t]
        <5>1. ChangesAt(Stakes(m, p), new, Accounts, t)
          BY <1>1, <2>1, <3>1, <3>3, <4>1 DEF Stakes, StakesTyped, ChangesAt
        <5> QED BY <3>2, <5>1, SumChanges
      <4>3. markets'[m].pool[p] = markets[m].pool[p] + amount
        BY <1>1, <2>1, <3>3 DEF StakesTyped, Market
      <4> QED BY <2>1, <3>1, <3>2, <4>1, <4>2, <4>3
    <3>4. CASE p # o
      <4>1. \A u \in Accounts : new[u] = Stakes(m, p)[u]
        BY <1>1, <2>1, <3>1, <3>4 DEF Stakes, StakesTyped
      <4>2. SumOf(new, Accounts) = SumOf(Stakes(m, p), Accounts)
        BY ONLY <3>2, <4>1, SumSame
      <4>3. markets'[m].pool[p] = markets[m].pool[p]
        BY <1>1, <2>1, <3>4 DEF StakesTyped, Market
      <4> QED BY <3>1, <3>2, <4>2, <4>3
    <3> QED BY <3>3, <3>4
  <2>3. ASSUME NEW u \in Accounts, NEW p \in Outcome
        PROVE  positions'[m][u][p] <= markets'[m].pool[p]
    <3>1. /\ positions[m][u][p] \in Nat /\ markets[m].pool[p] \in Nat
          /\ positions[m][u][p] <= markets[m].pool[p]
      BY <1>1 DEF BucketsCount, StakesTyped, Market
    <3> QED BY <1>1, <2>1, <3>1 DEF StakesTyped, Market
  <2>4. ASSUME NEW p \in Outcome
        PROVE  markets'[m].pool[p] <= markets'[m].total_volume
    <3>1. /\ markets[m].pool[p] \in Nat /\ markets[m].total_volume \in Nat
          /\ markets[m].pool[p] <= markets[m].total_volume
      BY <1>1 DEF BucketsCount, StakesTyped, Market
    <3> QED BY <1>1, <2>1, <3>1 DEF StakesTyped, Market
  <2> QED BY <2>1, <2>2, <2>3, <2>4 DEF BucketsCount
<1>6. ASSUME NEW t \in Accounts, NEW o \in Outcome, PoolClaimed(m, t, o)
      PROVE  BucketsCount(m)'
  <2>1. /\ markets'[m] = markets[m] /\ markets[m].settled /\ markets[m].opened
        /\ positions'[m] = [positions[m] EXCEPT ![t][o] = 0]
    BY <1>1, <1>6 DEF PoolClaimed, pay_trader, MarketAgrees, Played
  <2>2. ASSUME NEW u \in Accounts, NEW p \in Outcome
        PROVE  positions'[m][u][p] <= markets'[m].pool[p]
    <3>1. /\ positions[m][u][p] \in Nat /\ markets[m].pool[p] \in Nat
          /\ positions[m][u][p] <= markets[m].pool[p]
      BY <1>1 DEF BucketsCount, StakesTyped, Market
    <3> QED BY <1>1, <2>1, <3>1 DEF StakesTyped, Market
  <2> QED BY <2>1, <2>2 DEF BucketsCount
<1>7. ASSUME NEW winner \in Outcome, PoolSettles(m, winner)
      PROVE  BucketsCount(m)'
  <2>1. /\ positions'[m] = positions[m]
        /\ markets[m].opened /\ markets'[m].opened
        /\ markets'[m].pool = markets[m].pool
        /\ markets'[m].total_volume = markets[m].total_volume
        /\ markets'[m].settled
    BY <1>1, <1>7 DEF PoolSettles, settle, CanSettle, Market
  <2> QED BY <2>1 DEF BucketsCount
<1>8. CASE PoolRests
  BY <1>2, <1>8 DEF PoolRests, poolVars
<1>9. ASSUME NEW n \in MatchIds \ {m}, PoolOpens(n) \/ PoolLocks(n)
      PROVE  BucketsCount(m)'
  BY <1>1, <1>2, <1>9 DEF PoolOpens, PoolLocks, open_market, lock_market
<1>10. ASSUME NEW n \in MatchIds \ {m}, NEW t \in Accounts, NEW o \in Outcome,
              \/ PoolClaimed(n, t, o)
              \/ \E amount \in TradeAmounts : PoolSells(n, t, o, amount)
       PROVE  BucketsCount(m)'
  BY <1>1, <1>2, <1>10 DEF PoolClaimed, PoolSells, pay_trader, buy_outcome
<1>11. ASSUME NEW n \in MatchIds \ {m}, NEW winner \in Outcome, PoolSettles(n, winner)
       PROVE  BucketsCount(m)'
  BY <1>1, <1>2, <1>11 DEF PoolSettles, settle
<1> QED BY <1>3, <1>4, <1>5, <1>6, <1>7, <1>8, <1>9, <1>10, <1>11, StepsOfPool DEF PoolStep
-----------------------------------------------------------------------------
(* What the pool keeps for a match *)

\* What is left to claim on a settled match, trader by trader.
Claims(m) ==
  [t \in Accounts |->
     IF positions[m][t][markets[m].result] > 0 THEN Payout(m, t, markets[m].result)
     ELSE 0]

Owes(m) == SumOf(Claims(m), Accounts)

Dust == 1 + Cardinality(Accounts)

\* k may be what the pool keeps for match m.
Keeps(m, k) ==
  IF markets[m].settled THEN Owes(m) <= k /\ k <= Owes(m) + Dust
  ELSE k = markets[m].total_volume

\* The pool's account is made up of what it keeps for each match.
PoolHolds ==
  \E kept \in [MatchIds -> Int] :
    /\ balance[PoolAddr] = SumOf(kept, MatchIds)
    /\ \A m \in MatchIds : Keeps(m, kept[m])

MoneyInv ==
  /\ IInv
  /\ VaultHolds
  /\ \A m \in MatchIds : BucketsCount(m)
  /\ PoolHolds

\* There are finitely many matches.
LEMMA MatchIdsFinite == IsFiniteSet(MatchIds) /\ Cardinality(MatchIds) = MaxMatches
  BY FS_Interval, MatchAssumption DEF MatchIds

\* The claims on a settled market can be added up.
LEMMA ClaimsTyped ==
  ASSUME TypeOK, NEW m \in MatchIds, MarketAgrees(m), BucketsCount(m), markets[m].settled
  PROVE  /\ markets[m].result \in Outcome
         /\ Weights(Claims(m), Accounts) /\ Owes(m) \in Int /\ Dust \in Nat
<1>1. StakesTyped(m) /\ Dust \in Nat
  BY StakesWellTyped, AccountsAssumption, FS_CardinalityType DEF Dust
<1>2. markets[m].result \in Outcome
  BY <1>1 DEF MarketAgrees, StakesTyped, Market
<1> DEFINE o == markets[m].result
<1>3. ASSUME NEW t \in Accounts, positions[m][t][o] > 0
      PROVE  Payout(m, t, o) \in Nat
  <2>1. PICK x \in Nat, w \in Nat, n \in Nat :
          x = positions[m][t][o] /\ w = markets[m].pool[o]
          /\ n = NetPool(markets[m].total_volume)
    BY <1>1, <1>2, FeeBounds DEF StakesTyped, Market
  <2>2. x > 0 /\ x <= w
    BY <1>2, <1>3, <2>1 DEF BucketsCount
  <2>3. (x * n) \div w \in Nat
    BY <2>2, ShareTyped
  <2> QED BY <2>1, <2>3 DEF Payout
<1>4. Weights(Claims(m), Accounts)
  BY <1>3, AccountsAssumption DEF Weights, Claims
<1> QED BY <1>1, <1>2, <1>4, SumTypes DEF Owes

\* One match's share of the pool changes by as much as the pool's account.
LEMMA PoolHoldsFrom ==
  ASSUME NEW kept \in [MatchIds -> Int], NEW m \in MatchIds, NEW k \in Int,
         balance[PoolAddr] = SumOf(kept, MatchIds),
         balance'[PoolAddr] = balance[PoolAddr] + k - kept[m],
         Keeps(m, k)', \A n \in MatchIds \ {m} : Keeps(n, kept[n])'
  PROVE  PoolHolds'
<1> DEFINE new == [kept EXCEPT ![m] = k]
<1>1. Weights(kept, MatchIds) /\ ChangesAt(kept, new, MatchIds, m)
  BY MatchIdsFinite DEF Weights, ChangesAt
<1>2. SumOf(new, MatchIds) = SumOf(kept, MatchIds) + k - kept[m]
  <2>1. new[m] = k
    OBVIOUS
  <2> HIDE DEF new
  <2> QED BY <1>1, <2>1, SumChanges
<1>3. new \in [MatchIds -> Int] /\ \A n \in MatchIds : Keeps(n, new[n])'
  OBVIOUS
<1>4. balance'[PoolAddr] = SumOf(new, MatchIds)
  BY <1>2
<1> QED BY <1>3, <1>4 DEF PoolHolds

\* A match whose market's volume, result and positions stay is kept for as before.
LEMMA KeepsFrame ==
  ASSUME NEW n \in MatchIds, NEW k, Keeps(n, k),
         markets'[n].settled = markets[n].settled,
         markets'[n].total_volume = markets[n].total_volume,
         markets'[n].pool = markets[n].pool,
         markets'[n].result = markets[n].result,
         positions'[n] = positions[n]
  PROVE  Keeps(n, k)'
<1>1. Claims(n)' = Claims(n)
  BY DEF Claims, Payout
<1>2. Owes(n)' = Owes(n)
  BY <1>1 DEF Owes
<1> QED BY <1>2 DEF Keeps, Dust

\* Fees and net pool make up the volume, but for at most one stroop.
LEMMA NetSplit ==
  ASSUME NEW v \in Nat
  PROVE  LET parts == FeeTreasury(v) + FeeFlywheel(v) + NetPool(v)
         IN  parts <= v /\ v <= parts + 1
  BY DEF FeeTreasury, FeeFlywheel, NetPool

\* A settlement leaves the pool what the winners may claim, and dust.
LEMMA SettleKeeps ==
  ASSUME TypeOK, NEW m \in MatchIds, NEW winner \in Outcome, MarketAgrees(m),
         BucketsCount(m), settle(m, winner),
         NEW k, k = markets[m].total_volume - PoolOutflow(m, winner)
  PROVE  Keeps(m, k)'
<1>1. /\ StakesTyped(m) /\ markets \in [MatchIds -> Market] /\ Dust \in Nat
  BY StakesWellTyped, AccountsAssumption, FS_CardinalityType DEF TypeOK, PoolTypeOK, Dust
<1>2. /\ ~markets[m].settled /\ markets'[m].settled /\ markets'[m].result = winner
      /\ markets'[m].total_volume = markets[m].total_volume
      /\ markets'[m].pool = markets[m].pool
      /\ positions'[m] = positions[m]
  BY <1>1 DEF settle, CanSettle, Market
<1>3. PICK v \in Nat, n \in Nat, w \in Nat :
        v = markets[m].total_volume /\ n = NetPool(v) /\ w = markets[m].pool[winner]
  BY <1>1, FeeBounds DEF StakesTyped, Market
<1>4. PICK fees \in Nat : fees = FeeTreasury(v) + FeeFlywheel(v)
  BY <1>3, FeeBounds
<1>5. fees + n <= v /\ v <= fees + n + 1
  <2>1. /\ FeeTreasury(v) + FeeFlywheel(v) + NetPool(v) <= v
        /\ v <= FeeTreasury(v) + FeeFlywheel(v) + NetPool(v) + 1
    BY NetSplit
  <2> QED BY <1>3, <1>4, <2>1
<1>6. PoolOutflow(m, winner) = fees + (IF w = 0 THEN n ELSE 0)
  BY <1>3, <1>4 DEF PoolOutflow, Sweep, Volume
<1>7. PICK c : c = Claims(m)'
  OBVIOUS
<1>8. c = [t \in Accounts |->
             IF Stakes(m, winner)[t] > 0 THEN (Stakes(m, winner)[t] * n) \div w ELSE 0]
  BY <1>2, <1>3, <1>7 DEF Claims, Payout, Stakes
<1>9. /\ SumOf(c, Accounts) \in Int
      /\ SumOf(c, Accounts) <= v - PoolOutflow(m, winner)
      /\ v - PoolOutflow(m, winner) <= SumOf(c, Accounts) + Dust
  <2>1. CASE w = 0
    <3>1. ASSUME NEW t \in Accounts PROVE c[t] = 0
      <4>1. positions[m][t][winner] \in Nat
        BY <1>1 DEF StakesTyped
      <4>2. positions[m][t][winner] <= markets[m].pool[winner]
        BY DEF BucketsCount
      <4>3. positions[m][t][winner] = 0
        BY <1>3, <2>1, <4>1, <4>2
      <4> QED BY <1>8, <4>3 DEF Stakes
    <3>2. Weights(c, Accounts)
      BY <3>1, AccountsAssumption DEF Weights
    <3>3. SumOf(c, Accounts) = 0
      BY <3>1, <3>2, SumOfZeros
    <3>4. Dust >= 1
      BY AccountsAssumption, FS_CardinalityType DEF Dust
    <3> QED BY <1>1, <1>5, <1>6, <2>1, <3>3, <3>4
  <2>2. CASE w > 0
    <3>1. w = SumOf(Stakes(m, winner), Accounts)
      BY <1>2, <1>3 DEF BucketsCount
    <3>2. c = Shares(Stakes(m, winner), n, Accounts)
      BY <1>8, <3>1 DEF Shares
    <3>3. \A t \in Accounts : Stakes(m, winner)[t] \in Nat
      BY <1>1 DEF Stakes, StakesTyped
    <3>4. PICK p : p = Stakes(m, winner)
      OBVIOUS
    <3>5. /\ Weights(c, Accounts)
          /\ SumOf(c, Accounts) <= n
          /\ n <= SumOf(c, Accounts) + Cardinality(Accounts)
      BY <2>2, <3>1, <3>2, <3>3, <3>4, SharesCover, AccountsAssumption
    <3>6. SumOf(c, Accounts) \in Int
      BY <3>5, SumTypes
    <3>7. Cardinality(Accounts) \in Nat
      BY AccountsAssumption, FS_CardinalityType
    <3> QED BY <1>5, <1>6, <2>2, <3>5, <3>6, <3>7 DEF Dust
  <2> QED BY <1>3, <2>1, <2>2
<1>10. Owes(m)' = SumOf(c, Accounts)
  BY <1>7 DEF Owes
<1> QED BY <1>2, <1>3, <1>9, <1>10 DEF Keeps, Dust

\* A claim takes from what the pool keeps just what the winner could claim.
LEMMA ClaimKeeps ==
  ASSUME TypeOK, NEW m \in MatchIds, NEW t \in Accounts, NEW o \in Outcome,
         MarketAgrees(m), BucketsCount(m), pay_trader(m, t, o),
         NEW k \in Int, Keeps(m, k), NEW j, j = k - Payout(m, t, o)
  PROVE  j \in Int /\ Keeps(m, j)'
<1>1. /\ StakesTyped(m) /\ positions \in [MatchIds -> [Accounts -> [Outcome -> Nat]]]
      /\ markets[m].settled /\ markets[m].result = o /\ positions[m][t][o] # 0
      /\ markets' = markets
      /\ positions'[m] = [positions[m] EXCEPT ![t][o] = 0]
  BY StakesWellTyped DEF TypeOK, PoolTypeOK, pay_trader
<1>2. /\ Weights(Claims(m), Accounts) /\ Owes(m) \in Int /\ Dust \in Nat
  BY <1>1, ClaimsTyped
<1>3. PICK c : c = Claims(m)'
  OBVIOUS
<1>4. /\ \A u \in Accounts \ {t} : c[u] = Claims(m)[u]
      /\ c[t] = 0
  <2>1. \A u \in Accounts \ {t} : positions'[m][u] = positions[m][u]
    BY <1>1 DEF StakesTyped
  <2>2. positions'[m][t][o] = 0
    BY <1>1 DEF StakesTyped
  <2> QED BY <1>1, <1>3, <2>1, <2>2 DEF Claims, Payout
<1>5. Claims(m)[t] = Payout(m, t, o) /\ Claims(m)[t] \in Int
  <2>1. positions[m][t][o] > 0
    BY <1>1 DEF StakesTyped
  <2> QED BY <1>1, <1>2, <2>1 DEF Claims, Weights
<1>6. SumOf(c, Accounts) = Owes(m) + c[t] - Claims(m)[t]
  <2>1. ChangesAt(Claims(m), c, Accounts, t)
    BY <1>4 DEF ChangesAt
  <2> QED BY <1>2, <2>1, SumChanges DEF Owes
<1>7. Owes(m) <= k /\ k <= Owes(m) + Dust
  BY <1>1 DEF Keeps
<1>8. /\ j \in Int
      /\ SumOf(c, Accounts) <= j /\ j <= SumOf(c, Accounts) + Dust
  BY <1>2, <1>4, <1>5, <1>6, <1>7
<1>9. Owes(m)' = SumOf(c, Accounts)
  BY <1>3 DEF Owes
<1> QED BY <1>1, <1>8, <1>9 DEF Keeps, Dust

\* Every step of the contracts keeps the pool's account made up of its books.
LEMMA StepPool == MoneyInv /\ [Next]_vars => PoolHolds'
<1> SUFFICES ASSUME MoneyInv, [Next]_vars PROVE PoolHolds'
  OBVIOUS
<1>1. /\ TypeOK /\ IInv /\ \A m \in MatchIds : MarketAgrees(m) /\ BucketsCount(m)
      /\ markets \in [MatchIds -> Market]
      /\ positions \in [MatchIds -> [Accounts -> [Outcome -> Nat]]]
      /\ balance[PoolAddr] \in Int
  BY DEF MoneyInv, IInv, ContractsAgree, Agree, TypeOK, PoolTypeOK, Holders
<1>2. PICK kept \in [MatchIds -> Int] :
        /\ balance[PoolAddr] = SumOf(kept, MatchIds)
        /\ \A m \in MatchIds : Keeps(m, kept[m])
  BY DEF MoneyInv, PoolHolds
<1>3. ASSUME NEW m \in MatchIds, NEW k \in Int,
             balance'[PoolAddr] = balance[PoolAddr] + k - kept[m], Keeps(m, k)',
             \A n \in MatchIds \ {m} :
               markets'[n] = markets[n] /\ positions'[n] = positions[n]
      PROVE  PoolHolds'
  <2>1. ASSUME NEW n \in MatchIds \ {m} PROVE Keeps(n, kept[n])'
    BY <1>2, <1>3, KeepsFrame
  <2> QED BY <1>2, <1>3, <2>1, PoolHoldsFrom
<1>4. ASSUME balance'[PoolAddr] = balance[PoolAddr],
             \A m \in MatchIds :
               /\ markets'[m].settled = markets[m].settled
               /\ markets'[m].total_volume = markets[m].total_volume
               /\ markets'[m].pool = markets[m].pool
               /\ markets'[m].result = markets[m].result
               /\ positions'[m] = positions[m]
      PROVE  PoolHolds'
  <2>1. ASSUME NEW n \in MatchIds PROVE Keeps(n, kept[n])'
    BY <1>2, <1>4, KeepsFrame
  <2> QED BY <1>2, <1>4, <2>1 DEF PoolHolds
<1>5. CASE PoolRests
  BY <1>4, <1>5 DEF PoolRests, poolVars
<1>6. ASSUME NEW m \in MatchIds, PoolOpens(m) PROVE PoolHolds'
  <2>1. markets[m] = NoMarket /\ markets'[m] = [NoMarket EXCEPT !.opened = TRUE]
    BY <1>1, <1>6 DEF PoolOpens, open_market, BucketsCount
  <2>2. \A n \in MatchIds \ {m} : markets'[n] = markets[n]
    BY <1>1, <1>6 DEF PoolOpens, open_market
  <2>3. /\ markets'[m].settled = markets[m].settled
        /\ markets'[m].total_volume = markets[m].total_volume
        /\ markets'[m].pool = markets[m].pool
        /\ markets'[m].result = markets[m].result
    BY <2>1 DEF NoMarket
  <2>4. positions' = positions /\ balance'[PoolAddr] = balance[PoolAddr]
    BY <1>6 DEF PoolOpens, open_market
  <2> QED BY <1>4, <2>2, <2>3, <2>4
<1>7. ASSUME NEW m \in MatchIds, PoolLocks(m) PROVE PoolHolds'
  <2>1. \A n \in MatchIds :
          /\ markets'[n].settled = markets[n].settled
          /\ markets'[n].total_volume = markets[n].total_volume
          /\ markets'[n].pool = markets[n].pool
          /\ markets'[n].result = markets[n].result
    BY <1>1, <1>7 DEF PoolLocks, lock_market, Market
  <2> QED BY <1>4, <1>7, <2>1 DEF PoolLocks, lock_market
<1>8. ASSUME NEW m \in MatchIds, NEW t \in Accounts, NEW o \in Outcome,
             NEW amount \in TradeAmounts, PoolSells(m, t, o, amount)
      PROVE  PoolHolds'
  <2>0. amount \in Nat
    BY <1>1, <1>8, PoolTyped DEF PoolSells, TypeOK
  <2>1. /\ ~markets[m].settled /\ ~markets'[m].settled
        /\ markets'[m].total_volume = markets[m].total_volume + amount
        /\ markets[m].total_volume \in Nat
    BY <1>1, <1>8 DEF PoolSells, buy_outcome, Market
  <2>2. \A n \in MatchIds \ {m} :
          markets'[n] = markets[n] /\ positions'[n] = positions[n]
    BY <1>1, <1>8 DEF PoolSells, buy_outcome
  <2>3. PICK k \in Int : k = markets'[m].total_volume
    BY <2>0, <2>1
  <2>4. Keeps(m, k)' /\ kept[m] = markets[m].total_volume
    BY <1>2, <2>1, <2>3 DEF Keeps
  <2>5. balance'[PoolAddr] = balance[PoolAddr] + k - kept[m]
    BY <1>1, <1>8, <2>0, <2>1, <2>3, <2>4 DEF PoolSells
  <2> QED BY <1>3, <2>2, <2>4, <2>5
<1>9. ASSUME NEW m \in MatchIds, NEW t \in Accounts, NEW o \in Outcome,
             PoolClaimed(m, t, o)
      PROVE  PoolHolds'
  <2>1. PICK j : j = kept[m] - Payout(m, t, o)
    OBVIOUS
  <2>2. j \in Int /\ Keeps(m, j)'
    BY <1>1, <1>2, <1>9, <2>1, ClaimKeeps DEF PoolClaimed
  <2>3. Payout(m, t, o) \in Int
    BY <1>1, <1>9, PoolTyped DEF PoolClaimed, TypeOK
  <2>4. balance'[PoolAddr] = balance[PoolAddr] + j - kept[m]
    BY <1>1, <1>2, <1>9, <2>1, <2>3 DEF PoolClaimed
  <2>5. \A n \in MatchIds \ {m} :
          markets'[n] = markets[n] /\ positions'[n] = positions[n]
    BY <1>1, <1>9 DEF PoolClaimed, pay_trader
  <2> QED BY <1>3, <2>2, <2>4, <2>5
<1>10. ASSUME NEW m \in MatchIds, NEW winner \in Outcome, PoolSettles(m, winner)
       PROVE  PoolHolds'
  <2>1. PICK j : j = markets[m].total_volume - PoolOutflow(m, winner)
    OBVIOUS
  <2>2. Keeps(m, j)'
    BY <1>1, <1>10, <2>1, SettleKeeps DEF PoolSettles
  <2>3. PoolOutflow(m, winner) \in Int /\ markets[m].total_volume \in Int
    BY <1>1, VolumeTyped DEF Market
  <2>4. kept[m] = markets[m].total_volume
    BY <1>2, <1>10 DEF PoolSettles, settle, CanSettle, Keeps
  <2>5. j \in Int /\ balance'[PoolAddr] = balance[PoolAddr] + j - kept[m]
    BY <1>1, <1>10, <2>1, <2>3, <2>4 DEF PoolSettles
  <2>6. \A n \in MatchIds \ {m} :
          markets'[n] = markets[n] /\ positions'[n] = positions[n]
    BY <1>1, <1>10 DEF PoolSettles, settle
  <2> QED BY <1>3, <2>2, <2>5, <2>6
<1> QED BY <1>1, <1>5, <1>6, <1>7, <1>8, <1>9, <1>10, StepsOfPool DEF PoolStep
-----------------------------------------------------------------------------
(* The properties *)

\* Nothing is owed and nothing held.
LEMMA InitMoney == Init => MoneyInv
<1> SUFFICES ASSUME Init PROVE MoneyInv
  OBVIOUS
<1>1. IInv /\ VaultHolds /\ \A m \in MatchIds : BucketsCount(m)
  BY InitTypeOK, InitAgree, InitVault, InitCounts DEF IInv
<1> DEFINE none == [m \in MatchIds |-> 0]
<1>2. \A m \in MatchIds : Keeps(m, none[m])
  BY DEF Init, PoolInit, NoMarket, Keeps
<1>3. SumOf(none, MatchIds) = 0
  <2>1. Weights(none, MatchIds) /\ \A m \in MatchIds : none[m] = 0
    BY MatchIdsFinite DEF Weights
  <2> HIDE DEF none
  <2> QED BY <2>1, SumOfZeros
<1>4. balance[PoolAddr] = 0
  BY AddressAssumption DEF Init, Holders
<1>5. none \in [MatchIds -> Int]
  OBVIOUS
<1>6. PoolHolds
  BY <1>2, <1>3, <1>4, <1>5 DEF PoolHolds
<1> QED BY <1>1, <1>6 DEF MoneyInv

\* So the books always cover what is owed.
LEMMA MoneyAlways == Spec => []MoneyInv
<1>1. MoneyInv /\ [Next]_vars => MoneyInv'
  BY NextTyped, NextAgree, StepVault, StepCounts, StepPool DEF MoneyInv, IInv
<1> QED BY <1>1, InitMoney, PTL DEF Spec

\* The vault's account is what it owes on all matches, to the stroop.
THEOREM VaultAlwaysSolvent == Spec => []VaultSolvent
<1>1. MoneyInv => VaultSolvent
  BY VaultSum DEF MoneyInv, IInv, VaultHolds, VaultSolvent
<1> QED BY <1>1, MoneyAlways, PTL
-----------------------------------------------------------------------------
\* What the pool owes on each match.
Dues == [m \in MatchIds |-> Owed(m)]

\* What is owed on a settled match, in the property's own words.
LEMMA OwedSum ==
  ASSUME TypeOK, NEW m \in MatchIds, MarketAgrees(m), BucketsCount(m), markets[m].settled
  PROVE  Owed(m) = Owes(m)
<1> DEFINE o == markets[m].result
           Win == Winners(m)
           Sums(h) == h = [s \in SUBSET Win |->
             IF s = {} THEN 0
             ELSE Payout(m, CHOOSE x \in s : TRUE, o) + h[s \ {CHOOSE x \in s : TRUE}]]
           sum == CHOOSE h : Sums(h)
<1>1. Owed(m) = sum[Win]
  BY DEF Owed, MapThenSumSet, MapThenFoldSet
<1>2. /\ Win \subseteq Accounts
      /\ \A t \in Win : Claims(m)[t] = Payout(m, t, o)
      /\ \A t \in Accounts \ Win : Claims(m)[t] = 0
  BY DEF Winners, Claims
<1>3. Weights(Claims(m), Accounts)
  BY ClaimsTyped
<1>4. Weights(Claims(m), Win)
  BY <1>2, <1>3, FS_Subset DEF Weights
<1> HIDE DEF Win, o
<1>5. \A h : Sums(h) <=> Takes(h, Claims(m), Win)
  <2>1. ASSUME NEW s \in SUBSET Win, s # {}
        PROVE  Claims(m)[CHOOSE x \in s : TRUE] = Payout(m, CHOOSE x \in s : TRUE, o)
    <3>1. PICK x : x = CHOOSE y \in s : TRUE
      OBVIOUS
    <3>2. x \in Win
      BY <2>1, <3>1
    <3> QED BY <1>2, <3>1, <3>2
  <2> QED BY ZenonT(30), <2>1 DEF Takes
<1> HIDE DEF Sums
<1>6. sum[Win] = SumOf(Claims(m), Win)
  <2>1. \E h : Sums(h)
    BY <1>4, <1>5, TakesSum
  <2>2. Takes(sum, Claims(m), Win)
    BY <1>5, <2>1
  <2> QED BY <1>4, <2>2, TakesSum
<1>7. SumOf(Claims(m), Accounts) = SumOf(Claims(m), Win)
  BY <1>2, <1>3, SumOfPart
<1> QED BY <1>1, <1>6, <1>7 DEF Owes

\* What a market owes, settled or not.
LEMMA DuesTyped ==
  ASSUME MoneyInv
  PROVE  /\ Weights(Dues, MatchIds)
         /\ \A m \in MatchIds :
              Dues[m] = IF markets[m].settled THEN Owes(m) ELSE markets[m].total_volume
<1>1. ASSUME NEW m \in MatchIds
      PROVE  /\ Dues[m] \in Int
             /\ Dues[m] = IF markets[m].settled THEN Owes(m) ELSE markets[m].total_volume
  <2>1. TypeOK /\ MarketAgrees(m) /\ BucketsCount(m) /\ markets[m] \in Market
    BY MatchTyped DEF MoneyInv, IInv, ContractsAgree, Agree
  <2>2. CASE markets[m].settled
    BY <2>1, <2>2, OwedSum, ClaimsTyped DEF Dues
  <2>3. CASE ~markets[m].settled
    BY <2>1, <2>3 DEF Dues, Owed, Market
  <2> QED BY <2>2, <2>3
<1> QED BY <1>1, MatchIdsFinite DEF Weights

\* The fold over the markets is the sum of their dues.
LEMMA PoolSum ==
  ASSUME MoneyInv
  PROVE  MapThenSumSet(Owed, MatchIds) = SumOf(Dues, MatchIds)
<1> DEFINE Sums(h) == h = [s \in SUBSET MatchIds |->
             IF s = {} THEN 0
             ELSE Owed(CHOOSE x \in s : TRUE) + h[s \ {CHOOSE x \in s : TRUE}]]
           sum == CHOOSE h : Sums(h)
<1>1. MapThenSumSet(Owed, MatchIds) = sum[MatchIds]
  BY DEF MapThenSumSet, MapThenFoldSet
<1>2. \A h : Sums(h) <=> Takes(h, Dues, MatchIds)
  BY DEF Takes, Dues
<1> HIDE DEF Sums
<1>3. Takes(sum, Dues, MatchIds)
  <2>1. \E h : Sums(h)
    BY <1>2, DuesTyped, TakesSum
  <2>2. Sums(sum)
    BY <2>1
  <2> QED BY <1>2, <2>2
<1> QED BY <1>1, <1>3, DuesTyped, TakesSum

\* The books of the pool say that it is solvent.
LEMMA PoolSolventFromBooks == MoneyInv => PoolSolvent
<1> SUFFICES ASSUME MoneyInv PROVE PoolSolvent
  OBVIOUS
<1>1. PICK kept \in [MatchIds -> Int] :
        /\ balance[PoolAddr] = SumOf(kept, MatchIds)
        /\ \A m \in MatchIds : Keeps(m, kept[m])
  BY DEF MoneyInv, PoolHolds
<1>2. Dust \in Nat
  BY AccountsAssumption, FS_CardinalityType DEF Dust
<1>3. Weights(Dues, MatchIds) /\ Weights(kept, MatchIds)
  BY DuesTyped, MatchIdsFinite DEF Weights
<1>4. ASSUME NEW m \in MatchIds
      PROVE  1 * Dues[m] <= 1 * kept[m] + 0 /\ 1 * kept[m] <= 1 * Dues[m] + Dust
  BY <1>1, <1>2, <1>3, DuesTyped DEF Keeps, Weights
<1>5. 1 * SumOf(Dues, MatchIds) <= 1 * SumOf(kept, MatchIds) + 0 * Cardinality(MatchIds)
  BY <1>3, <1>4, SumBounds
<1>6. 1 * SumOf(kept, MatchIds) <= 1 * SumOf(Dues, MatchIds) + Dust * Cardinality(MatchIds)
  BY <1>2, <1>3, <1>4, SumBounds
<1>7. SumOf(kept, MatchIds) \in Int /\ SumOf(Dues, MatchIds) \in Int
  BY <1>3, SumTypes
<1>8. Cardinality(MatchIds) = MaxMatches /\ MaxMatches \in Nat
  BY MatchIdsFinite, MatchAssumption
<1>9. Dust * MaxMatches = MaxMatches * (1 + Cardinality(Accounts))
  BY <1>2, <1>8, AccountsAssumption, FS_CardinalityType DEF Dust
<1>10. PICK d \in Int : d = Dust * MaxMatches
  BY <1>2, <1>8
<1>11. /\ SumOf(Dues, MatchIds) <= balance[PoolAddr]
       /\ balance[PoolAddr] <= SumOf(Dues, MatchIds) + d
  BY <1>1, <1>5, <1>6, <1>7, <1>8, <1>10
<1> QED BY <1>9, <1>10, <1>11, PoolSum DEF PoolSolvent

\* The pool can pay every bettor and every winner, and hardly a stroop more.
THEOREM PoolAlwaysSolvent == Spec => []PoolSolvent
  BY PoolSolventFromBooks, MoneyAlways, PTL
-----------------------------------------------------------------------------
\* What a cascade takes out of the vault is what the vault owes on the match.
LEMMA VaultFunds ==
  ASSUME MoneyInv, NEW m \in MatchIds, NEW winner \in Outcome, Decided(m)
  PROVE  balance[EscrowAddr] + FeeFlywheel(Volume(m)) >= VaultOutflow(m, winner)
<1> DEFINE fly == FeeFlywheel(Volume(m))
<1>1. TypeOK /\ ContractsAgree /\ Agree(m)
  BY DEF MoneyInv, IInv, ContractsAgree
<1>2. /\ records[m] \in DepositRecord /\ fly \in Nat /\ Bonused(m) \in DepositRecord
      /\ balance[EscrowAddr] \in Nat
  BY <1>1, MatchTyped, VolumeTyped DEF TypeOK, Holders
<1>3. /\ ~records[m].released /\ records[m].bonus = 0
      /\ records[m].player_b # NoAddress
      /\ records[m].total_locked = 2 * records[m].amount_each
      /\ records[m].amount_each \in Nat
  BY <1>1, <1>2
  DEF Agree, VaultAgrees, SeatsAgree, Closed, Played, Decided, DepositRecord
<1>4. VaultOutflow(m, winner) = 2 * records[m].amount_each + fly
  <2>1. CASE winner = "Draw"
    BY <1>2, <1>3, <2>1 DEF VaultOutflow, DrawPayout
  <2>2. CASE winner # "Draw"
    <3>1. VaultOutflow(m, winner) = Bonused(m).total_locked
      BY <2>2 DEF VaultOutflow
    <3>2. CASE fly > 0
      BY <1>2, <1>3, <3>1, <3>2 DEF Bonused, AfterBonus, DepositRecord
    <3>3. CASE fly = 0
      BY <1>2, <1>3, <3>1, <3>3 DEF Bonused
    <3> QED BY <1>2, <3>2, <3>3
  <2> QED BY <2>1, <2>2
<1>5. ASSUME NEW n \in MatchIds PROVE Owing[n] >= 0
  <2>1. records[n] \in DepositRecord /\ VaultAgrees(n) /\ (Exists(n) => matches[n] \in Match)
    BY <1>1, MatchTyped DEF ContractsAgree, Agree
  <2>2. CASE records[n].released
    BY <2>2 DEF Owing, Outstanding
  <2>3. CASE ~records[n].released
    <3>1. \/ ~Exists(n)
          \/ matches[n].state = "Open"
          \/ Played(n)
      BY <2>1, <2>3 DEF VaultAgrees, Closed, Match, MatchState, Played
    <3>2. records[n].total_locked >= 0
      BY <2>1, <3>1 DEF VaultAgrees, DepositRecord
    <3> QED BY <2>3, <3>2 DEF Owing, Outstanding
  <2> QED BY <2>2, <2>3
<1>6. Owing[m] <= balance[EscrowAddr]
  BY <1>1, <1>5, OwingTyped, SumCovers DEF MoneyInv, VaultHolds
<1>7. Owing[m] = 2 * records[m].amount_each
  BY <1>3 DEF Owing, Outstanding
<1> QED BY <1>2, <1>3, <1>4, <1>6, <1>7

\* The fees and the sweep of a market come out of its own volume, which the
\* pool still holds in full.
LEMMA PoolFunds ==
  ASSUME MoneyInv, NEW m \in MatchIds, NEW winner \in Outcome, Decided(m)
  PROVE  balance[PoolAddr] >= PoolOutflow(m, winner)
<1>1. PICK kept \in [MatchIds -> Int] :
        /\ balance[PoolAddr] = SumOf(kept, MatchIds)
        /\ \A n \in MatchIds : Keeps(n, kept[n])
  BY DEF MoneyInv, PoolHolds
<1>2. ASSUME NEW n \in MatchIds
      PROVE  /\ TypeOK /\ MarketAgrees(n) /\ BucketsCount(n) /\ StakesTyped(n)
  BY StakesWellTyped DEF MoneyInv, IInv, ContractsAgree, Agree
<1>3. ASSUME NEW n \in MatchIds PROVE kept[n] >= 0
  <2>1. CASE ~markets[n].settled
    BY <1>1, <1>2, <2>1 DEF Keeps, StakesTyped, Market
  <2>2. CASE markets[n].settled
    <3>1. /\ markets[n].result \in Outcome /\ Weights(Claims(n), Accounts)
          /\ Owes(n) \in Int
      BY <1>2, <2>2, ClaimsTyped
    <3>2. ASSUME NEW t \in Accounts PROVE Claims(n)[t] >= 0
      <4> DEFINE o == markets[n].result
      <4>0. /\ positions[n][t][o] \in Nat /\ markets[n].pool[o] \in Nat
            /\ markets[n].total_volume \in Nat
        BY <1>2, <3>1 DEF StakesTyped, Market
      <4>1. PICK x \in Nat, w \in Nat, p \in Nat :
              /\ x = positions[n][t][o] /\ w = markets[n].pool[o]
              /\ p = NetPool(markets[n].total_volume)
        BY <4>0, FeeBounds
      <4>2. x > 0 => w > 0
        BY <1>2, <3>1, <4>1 DEF BucketsCount
      <4>3. x > 0 => (x * p) \div w \in Nat
        BY <4>2, ShareTyped
      <4> QED BY <4>1, <4>3 DEF Claims, Payout
    <3>3. Owes(n) >= 0
      BY <3>1, <3>2, SumNotNegative DEF Owes
    <3> QED BY <1>1, <2>2, <3>1, <3>3 DEF Keeps
  <2> QED BY <2>1, <2>2
<1>4. Weights(kept, MatchIds)
  BY MatchIdsFinite DEF Weights
<1>5. kept[m] <= balance[PoolAddr]
  BY <1>1, <1>3, <1>4, SumCovers
<1>6. ~markets[m].settled /\ kept[m] = Volume(m) /\ Volume(m) \in Nat
  BY <1>1, <1>2, VolumeTyped DEF MarketAgrees, Decided, Keeps, Volume
<1>7. PoolOutflow(m, winner) <= Volume(m)
  <2>1. PICK v \in Nat : v = Volume(m)
    BY <1>6
  <2>2. /\ FeeTreasury(v) \in Nat /\ FeeFlywheel(v) \in Nat /\ NetPool(v) \in Nat
        /\ FeeTreasury(v) + FeeFlywheel(v) + NetPool(v) <= v
    BY FeeBounds
  <2> QED BY <2>1, <2>2 DEF PoolOutflow, Sweep, Volume
<1>8. balance[PoolAddr] \in Int /\ PoolOutflow(m, winner) \in Int
  BY <1>2, VolumeTyped DEF TypeOK, Holders
<1> QED BY <1>5, <1>6, <1>7, <1>8

\* Once a result is in, the cascade can run for every verdict: no check and no
\* shortfall of a token account can freeze the stakes.
THEOREM CascadeNeverSticks == Spec => []CascadeNeverStuck
<1>1. MoneyInv => CascadeNeverStuck
  BY ChecksFromAgreement, VaultFunds, PoolFunds
  DEF MoneyInv, ChecksPass, CascadeNeverStuck, CanCascade, CascadeFunded
<1> QED BY <1>1, MoneyAlways, PTL
-----------------------------------------------------------------------------
(* The contracts implement the wager *)

\* What the wager map says of a match while its contracts agree.
LEMMA WagerSays ==
  ASSUME TypeOK, NEW m \in MatchIds, Agree(m)
  PROVE  /\ WagerOf(m).phase = PhaseOf(matches[m].state)
         /\ WagerOf(m).first = matches[m].player_a
         /\ WagerOf(m).second = matches[m].player_b
         /\ WagerOf(m).stake = matches[m].bet_amount
         /\ WagerOf(m).verdict = VerdictOf(m)
         /\ matches[m].state \in MatchState \cup {"Absent"}
         /\ ~Exists(m) => WagerOf(m) = Promise!NoWager
         /\ ~Decided(m) /\ ~markets[m].settled => VerdictOf(m) = "None"
<1>1. matches[m].state \in MatchState \cup {"Absent"} /\ (~Exists(m) => matches[m] = NoMatch)
  BY MatchTyped DEF Match, NoMatch
<1>2. ~Decided(m) /\ ~markets[m].settled => VerdictOf(m) = "None"
  BY DEF Agree, ResultAgrees, HasPending, VerdictOf
<1>3. ~Exists(m) => ~Decided(m) /\ ~markets[m].settled
  BY DEF Exists, Decided, Agree, MarketAgrees
<1>4. ~Exists(m) => WagerOf(m) = Promise!NoWager
  BY <1>1, <1>2, <1>3 DEF WagerOf, PhaseOf, NoMatch, Exists, Promise!NoWager
<1> QED BY <1>1, <1>2, <1>4 DEF WagerOf

\* What the wager of match n is read off stays as it is.
SameWager(n) ==
  /\ matches'[n] = matches[n]
  /\ markets'[n].settled = markets[n].settled
  /\ markets'[n].result = markets[n].result
  /\ pendingResults'[n].winner = pendingResults[n].winner

\* A wager that nothing is done about stays as it is.
LEMMA WagerFrame ==
  ASSUME NEW n \in MatchIds, SameWager(n)
  PROVE  WagerOf(n)' = WagerOf(n)
  BY DEF SameWager, WagerOf, VerdictOf

\* One wager changes, or none does.
LEMMA WagerChanges ==
  ASSUME NEW i \in MatchIds, NEW w, w = WagerOf(i)',
         \A n \in MatchIds \ {i} : SameWager(n)
  PROVE  Wagers' = [Wagers EXCEPT ![i] = w] /\ Wagers'[i] = w /\ Wagers[i] = WagerOf(i)
<1>1. PICK new : new = Wagers'
  OBVIOUS
<1>2. \A n \in MatchIds : new[n] = WagerOf(n)' /\ Wagers[n] = WagerOf(n)
  BY <1>1 DEF Wagers
<1>3. \A n \in MatchIds \ {i} : WagerOf(n)' = WagerOf(n)
  BY WagerFrame
<1>4. new = [n \in MatchIds |-> new[n]] /\ Wagers = [n \in MatchIds |-> Wagers[n]]
  BY <1>1, <1>2 DEF Wagers
<1>5. new[i] = w /\ \A n \in MatchIds \ {i} : new[n] = Wagers[n]
  BY <1>2, <1>3
<1>6. new = [Wagers EXCEPT ![i] = w]
  BY <1>4, <1>5
<1> QED BY <1>1, <1>2, <1>5, <1>6

\* So do they all.
LEMMA WagersStay ==
  ASSUME \A n \in MatchIds : SameWager(n)
  PROVE  Wagers' = Wagers
<1>1. PICK new : new = Wagers'
  OBVIOUS
<1>2. \A n \in MatchIds : new[n] = WagerOf(n)' /\ Wagers[n] = WagerOf(n)
  BY <1>1 DEF Wagers
<1>3. \A n \in MatchIds : WagerOf(n)' = WagerOf(n)
  BY WagerFrame
<1>4. new = [n \in MatchIds |-> new[n]] /\ Wagers = [n \in MatchIds |-> Wagers[n]]
  BY <1>1, <1>2 DEF Wagers
<1>5. \A n \in MatchIds : new[n] = Wagers[n]
  BY <1>2, <1>3
<1> QED BY <1>1, <1>4, <1>5

\* A payment between a wallet and an account that is none.
LEMMA WalletMoves ==
  ASSUME TypeOK, NEW a \in Accounts, NEW c \in Holders \ Accounts, NEW amount \in Int
  PROVE  /\ transfer(a, c, amount) => Wallets' = [Wallets EXCEPT ![a] = @ + (-amount)]
         /\ transfer(c, a, amount) => Wallets' = [Wallets EXCEPT ![a] = @ + amount]
<1>1. /\ balance \in [Holders -> Nat] /\ a \in Holders /\ c \in Holders
      /\ \A u \in Accounts : u \in Holders /\ u # c
  BY DEF TypeOK, Holders
<1> QED BY <1>1 DEF transfer, Moved, Wallets

\* Match i's wager, but for its phase and its verdict.
Told(i, q, v) ==
  [phase |-> q, first |-> matches[i].player_a, second |-> matches[i].player_b,
   stake |-> matches[i].bet_amount, verdict |-> v]

\* create_match offers a wager,
LEMMA CreateOffers ==
  ASSUME IInv, NEW a \in Accounts, NEW bet \in BetAmounts, NEW tc \in TimeControls,
         CreateMatch(a, bet, tc)
  PROVE  \E i \in MatchIds : Promise!Offer(i, a)
<1>1. PICK i \in MatchIds : i = matchCounter + 1
  BY MatchAssumption DEF IInv, TypeOK, RegistryTypeOK, CreateMatch, create_match, MatchIds
<1>2. /\ TypeOK /\ Agree(i) /\ ~Exists(i) /\ ~Decided(i) /\ ~markets[i].settled
  BY <1>1 DEF IInv, ContractsAgree, Agree, SeatsAgree, MarketAgrees, TypeOK, RegistryTypeOK,
              Exists, Decided
<1>3. /\ bet \in Int /\ bet > 0
      /\ matches' = [matches EXCEPT ![i] = [player_a |-> a, player_b |-> NoAddress,
                                            bet_amount |-> bet, state |-> "Open"]]
      /\ transfer(a, EscrowAddr, bet)
      /\ UNCHANGED <<markets, positions, pendingResults>>
  BY <1>1, MinBetAssumption, BetAssumption
  DEF CreateMatch, create_match, poolVars, settlementVars
<1>4. matches \in [MatchIds -> Match \cup {NoMatch}]
  BY <1>2 DEF TypeOK, RegistryTypeOK
<1>5. VerdictOf(i) = "None" /\ WagerOf(i) = Promise!NoWager
  BY <1>2, WagerSays
<1>6. PICK w : w = WagerOf(i)'
  OBVIOUS
<1>7. w = [phase |-> "offered", first |-> a, second |-> NoAddress,
           stake |-> bet, verdict |-> "None"]
  BY <1>3, <1>4, <1>5, <1>6 DEF WagerOf, VerdictOf, PhaseOf
<1>8. \A n \in MatchIds \ {i} : SameWager(n)
  BY <1>3, <1>4 DEF SameWager
<1>9. Wagers' = [Wagers EXCEPT ![i] = w] /\ Wagers'[i] = w /\ Wagers[i] = WagerOf(i)
  BY <1>6, <1>8, WagerChanges
<1>10. Wallets' = [Wallets EXCEPT ![a] = @ + (-bet)]
  BY <1>2, <1>3, WalletMoves, AddressAssumption DEF Holders
<1>11. w.stake = bet
  BY <1>7
<1>12. Wagers[i].phase = "none"
  BY <1>5, <1>9 DEF Promise!NoWager
<1>13. Promise!Offer(i, a)
  BY <1>3, <1>7, <1>9, <1>10, <1>11, <1>12 DEF Promise!Offer, Promise!Changes
<1> QED BY <1>13

\* join_match accepts it,
LEMMA JoinAccepts ==
  ASSUME IInv, NEW i \in MatchIds, NEW b \in Accounts, JoinMatch(i, b)
  PROVE  Promise!Accept(i, b)
<1>1. /\ TypeOK /\ Agree(i) /\ MarketAgrees(i) /\ matches[i].state = "Open"
      /\ matches[i] \in Match
  BY MatchTyped DEF IInv, ContractsAgree, Agree, JoinMatch, join_match, Exists
<1>2. /\ matches[i].player_a # b /\ matches[i].bet_amount \in Int
      /\ matches' = [matches EXCEPT ![i].player_b = b, ![i].state = "Active"]
      /\ transfer(b, EscrowAddr, matches[i].bet_amount)
      /\ markets' = [markets EXCEPT ![i] = [NoMarket EXCEPT !.opened = TRUE]]
      /\ UNCHANGED <<positions, pendingResults>>
  BY <1>1 DEF JoinMatch, join_match, open_market, settlementVars, Match
<1>3. /\ matches \in [MatchIds -> Match \cup {NoMatch}]
      /\ markets \in [MatchIds -> Market]
  BY <1>1 DEF TypeOK, RegistryTypeOK, PoolTypeOK
<1>4. ~markets[i].settled /\ markets'[i].settled = FALSE
  BY <1>1, <1>2, <1>3 DEF MarketAgrees, NoMarket
<1>5. PICK w : w = WagerOf(i)'
  OBVIOUS
<1>6. w = [WagerOf(i) EXCEPT !.phase = "on", !.second = b]
  BY <1>1, <1>2, <1>3, <1>4, <1>5 DEF WagerOf, VerdictOf, PhaseOf, Match
<1>7. \A n \in MatchIds \ {i} : SameWager(n)
  BY <1>2, <1>3 DEF SameWager
<1>8. Wagers' = [Wagers EXCEPT ![i] = w] /\ Wagers[i] = WagerOf(i)
  BY <1>5, <1>7, WagerChanges
<1>9. /\ Wagers[i].phase = "offered" /\ Wagers[i].first = matches[i].player_a
      /\ Wagers[i].stake = matches[i].bet_amount
  BY <1>1, <1>8 DEF WagerOf, PhaseOf
<1>10. Wallets' = [Wallets EXCEPT ![b] = @ + (-(Wagers[i].stake))]
  BY <1>1, <1>2, <1>9, WalletMoves, AddressAssumption DEF Holders
<1>11. Wagers' = [Wagers EXCEPT ![i].phase = "on", ![i].second = b]
  BY <1>6, <1>8
<1> QED BY <1>2, <1>9, <1>10, <1>11 DEF Promise!Accept, Promise!Changes

\* cancel_match withdraws it,
LEMMA CancelWithdraws ==
  ASSUME IInv, NEW i \in MatchIds, NEW a \in Accounts, CancelMatch(i, a)
  PROVE  Promise!Withdraw(i)
<1>1. /\ TypeOK /\ matches[i].state = "Open" /\ matches[i].player_a = a
      /\ matches[i] \in Match /\ matches[i].bet_amount \in Int
      /\ matches' = [matches EXCEPT ![i].state = "Cancelled"]
      /\ transfer(EscrowAddr, a, matches[i].bet_amount)
      /\ UNCHANGED <<markets, positions, pendingResults>>
  BY MatchTyped
  DEF IInv, CancelMatch, cancel_match, Enter, Exists, Match, poolVars, settlementVars
<1>2. matches \in [MatchIds -> Match \cup {NoMatch}]
  BY <1>1 DEF TypeOK, RegistryTypeOK
<1>3. PICK w : w = WagerOf(i)'
  OBVIOUS
<1>4. w = [WagerOf(i) EXCEPT !.phase = "over"]
  BY <1>1, <1>2, <1>3 DEF WagerOf, VerdictOf, PhaseOf, Match
<1>5. \A n \in MatchIds \ {i} : SameWager(n)
  BY <1>1, <1>2 DEF SameWager
<1>6. Wagers' = [Wagers EXCEPT ![i] = w] /\ Wagers[i] = WagerOf(i)
  BY <1>3, <1>5, WagerChanges
<1>7. /\ Wagers[i].phase = "offered" /\ Wagers[i].first = a
      /\ Wagers[i].stake = matches[i].bet_amount
  BY <1>1, <1>6 DEF WagerOf, PhaseOf
<1>8. Wallets' = [Wallets EXCEPT ![a] = @ + Wagers[i].stake]
  BY <1>1, <1>7, WalletMoves, AddressAssumption DEF Holders
<1>9. Wagers' = [Wagers EXCEPT ![i].phase = "over"]
  BY <1>4, <1>6
<1> QED BY <1>1, <1>7, <1>8, <1>9 DEF Promise!Withdraw, Promise!Changes

\* post_result reports on it,
LEMMA PostReports ==
  ASSUME IInv, NEW i \in MatchIds, NEW v \in Outcome, PostResult(i, v)
  PROVE  Promise!Report(i, v)
<1>1. /\ TypeOK /\ MarketAgrees(i) /\ matches[i].state = "Active" /\ matches[i] \in Match
      /\ matches' = [matches EXCEPT ![i].state = "PendingFinalization"]
      /\ pendingResults' = [pendingResults EXCEPT ![i] = [winner |-> v, age |-> 0]]
      /\ UNCHANGED <<markets, positions, balance>>
  BY MatchTyped
  DEF IInv, ContractsAgree, Agree, PostResult, set_pending_finalization, RecordResult, Enter,
      Exists, poolVars
<1>2. /\ matches \in [MatchIds -> Match \cup {NoMatch}]
      /\ pendingResults'[i] = [winner |-> v, age |-> 0]
      /\ \A n \in MatchIds \ {i} : pendingResults'[n] = pendingResults[n]
  BY <1>1 DEF TypeOK, RegistryTypeOK, SettlementTypeOK
<1>3. ~markets[i].settled
  BY <1>1 DEF MarketAgrees
<1>4. PICK w : w = WagerOf(i)'
  OBVIOUS
<1>5. w = [WagerOf(i) EXCEPT !.phase = "reported", !.verdict = v]
  <2>1. w = Told(i, "reported", v)
    <3>1. VerdictOf(i)' = v
      BY <1>1, <1>2, <1>3 DEF VerdictOf
    <3>2. /\ matches'[i].state = "PendingFinalization"
          /\ matches'[i].player_a = matches[i].player_a
          /\ matches'[i].player_b = matches[i].player_b
          /\ matches'[i].bet_amount = matches[i].bet_amount
      BY <1>1, <1>2 DEF Match
    <3> QED BY <1>4, <3>1, <3>2 DEF WagerOf, PhaseOf, Told
  <2>2. PICK x : x = [WagerOf(i) EXCEPT !.phase = "reported"]
    OBVIOUS
  <2>3. x = Told(i, "reported", VerdictOf(i))
    BY <2>2 DEF WagerOf, Told
  <2>4. w = [x EXCEPT !.verdict = v]
    BY <2>1, <2>3 DEF Told
  <2> QED BY <2>2, <2>4
<1>6. \A n \in MatchIds \ {i} : SameWager(n)
  BY <1>1, <1>2 DEF SameWager
<1>7. Wagers' = [Wagers EXCEPT ![i] = w] /\ Wagers[i] = WagerOf(i)
  BY <1>4, <1>6, WagerChanges
<1>8. Wagers[i].phase = "on"
  BY <1>1, <1>7 DEF WagerOf, PhaseOf
<1>9. Wagers' = [Wagers EXCEPT ![i].phase = "reported", ![i].verdict = v]
  BY <1>5, <1>7
<1>10. Wallets' = Wallets
  BY <1>1 DEF Wallets
<1> QED BY <1>1, <1>8, <1>9, <1>10 DEF Promise!Report

\* open_dispute contests the report,
LEMMA DisputeContests ==
  ASSUME IInv, NEW i \in MatchIds, NEW who \in Accounts, OpenDispute(i, who)
  PROVE  Promise!Contest(i)
<1>1. /\ TypeOK /\ matches[i].state = "PendingFinalization" /\ matches[i] \in Match
      /\ matches' = [matches EXCEPT ![i].state = "Disputed"]
      /\ UNCHANGED <<pendingResults, markets, positions, balance>>
  BY MatchTyped
  DEF IInv, OpenDispute, Disputable, set_disputed, RecordDispute, Enter, Exists, poolVars
<1>2. matches \in [MatchIds -> Match \cup {NoMatch}]
  BY <1>1 DEF TypeOK, RegistryTypeOK
<1>3. PICK w : w = WagerOf(i)'
  OBVIOUS
<1>4. w = [WagerOf(i) EXCEPT !.phase = "contested"]
  BY <1>1, <1>2, <1>3 DEF WagerOf, VerdictOf, PhaseOf, Match
<1>5. \A n \in MatchIds \ {i} : SameWager(n)
  BY <1>1, <1>2 DEF SameWager
<1>6. Wagers' = [Wagers EXCEPT ![i] = w] /\ Wagers[i] = WagerOf(i)
  BY <1>3, <1>5, WagerChanges
<1>7. Wagers[i].phase = "reported"
  BY <1>1, <1>6 DEF WagerOf, PhaseOf
<1>8. Wagers' = [Wagers EXCEPT ![i].phase = "contested"]
  BY <1>4, <1>6
<1>9. Wallets' = Wallets
  BY <1>1 DEF Wallets
<1> QED BY <1>1, <1>7, <1>8, <1>9 DEF Promise!Contest

\* buy_outcome bets on it,
LEMMA BuyBets ==
  ASSUME IInv, NEW i \in MatchIds, NEW t \in Accounts, NEW o \in Outcome,
         NEW amount \in TradeAmounts, BuyOutcome(i, t, o, amount)
  PROVE  Promise!Bet(i, t, o)
<1>1. /\ TypeOK /\ MarketAgrees(i) /\ markets[i].opened /\ ~markets[i].settled
      /\ amount \in Int /\ amount > 0
      /\ markets' = [markets EXCEPT ![i].pool[o] = @ + amount, ![i].total_volume = @ + amount]
      /\ positions' = [positions EXCEPT ![i][t][o] = @ + amount]
      /\ transfer(t, PoolAddr, amount)
      /\ UNCHANGED <<matches, pendingResults>>
  BY TradeAssumption, MinBetAssumption
  DEF IInv, ContractsAgree, Agree, BuyOutcome, buy_outcome, registryVars, settlementVars
<1>2. /\ markets \in [MatchIds -> Market]
      /\ positions \in [MatchIds -> [Accounts -> [Outcome -> Nat]]]
  BY <1>1 DEF TypeOK, PoolTypeOK
<1>3. \A n \in MatchIds :
        markets'[n].settled = markets[n].settled /\ markets'[n].result = markets[n].result
  BY <1>1, <1>2 DEF Market
<1>4. Wagers' = Wagers
  BY <1>1, <1>3, WagersStay DEF SameWager
<1>5. Wallets' = [Wallets EXCEPT ![t] = @ + (-amount)]
  BY <1>1, WalletMoves, AddressAssumption DEF Holders
<1>6. positions'[i][t][o] - positions[i][t][o] = amount
  BY <1>1, <1>2
<1>7. positions' = [positions EXCEPT ![i][t][o] = positions'[i][t][o]]
  BY <1>1, <1>2
<1>8. Wagers[i].phase \in {"on", "reported", "contested"}
  BY <1>1 DEF Wagers, WagerOf, PhaseOf, MarketAgrees, Played
<1> QED BY <1>1, <1>4, <1>5, <1>6, <1>7, <1>8 DEF Promise!Bet, Promise!Changes

\* A share of the net pool is at least 97% of the bet, since no bucket exceeds
\* the volume and the fees are rounded down.
LEMMA ShareKept ==
  ASSUME NEW x \in Nat, NEW w \in Nat, w > 0, NEW v \in Nat, w <= v
  PROVE  /\ (x * 97) \div 100 \in Nat /\ (x * NetPool(v)) \div w \in Nat
         /\ (x * 97) \div 100 <= (x * NetPool(v)) \div w
<1>1. PICK q \in Nat : q = (x * 97) \div 100 /\ 100 * q <= 97 * x
  OBVIOUS
<1>2. PICK n \in Nat : n = NetPool(v) /\ 97 * v <= 100 * n
  BY DEF NetPool
<1>3. PICK p \in Nat, d \in Nat : p = x * n /\ d = p \div w /\ p < w * d + w
  <2>1. x * n \in Nat
    OBVIOUS
  <2> QED BY <2>1, DivBounds
<1>4. w * (100 * q) <= w * (97 * x)
  BY <1>1, Scale
<1>5. x * (97 * w) <= x * (100 * n)
  BY <1>2, Scale
<1>6. w * q <= p
  <2>1. PICK a \in Int, b \in Int : a = w * q /\ b = w * x
    OBVIOUS
  <2>2. w * (100 * q) = 100 * a /\ w * (97 * x) = 97 * b
    BY <2>1
  <2>3. x * (97 * w) = 97 * b /\ x * (100 * n) = 100 * p
    BY <1>3, <2>1
  <2> QED BY <1>3, <1>4, <1>5, <2>1, <2>2, <2>3
<1>7. q <= d
  <2>1. SUFFICES ASSUME d + 1 <= q PROVE FALSE
    OBVIOUS
  <2>2. w * (d + 1) <= w * q
    BY <2>1, Scale
  <2>3. w * (d + 1) = w * d + w
    OBVIOUS
  <2> QED BY <1>3, <1>6, <2>2, <2>3
<1> QED BY <1>1, <1>2, <1>3, <1>7

\* and a payment collects a bet.
LEMMA PaymentCollects ==
  ASSUME IInv, NEW i \in MatchIds, BucketsCount(i), NEW t \in Accounts, NEW o \in Outcome,
         PayTrader(i, t, o)
  PROVE  Promise!Collect(i, t)
<1>1. /\ TypeOK /\ MarketAgrees(i) /\ markets[i].settled /\ markets[i].result = o
      /\ positions[i][t][o] # 0 /\ markets[i].pool[o] # 0
      /\ positions' = [positions EXCEPT ![i][t][o] = 0]
      /\ transfer(PoolAddr, t, Payout(i, t, o))
      /\ UNCHANGED <<matches, markets, pendingResults>>
  BY DEF IInv, ContractsAgree, Agree, PayTrader, pay_trader, registryVars, settlementVars
<1>2. /\ markets[i] \in Market
      /\ positions \in [MatchIds -> [Accounts -> [Outcome -> Nat]]]
  BY <1>1 DEF TypeOK, PoolTypeOK
<1>3. PICK x \in Nat, w \in Nat, v \in Nat :
        /\ x = positions[i][t][o] /\ w = markets[i].pool[o] /\ v = markets[i].total_volume
        /\ w > 0 /\ w <= v
  BY <1>1, <1>2 DEF Market, BucketsCount
<1>4. PICK paid \in Int : paid = Payout(i, t, o) /\ Promise!Kept(x) <= paid
                          /\ Promise!Kept(x) \in Int
  <2>1. Payout(i, t, o) = (x * NetPool(v)) \div w /\ Promise!Kept(x) = (x * 97) \div 100
    BY <1>3 DEF Payout, Promise!Kept
  <2>2. /\ (x * 97) \div 100 \in Nat /\ (x * NetPool(v)) \div w \in Nat
        /\ (x * 97) \div 100 <= (x * NetPool(v)) \div w
    BY <1>3, ShareKept
  <2> QED BY <2>1, <2>2
<1>5. Wagers' = Wagers
  BY <1>1, WagersStay DEF SameWager
<1>6. Wagers[i].verdict = o /\ Wagers[i].phase = "over"
  BY <1>1 DEF Wagers, WagerOf, VerdictOf, PhaseOf, MarketAgrees
<1>7. Wallets' = [Wallets EXCEPT ![t] = @ + paid]
  BY <1>1, <1>4, WalletMoves, AddressAssumption DEF Holders
<1>8. Wallets[t] \in Int /\ Wallets'[t] = Wallets[t] + paid
  BY <1>1, <1>7 DEF Wallets, TypeOK, Holders
<1>9. Promise!GainsAtLeast(t, Promise!Kept(x))
  <2>1. Wallets'[t] >= Wallets[t] + Promise!Kept(x)
    BY <1>4, <1>8
  <2>2. Wallets' = [Wallets EXCEPT ![t] = Wallets'[t]]
    BY <1>7, <1>8
  <2> QED BY <2>1, <2>2 DEF Promise!GainsAtLeast
<1>10. positions[i][t][o] > 0
  BY <1>1, <1>2
<1> QED BY <1>1, <1>3, <1>5, <1>6, <1>9, <1>10 DEF Promise!Collect
-----------------------------------------------------------------------------
\* A payment out of an account that is no wallet reaches one wallet at most.
LEMMA MovedApart ==
  ASSUME NEW bal, DOMAIN bal = Holders, NEW from \in Holders \ Accounts,
         NEW to \in Holders \ {from}, NEW amount
  PROVE  /\ DOMAIN Moved(bal, from, to, amount) = Holders
         /\ \A u \in Accounts :
              Moved(bal, from, to, amount)[u] = IF u = to THEN bal[u] + amount ELSE bal[u]
<1>1. \A u \in Accounts : u \in Holders /\ u # from
  BY DEF Holders
<1> QED BY <1>1 DEF Moved

\* What a cascade pays into the wallets.
LEMMA CascadeWallets ==
  ASSUME IInv, NEW m \in MatchIds, NEW winner \in Outcome, Cascade(m, winner), NEW u \in Accounts
  PROVE  LET a == matches[m].player_a
             b == matches[m].player_b
         IN  /\ winner = "PlayerA" =>
                  balance'[u] = IF u = a THEN balance[u] + Prize(m) ELSE balance[u]
             /\ winner = "PlayerB" =>
                  balance'[u] = IF u = b THEN balance[u] + Prize(m) ELSE balance[u]
             /\ winner = "Draw" =>
                  balance'[u] = IF u \in {a, b} THEN balance[u] + matches[m].bet_amount
                                ELSE balance[u]
<1> DEFINE paid == PoolPaid(m, winner)
           r    == Bonused(m)
<1>1. /\ TypeOK /\ Agree(m) /\ Decided(m) /\ balance' = PlayersPaid(m, winner)
      /\ matches[m] \in Match /\ records[m] \in DepositRecord
  BY MatchTyped
  DEF IInv, ContractsAgree, Cascade, CanCascade, CascadeChecks, CanComplete, Decided, Exists,
      TypeOK, EscrowTypeOK
<1>2. /\ matches[m].player_a \in Accounts /\ matches[m].player_b \in Accounts
      /\ matches[m].player_a # matches[m].player_b
  BY <1>1 DEF Match, Agree, SeatsAgree, Played, Decided, Exists
<1>3. /\ r.player_a = matches[m].player_a /\ r.player_b = matches[m].player_b
      /\ r.amount_each = matches[m].bet_amount
  BY <1>1 DEF Bonused, AfterBonus, DepositRecord, Agree, VaultAgrees
<1>4. /\ EscrowAddr \in Holders \ Accounts /\ PoolAddr \in Holders \ Accounts
      /\ TreasuryAddr \in Holders \ {EscrowAddr, PoolAddr}
      /\ TreasuryAddr \notin Accounts /\ EscrowAddr # PoolAddr
      /\ \A c \in Accounts : c \in Holders \ {EscrowAddr, PoolAddr}
      /\ DOMAIN balance = Holders
  BY <1>1, AddressAssumption DEF Holders, TypeOK
<1>5. DOMAIN paid = Holders /\ paid[u] = balance[u]
  <2> DEFINE fees == FeeTreasury(Volume(m)) + Sweep(m, winner)
             once == Moved(balance, PoolAddr, TreasuryAddr, fees)
  <2>1. paid = Moved(once, PoolAddr, EscrowAddr, FeeFlywheel(Volume(m)))
    BY DEF PoolPaid
  <2>2. DOMAIN once = Holders /\ once[u] = balance[u]
    BY <1>4, MovedApart
  <2> HIDE DEF once, paid
  <2> QED BY <1>4, <2>1, <2>2, MovedApart
<1>6. ASSUME NEW to \in Accounts, NEW fee,
             balance' = Moved(Moved(paid, EscrowAddr, to, Prize(m)), EscrowAddr, TreasuryAddr, fee)
      PROVE  balance'[u] = IF u = to THEN balance[u] + Prize(m) ELSE balance[u]
  <2>1. PICK won : won = Moved(paid, EscrowAddr, to, Prize(m))
    OBVIOUS
  <2> HIDE DEF paid
  <2>2. DOMAIN won = Holders /\ won[u] = IF u = to THEN balance[u] + Prize(m) ELSE balance[u]
    BY <1>4, <1>5, <2>1, MovedApart
  <2> QED BY <1>4, <1>6, <2>1, <2>2, MovedApart
<1>7. CASE winner = "PlayerA"
  <2>1. balance' = Moved(Moved(paid, EscrowAddr, matches[m].player_a, Prize(m)),
                         EscrowAddr, TreasuryAddr, r.total_locked - Prize(m))
    BY <1>1, <1>7 DEF PlayersPaid
  <2> HIDE DEF paid, r
  <2> QED BY <1>2, <1>6, <1>7, <2>1
<1>8. CASE winner = "PlayerB"
  <2>1. balance' = Moved(Moved(paid, EscrowAddr, matches[m].player_b, Prize(m)),
                         EscrowAddr, TreasuryAddr, r.total_locked - Prize(m))
    BY <1>1, <1>8 DEF PlayersPaid
  <2> HIDE DEF paid, r
  <2> QED BY <1>2, <1>6, <1>8, <2>1
<1>9. CASE winner = "Draw"
  <2> DEFINE a     == matches[m].player_a
             b     == matches[m].player_b
             share == matches[m].bet_amount
             toA   == Moved(paid, EscrowAddr, a, share)
             toB   == Moved(toA, EscrowAddr, b, share)
  <2>0. r.player_b # NoAddress
    BY <1>2, <1>3, AddressAssumption DEF Holders
  <2>1. balance' = Moved(toB, EscrowAddr, TreasuryAddr, r.bonus)
    <3> HIDE DEF r
    <3> QED BY <1>1, <1>3, <1>9, <2>0 DEF PlayersPaid, r
  <2> HIDE DEF paid, r
  <2>2. DOMAIN toA = Holders /\ toA[u] = IF u = a THEN balance[u] + share ELSE balance[u]
    BY <1>2, <1>4, <1>5, MovedApart
  <2> HIDE DEF toA
  <2>3. DOMAIN toB = Holders /\ toB[u] = IF u = b THEN toA[u] + share ELSE toA[u]
    BY <1>2, <1>4, <2>2, MovedApart
  <2> HIDE DEF toB
  <2>4. balance'[u] = toB[u]
    BY <1>4, <2>1, <2>3, MovedApart
  <2> QED BY <1>2, <1>9, <2>2, <2>3, <2>4
<1> QED BY <1>7, <1>8, <1>9 DEF Outcome

\* The prize is at least 97% of both stakes.
LEMMA PrizeKept ==
  ASSUME NEW bet \in Nat, NEW v \in Nat
  PROVE  /\ PlayerPrize(bet, v) \in Int /\ Promise!Kept(2 * bet) \in Int
         /\ Promise!Kept(2 * bet) <= PlayerPrize(bet, v)
<1>1. PICK f \in Nat : f = FeeFlywheel(v)
  BY FeeBounds
<1> QED BY <1>1 DEF PlayerPrize, PlayerPool, Promise!Kept

\* A cascade ends the wager, and pays the players as the verdict says.
LEMMA CascadeEnds ==
  ASSUME IInv, NEW i \in MatchIds, NEW winner \in Outcome, Cascade(i, winner),
         matches[i].state = "PendingFinalization" => winner = pendingResults[i].winner
  PROVE  Promise!End(i, winner)
<1>1. /\ TypeOK /\ Agree(i) /\ MarketAgrees(i) /\ Decided(i)
      /\ matches[i] \in Match /\ markets[i] \in Market
      /\ matches' = [matches EXCEPT ![i].state = "Completed"]
      /\ markets' = [markets EXCEPT ![i].settled = TRUE, ![i].result = winner]
      /\ pendingResults' = [pendingResults EXCEPT ![i] = NoResult]
      /\ UNCHANGED positions
  BY MatchTyped
  DEF IInv, ContractsAgree, Agree, Cascade, CanCascade, CascadeChecks, CanComplete, Decided,
      Exists, settle, complete_match, Enter, ClearResult
<1>2. /\ matches \in [MatchIds -> Match \cup {NoMatch}]
      /\ markets \in [MatchIds -> Market]
      /\ pendingResults \in [MatchIds -> [winner : Outcome \cup {"None"}, age : 0 .. MaxWindow]]
      /\ balance \in [Holders -> Nat]
  BY <1>1 DEF TypeOK, RegistryTypeOK, PoolTypeOK, SettlementTypeOK
<1>3. /\ matches[i].player_a \in Accounts /\ matches[i].player_b \in Accounts
      /\ matches[i].player_a # matches[i].player_b /\ matches[i].bet_amount \in Nat
  BY <1>1 DEF Match, Agree, SeatsAgree, Played, Decided, Exists
<1>4. ~markets[i].settled
  BY <1>1 DEF MarketAgrees, Decided
<1>5. PICK w : w = WagerOf(i)'
  OBVIOUS
<1>6. w = Told(i, "over", winner)
  <2>1. VerdictOf(i)' = winner
    BY <1>1, <1>2 DEF VerdictOf, Market
  <2>2. /\ matches'[i].state = "Completed"
        /\ matches'[i].player_a = matches[i].player_a
        /\ matches'[i].player_b = matches[i].player_b
        /\ matches'[i].bet_amount = matches[i].bet_amount
    BY <1>1, <1>2 DEF Match
  <2> QED BY <1>5, <2>1, <2>2 DEF WagerOf, PhaseOf, Told
<1>7. w = [WagerOf(i) EXCEPT !.phase = "over", !.verdict = winner]
  <2>1. PICK x : x = [WagerOf(i) EXCEPT !.phase = "over"]
    OBVIOUS
  <2>2. x = Told(i, "over", VerdictOf(i))
    BY <2>1 DEF WagerOf, Told
  <2>3. w = [x EXCEPT !.verdict = winner]
    BY <1>6, <2>2 DEF Told
  <2> QED BY <2>1, <2>3
<1>8. \A n \in MatchIds \ {i} : SameWager(n)
  BY <1>1, <1>2 DEF SameWager
<1>9. Wagers' = [Wagers EXCEPT ![i] = w] /\ Wagers[i] = WagerOf(i)
  BY <1>5, <1>8, WagerChanges
<1>10. Wagers' = [Wagers EXCEPT ![i].phase = "over", ![i].verdict = winner]
  BY <1>7, <1>9
<1>11. \/ Wagers[i].phase = "reported" /\ winner = Wagers[i].verdict
       \/ Wagers[i].phase = "contested"
  BY <1>1, <1>4, <1>9 DEF Decided, WagerOf, PhaseOf, VerdictOf
<1>12. PICK a \in Accounts, b \in Accounts, s \in Nat :
         /\ a = matches[i].player_a /\ b = matches[i].player_b /\ s = matches[i].bet_amount
         /\ Wagers[i].first = a /\ Wagers[i].second = b /\ Wagers[i].stake = s /\ a # b
  BY <1>3, <1>9 DEF WagerOf
<1>13. PICK prize \in Int :
         prize = Prize(i) /\ Promise!Kept(2 * s) <= prize /\ Promise!Kept(2 * s) \in Int
  BY <1>1, <1>12, PrizeKept, VolumeTyped DEF Prize
<1>14. PICK new : new = Wallets'
  OBVIOUS
<1>15. /\ new = [u \in Accounts |-> new[u]] /\ Wallets = [u \in Accounts |-> Wallets[u]]
       /\ \A u \in Accounts : new[u] = balance'[u] /\ Wallets[u] = balance[u]
                              /\ Wallets[u] \in Int
  BY <1>2, <1>14 DEF Wallets, Holders
<1>16. ASSUME NEW to \in Accounts,
              \A u \in Accounts : new[u] = IF u = to THEN Wallets[u] + prize ELSE Wallets[u]
       PROVE  Promise!GainsAtLeast(to, Promise!Kept(2 * s))
  <2>1. new[to] >= Wallets[to] + Promise!Kept(2 * s)
    BY <1>13, <1>15, <1>16
  <2>2. new = [Wallets EXCEPT ![to] = new[to]]
    BY <1>15, <1>16
  <2> QED BY <1>14, <2>1, <2>2 DEF Promise!GainsAtLeast
<1>17. Promise!PaysPlayers(i, winner)
  <2>1. CASE winner = "PlayerA"
    <3>1. \A u \in Accounts : new[u] = IF u = a THEN Wallets[u] + prize ELSE Wallets[u]
      BY <1>12, <1>13, <1>15, <2>1, CascadeWallets
    <3> QED BY <1>12, <1>16, <2>1, <3>1 DEF Promise!PaysPlayers
  <2>2. CASE winner = "PlayerB"
    <3>1. \A u \in Accounts : new[u] = IF u = b THEN Wallets[u] + prize ELSE Wallets[u]
      BY <1>12, <1>13, <1>15, <2>2, CascadeWallets
    <3> QED BY <1>12, <1>16, <2>2, <3>1 DEF Promise!PaysPlayers
  <2>3. CASE winner = "Draw"
    <3>1. \A u \in Accounts : new[u] = IF u \in {a, b} THEN Wallets[u] + s ELSE Wallets[u]
      BY <1>12, <1>15, <2>3, CascadeWallets
    <3>2. new = [Wallets EXCEPT ![a] = @ + s, ![b] = @ + s]
      BY <1>12, <1>15, <3>1
    <3> QED BY <1>12, <1>14, <2>3, <3>2 DEF Promise!PaysPlayers
  <2> QED BY <2>1, <2>2, <2>3 DEF Outcome
<1> QED BY <1>1, <1>10, <1>11, <1>17 DEF Promise!End

\* Every step of the contracts is a step of the wager, or none.
LEMMA StepKeepsPromise ==
  MoneyInv /\ [Next]_vars => [Promise!Next]_(Promise!vars)
<1> SUFFICES ASSUME MoneyInv, [Next]_vars PROVE Promise!Next \/ UNCHANGED Promise!vars
  OBVIOUS
<1>1. IInv /\ TypeOK /\ \A m \in MatchIds : BucketsCount(m)
  BY DEF MoneyInv, IInv
<1>2. ASSUME UNCHANGED <<balance, positions>>, \A n \in MatchIds : SameWager(n)
      PROVE  UNCHANGED Promise!vars
  BY <1>2, WagersStay DEF Promise!vars, Wallets
<1>3. CASE RegistryNext
  <2>1. ASSUME NEW a \in Accounts, NEW bet \in BetAmounts, NEW tc \in TimeControls,
               CreateMatch(a, bet, tc)
        PROVE  Promise!Next
    BY <1>1, <2>1, CreateOffers DEF Promise!Next
  <2>2. ASSUME NEW m \in MatchIds, NEW a \in Accounts, JoinMatch(m, a)
        PROVE  Promise!Next
    BY <1>1, <2>2, JoinAccepts DEF Promise!Next
  <2>3. ASSUME NEW m \in MatchIds, NEW a \in Accounts, CancelMatch(m, a)
        PROVE  Promise!Next
    BY <1>1, <2>3, CancelWithdraws DEF Promise!Next
  <2> QED BY <1>3, <2>1, <2>2, <2>3 DEF RegistryNext
<1>4. CASE PoolNext
  <2>1. ASSUME NEW m \in MatchIds, NEW t \in Accounts, NEW o \in Outcome,
               NEW amount \in TradeAmounts, BuyOutcome(m, t, o, amount)
        PROVE  Promise!Next
    BY <1>1, <2>1, BuyBets DEF Promise!Next
  <2>2. ASSUME NEW m \in MatchIds, NEW t \in Accounts, NEW o \in Outcome, PayTrader(m, t, o)
        PROVE  Promise!Next
    BY <1>1, <2>2, PaymentCollects DEF Promise!Next
  <2> QED BY <1>4, <2>1, <2>2 DEF PoolNext
<1>5. CASE OracleNext
  <2>1. ASSUME NEW m \in MatchIds, NEW score \in Scores, PostEvaluation(m, score)
        PROVE  UNCHANGED Promise!vars
    <3>1. \A n \in MatchIds :
            markets'[n].settled = markets[n].settled /\ markets'[n].result = markets[n].result
      <4>1. markets \in [MatchIds -> Market]
        BY <1>1 DEF TypeOK, PoolTypeOK
      <4>2. markets' = markets \/ markets' = [markets EXCEPT ![m].locked = TRUE]
        BY <2>1 DEF PostEvaluation, lock_market, poolVars
      <4> QED BY <4>1, <4>2 DEF Market
    <3> QED BY <1>2, <2>1, <3>1
            DEF PostEvaluation, lock_market, poolVars, registryVars, settlementVars, SameWager
  <2>2. ASSUME NEW m \in MatchIds, NEW winner \in Outcome, PostResult(m, winner)
        PROVE  Promise!Next
    BY <1>1, <2>2, PostReports DEF Promise!Next
  <2>3. ASSUME \/ \E t \in Thresholds : SetThreshold(t)
               \/ \E c \in Confirmations : SetConfirmations(c)
        PROVE  UNCHANGED Promise!vars
    BY <1>2, <2>3
    DEF SetThreshold, SetConfirmations, poolVars, registryVars, settlementVars, SameWager
  <2> QED BY <1>5, <2>1, <2>2, <2>3 DEF OracleNext
<1>6. CASE SettlementNext
  <2>1. ASSUME NEW m \in MatchIds, Finalize(m)
        PROVE  Promise!Next
    <3>1. pendingResults[m].winner \in Outcome
      BY <1>1, <2>1 DEF Finalize, Finalizable, HasPending, TypeOK, SettlementTypeOK
    <3>2. Promise!End(m, pendingResults[m].winner)
      BY <1>1, <2>1, <3>1, CascadeEnds DEF Finalize
    <3> QED BY <3>1, <3>2 DEF Promise!Next
  <2>2. ASSUME NEW m \in MatchIds, NEW who \in Accounts, OpenDispute(m, who)
        PROVE  Promise!Next
    BY <1>1, <2>2, DisputeContests DEF Promise!Next
  <2>3. ASSUME NEW m \in MatchIds, NEW who \in Accounts, NEW outcome \in DisputeOutcome,
               ResolveDispute(m, who, outcome)
        PROVE  Promise!Next
    <3>1. FinalWinner(m, outcome) \in Outcome
      BY <1>1, <2>3, SettlementTyped DEF ResolveDispute, TypeOK
    <3>2. Promise!End(m, FinalWinner(m, outcome))
      BY <1>1, <2>3, <3>1, CascadeEnds DEF ResolveDispute
    <3> QED BY <3>1, <3>2 DEF Promise!Next
  <2>4. ASSUME \/ \E who \in Accounts, w \in Windows : SetChallengeWindow(who, w)
               \/ \E who, new \in Accounts : SetArbiter(who, new)
        PROVE  UNCHANGED Promise!vars
    BY <1>2, <2>4
    DEF SetChallengeWindow, set_challenge_window, SetArbiter, set_arbiter, poolVars,
        registryVars, SameWager
  <2>5. ASSUME PassTime
        PROVE  UNCHANGED Promise!vars
    <3>1. \A n \in MatchIds : pendingResults'[n].winner = pendingResults[n].winner
      BY <1>1, <2>5 DEF PassTime, Tick, TypeOK, SettlementTypeOK
    <3> QED BY <1>2, <2>5, <3>1 DEF PassTime, poolVars, registryVars, SameWager
  <2> QED BY <1>6, <2>1, <2>2, <2>3, <2>4, <2>5 DEF SettlementNext
<1>7. CASE UNCHANGED vars
  BY <1>2, <1>7 DEF vars, SameWager
<1> QED BY <1>3, <1>4, <1>5, <1>6, <1>7 DEF Next

\* No wager has been offered.
LEMMA InitPromises == Init => Promise!Init
<1> SUFFICES ASSUME Init PROVE Promise!Init
  OBVIOUS
<1>1. Wallets \in [Accounts -> Nat]
  BY FundsAssumption DEF Init, Wallets, Holders
<1>2. Wagers = [i \in MatchIds |-> Promise!NoWager]
  <2>1. \A i \in MatchIds : WagerOf(i) = Promise!NoWager
    BY DEF Init, RegistryInit, PoolInit, SettlementInit, NoMatch, NoMarket, NoResult, WagerOf,
           PhaseOf, VerdictOf, Promise!NoWager
  <2> QED BY <2>1 DEF Wagers
<1> QED BY <1>1, <1>2 DEF Promise!Init, Init, PoolInit

\* Every behaviour of the contracts is a behaviour of the wager they promise.
THEOREM PromiseAlwaysKept == Spec => KeepsPromise
  BY InitPromises, StepKeepsPromise, MoneyAlways, PTL DEF Spec, KeepsPromise, Promise!Spec
=============================================================================
