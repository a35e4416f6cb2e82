---------------------------- MODULE EscrowVault ----------------------------
(***************************************************************************)
(* The EscrowVault contract: one deposit record per match.                 *)
(*                                                                         *)
(* Settling a match calls the vault twice in one transaction (add_bonus    *)
(* from the pool, then release or release_draw from Settlement), so every  *)
(* entry point is given as the check it makes on a record and the record   *)
(* it leaves, and these compose.                                           *)
(***************************************************************************)
EXTENDS MateFiTypes

VARIABLE records    \* match id -> DepositRecord

\* What get_record does not find: no account ever owns the record.
NoRecord == [player_a |-> NoAddress, player_b |-> NoAddress, amount_each |-> 0,
             bonus |-> 0, total_locked |-> 0, released |-> FALSE]

DepositRecord == [player_a     : Accounts \cup {NoAddress},
                  player_b     : Accounts \cup {NoAddress},
                  amount_each  : Nat,
                  bonus        : Nat,
                  total_locked : Int,
                  released     : BOOLEAN]

EscrowTypeOK == records \in [MatchIds -> DepositRecord]

EscrowInit == records = [m \in MatchIds |-> NoRecord]

Recorded(r) == r.player_a # NoAddress

\* The record a deposit works on: the stored one, or a fresh one for player A.
RecordFor(r, player, amount) ==
  IF Recorded(r) THEN r
  ELSE [NoRecord EXCEPT !.player_a = player, !.amount_each = amount]

\* record_deposit: a second player must match the stake and find the slot
\* free; player A may not deposit again.
CanDeposit(r, player, amount) ==
  LET old == RecordFor(r, player, amount) IN
  /\ amount > 0
  /\ \/ /\ old.player_a # player
        /\ old.player_b = NoAddress
        /\ old.amount_each = amount
     \/ /\ old.player_a = player
        /\ old.total_locked <= 0

AfterDeposit(r, player, amount) ==
  LET old == RecordFor(r, player, amount) IN
  [old EXCEPT !.player_b     = IF old.player_a # player THEN player ELSE @,
              !.total_locked = @ + amount]

record_deposit(m, player, amount) ==
  /\ CanDeposit(records[m], player, amount)
  /\ records' = [records EXCEPT ![m] = AfterDeposit(@, player, amount)]

\* add_bonus: the flywheel credit, before release only.
CanAddBonus(r, amount) == amount > 0 /\ Recorded(r) /\ ~r.released

AfterBonus(r, amount) ==
  [r EXCEPT !.bonus = @ + amount, !.total_locked = @ + amount]

\* release: the winner gets amount, the treasury what is left.
CanRelease(r, amount) ==
  /\ Recorded(r) /\ ~r.released
  /\ 0 < amount /\ amount <= r.total_locked

\* release_draw: each player's own deposit back, the bonus to the treasury.
CanReleaseDraw(r) == Recorded(r) /\ ~r.released

\* Mutant of AfterRelease: the record is not marked.
ReleaseUnmarked(r) == r

\* release and release_draw leave total_locked as it was.
AfterRelease(r) == [r EXCEPT !.released = TRUE]

DrawPayout(r) == r.amount_each * (IF r.player_b = NoAddress THEN 1 ELSE 2) + r.bonus

\* refund: player A's deposit back when an Open match is cancelled.
CanRefund(r, amount) ==
  Recorded(r) /\ ~r.released /\ amount <= r.total_locked

\* Mutant of AfterRefund: the refund is paid but not recorded.
RefundUnrecorded(r, amount) == r

AfterRefund(r, amount) ==
  [r EXCEPT !.released = TRUE, !.total_locked = @ - amount]

refund(m, amount) ==
  /\ CanRefund(records[m], amount)
  /\ records' = [records EXCEPT ![m] = AfterRefund(@, amount)]

\* What the vault still owes on account of a match.
Outstanding(m) == IF records[m].released THEN 0 ELSE records[m].total_locked
=============================================================================
