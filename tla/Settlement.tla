----------------------------- MODULE Settlement ----------------------------
(***************************************************************************)
(* The Settlement contract: the result parked for each match, the dispute  *)
(* opened against it, the challenge window and the arbiter.                *)
(*                                                                         *)
(* Time.  finalize and dispute only compare the ledger time with           *)
(* submitted_at + window, so a pending result carries the time since its   *)
(* submission in place of submitted_at.  MaxWindow is the time from        *)
(* submission to the last u64 timestamp: no age exceeds it, and for any    *)
(* longer window the sum overflows, which the contracts' overflow checks   *)
(* turn into a failed call.                                                *)
(***************************************************************************)
EXTENDS MateFiTypes

CONSTANTS
  Windows,          \* challenge windows the arbiter may set, 0 included
  MaxWindow,        \* see above; also the bound on a result's age
  DEFAULT_CHALLENGE_WINDOW

ASSUME WindowAssumption ==
  /\ Windows \subseteq Nat
  /\ MaxWindow \in Nat \ {0}
  /\ DEFAULT_CHALLENGE_WINDOW \in 1 .. MaxWindow

VARIABLES
  pendingResults,    \* DataKey::PendingResult, with the result's age
  disputes,          \* DataKey::Dispute: who opened it
  challenge_window,  \* DataKey::ChallengeWindow
  arbiter            \* DataKey::Arbiter

settlementVars == <<pendingResults, disputes, challenge_window, arbiter>>

\* The entry is absent from storage.
NoResult == [winner |-> "None", age |-> 0]

SettlementTypeOK ==
  /\ pendingResults \in
       [MatchIds -> [winner : Outcome \cup {"None"}, age : 0 .. MaxWindow]]
  /\ disputes \in [MatchIds -> Accounts \cup {NoAddress}]
  /\ challenge_window \in Nat \ {0}
  /\ arbiter \in Accounts

SettlementInit ==
  /\ pendingResults = [m \in MatchIds |-> NoResult]
  /\ disputes = [m \in MatchIds |-> NoAddress]
  /\ challenge_window = DEFAULT_CHALLENGE_WINDOW
  /\ arbiter \in Accounts

HasPending(m) == pendingResults[m].winner # "None"

\* submitted_at + window does not fit in u64: the addition panics.
DeadlineOverflows == challenge_window > MaxWindow

\* Mutant of WindowElapsed: the last second belongs to nobody.
WindowElapsedLate(m) ==
  ~DeadlineOverflows /\ pendingResults[m].age > challenge_window

WindowElapsed(m) ==
  ~DeadlineOverflows /\ pendingResults[m].age >= challenge_window

WindowOpen(m) ==
  ~DeadlineOverflows /\ pendingResults[m].age < challenge_window

\* submit_result's record: the winner, submitted now.
RecordResult(m, winner) ==
  /\ pendingResults' = [pendingResults EXCEPT ![m] = [winner |-> winner, age |-> 0]]
  /\ UNCHANGED <<disputes, challenge_window, arbiter>>

RecordDispute(m, disputer) ==
  /\ disputes' = [disputes EXCEPT ![m] = disputer]
  /\ UNCHANGED <<pendingResults, challenge_window, arbiter>>

\* Mutant of ClearResult: the dispute is not removed.
ClearPendingOnly(m) ==
  /\ pendingResults' = [pendingResults EXCEPT ![m] = NoResult]
  /\ UNCHANGED <<disputes, challenge_window, arbiter>>

\* The last thing a cascade does: both records are removed.
ClearResult(m) ==
  /\ pendingResults' = [pendingResults EXCEPT ![m] = NoResult]
  /\ disputes' = [disputes EXCEPT ![m] = NoAddress]
  /\ UNCHANGED <<challenge_window, arbiter>>

\* The player prize of a match: both stakes and the flywheel share of the
\* volume, less 3%.
PlayerPool(bet, volume)  == bet * 2 + FeeFlywheel(volume)
PlayerPrize(bet, volume) ==
  PlayerPool(bet, volume) - (PlayerPool(bet, volume) * 3) \div 100

\* What the arbiter may decide: uphold, reverse to a winner, or void.
DisputeOutcome == {<<"Uphold">>, <<"Void">>} \cup ({"Reverse"} \X Outcome)

FinalWinner(m, outcome) ==
  CASE outcome[1] = "Uphold"  -> pendingResults[m].winner
    [] outcome[1] = "Reverse" -> outcome[2]
    [] outcome[1] = "Void"    -> "Draw"

\* Mutant of set_challenge_window: an empty window is accepted.
AnyWindow(caller, w) ==
  /\ caller = arbiter
  /\ challenge_window' = w
  /\ UNCHANGED <<pendingResults, disputes, arbiter>>

set_challenge_window(caller, w) ==
  /\ caller = arbiter
  /\ w # 0
  /\ challenge_window' = w
  /\ UNCHANGED <<pendingResults, disputes, arbiter>>

set_arbiter(caller, new) ==
  /\ caller = arbiter
  /\ arbiter' = new
  /\ UNCHANGED <<pendingResults, disputes, challenge_window>>

\* A second passes on the ledger: every pending result is that much older.
Tick ==
  /\ pendingResults' =
       [m \in MatchIds |->
          IF HasPending(m) /\ pendingResults[m].age < MaxWindow
          THEN [pendingResults[m] EXCEPT !.age = @ + 1]
          ELSE pendingResults[m]]
  /\ UNCHANGED <<disputes, challenge_window, arbiter>>
=============================================================================
