--------------------------- MODULE MatchRegistry ---------------------------
(***************************************************************************)
(* The MatchRegistry contract: one record per match and the lifecycle      *)
(*                                                                         *)
(*   Open -> Active -> PendingFinalization -> [Disputed ->] Completed      *)
(*   Open -> Cancelled                                                     *)
(*                                                                         *)
(* The actions are the contract's effects on its own storage.  What the    *)
(* entry points do to the token, the vault and the pool in the same        *)
(* transaction is added in MateFiChain.                                    *)
(***************************************************************************)
EXTENDS MateFiTypes

CONSTANTS
  BetAmounts,     \* stakes a player may ask for, too small ones included
  TimeControls,   \* seconds per player, too short ones included
  MIN_TIME_CONTROL

ASSUME BetAssumption == BetAmounts \subseteq Int
ASSUME TimeControlAssumption ==
  TimeControls \subseteq Int /\ MIN_TIME_CONTROL \in Int

VARIABLES
  matches,        \* match id -> Match record
  matchCounter    \* DataKey::MatchCounter

registryVars == <<matches, matchCounter>>

\* What get_match does not find.
NoMatch == [player_a |-> NoAddress, player_b |-> NoAddress,
            bet_amount |-> 0, state |-> "Absent"]

Match == [player_a   : Accounts,
          player_b   : Accounts \cup {NoAddress},
          bet_amount : Nat,
          state      : MatchState]

RegistryTypeOK ==
  /\ matches \in [MatchIds -> Match \cup {NoMatch}]
  /\ matchCounter \in 0 .. MaxMatches

RegistryInit ==
  /\ matches = [m \in MatchIds |-> NoMatch]
  /\ matchCounter = 0

Exists(m) == matches[m].state # "Absent"

Enter(m, s) == matches' = [matches EXCEPT ![m].state = s]

\* A match is created Open under the next id, with player A's stake.
create_match(a, bet, tc) ==
  /\ bet >= MIN_BET
  /\ tc >= MIN_TIME_CONTROL
  /\ matchCounter < MaxMatches
  /\ matchCounter' = matchCounter + 1
  /\ matches' = [matches EXCEPT ![matchCounter + 1] =
                   [player_a |-> a, player_b |-> NoAddress,
                    bet_amount |-> bet, state |-> "Open"]]

\* Player B takes the free seat of an Open match.
join_match(m, b) ==
  /\ matches[m].state = "Open"
  /\ matches[m].player_b = NoAddress
  /\ matches[m].player_a # b
  /\ matches' = [matches EXCEPT ![m].player_b = b, ![m].state = "Active"]
  /\ UNCHANGED matchCounter

\* Player A withdraws an Open match.
cancel_match(m, a) ==
  /\ matches[m].state = "Open"
  /\ matches[m].player_a = a
  /\ Enter(m, "Cancelled")
  /\ UNCHANGED matchCounter

\* The three transitions only Settlement may ask for.
set_pending_finalization(m) ==
  /\ matches[m].state = "Active"
  /\ Enter(m, "PendingFinalization")
  /\ UNCHANGED matchCounter

set_disputed(m) ==
  /\ matches[m].state = "PendingFinalization"
  /\ Enter(m, "Disputed")
  /\ UNCHANGED matchCounter

\* Mutant of CanComplete: as it was before disputes were added.
CompletesPendingOnly(m) == matches[m].state = "PendingFinalization"

\* complete_match's own guard, apart because a cascade stands or falls by it.
CanComplete(m) == matches[m].state \in {"PendingFinalization", "Disputed"}

complete_match(m) ==
  /\ CanComplete(m)
  /\ Enter(m, "Completed")
  /\ UNCHANGED matchCounter
=============================================================================
