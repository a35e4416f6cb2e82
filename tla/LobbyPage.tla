------------------------------ MODULE LobbyPage ------------------------------
(***************************************************************************)
(* The lobby: matches that are not over, asked for every eight seconds     *)
(* whether or not the last answer has come.                                *)
(***************************************************************************)
EXTENDS Naturals, FiniteSets

CONSTANTS
  MaxListed,     \* bound: matches
  MaxChanges,    \* bound: changes of a match's status
  MaxLost,       \* bound: requests that fail
  Polls,         \* bound: requests that can be under way at once
  LISTED_LIMIT   \* matches in one answer of GET /matches (50)

ASSUME LobbyAssumption == {MaxListed, MaxChanges, MaxLost, LISTED_LIMIT} \subseteq Nat /\ 0 \notin Polls

VARIABLES
  statuses,   \* of the games rows, in order of creation
  lobby,      \* the matches shown, loading and error
  polls,      \* requests under way: unsent, sent, or with the rows of the answer
  changes, lost

lobbyVars == <<statuses, lobby, polls, changes, lost>>

Ids     == 1 .. MaxListed
InLobby == {"open", "active", "locked"}
NoPoll  == [pc |-> "none"]

LobbyInit ==
  /\ statuses \in [Ids -> {"absent", "open", "active"}]
  /\ \A m \in Ids : m > 1 /\ statuses[m - 1] = "absent" => statuses[m] = "absent"
  /\ lobby = [matches |-> {}, loading |-> TRUE, error |-> FALSE]
  /\ polls = [r \in Polls |-> NoPoll]
  /\ changes = 0 /\ lost = 0

\* The newest that are not over, with their statuses.
listLobbyGames ==
  {[id |-> m, status |-> statuses[m]] :
     m \in {n \in Ids : /\ statuses[n] \in InLobby
                        /\ Cardinality({k \in Ids : k > n /\ statuses[k] \in InLobby}) < LISTED_LIMIT}}

After(status) ==
  CASE status = "absent" -> {"open"}
    [] status = "open"   -> {"active", "cancelled"}
    [] status = "active" -> {"locked", "completed"}
    [] status = "locked" -> {"completed"}
    [] OTHER             -> {}

StatusChanges(m) ==
  /\ changes < MaxChanges /\ changes' = changes + 1
  /\ \A n \in Ids : n < m => statuses[n] # "absent"
  /\ \E status \in After(statuses[m]) : statuses' = [statuses EXCEPT ![m] = status]
  /\ UNCHANGED <<lobby, polls, lost>>

\* Mutant of Asks: only once.
AsksOnce(r) ==
  /\ polls[r].pc = "none" /\ lobby.loading
  /\ polls' = [polls EXCEPT ![r] = [pc |-> "asked"]]
  /\ UNCHANGED <<statuses, lobby, changes, lost>>

\* On mount, and every POLL_INTERVAL_MS.
Asks(r) ==
  /\ polls[r].pc = "none"
  /\ polls' = [polls EXCEPT ![r] = [pc |-> "asked"]]
  /\ UNCHANGED <<statuses, lobby, changes, lost>>

Answers(r) ==
  /\ polls[r].pc = "asked"
  /\ polls' = [polls EXCEPT ![r] = [pc |-> "answered", rows |-> listLobbyGames]]
  /\ UNCHANGED <<statuses, lobby, changes, lost>>

\* fetchMatches goes on, in whatever order the answers come.
Arrives(r) ==
  /\ polls[r].pc = "answered"
  /\ lobby' = [matches |-> polls[r].rows, loading |-> FALSE, error |-> FALSE]
  /\ polls' = [polls EXCEPT ![r] = NoPoll]
  /\ UNCHANGED <<statuses, changes, lost>>

\* An error is shown, over the matches that were there.
Lost(r) ==
  /\ polls[r].pc # "none" /\ lost < MaxLost /\ lost' = lost + 1
  /\ lobby' = [lobby EXCEPT !.loading = FALSE, !.error = TRUE]
  /\ polls' = [polls EXCEPT ![r] = NoPoll]
  /\ UNCHANGED <<statuses, changes>>

\* The two lists.
OpenMatches == {m \in lobby.matches : m.status = "open"}
LiveMatches == {m \in lobby.matches : m.status \in {"active", "locked"}}

PollGoesOn(r) == Asks(r) \/ Answers(r) \/ Arrives(r)

LobbyStep == \/ \E m \in Ids : StatusChanges(m)
             \/ \E r \in Polls : PollGoesOn(r) \/ Lost(r)
=============================================================================
