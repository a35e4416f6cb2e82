------------------------------- MODULE Wager -------------------------------
(***************************************************************************)
(* What MateFi promises its users, with no contracts, vault, pool, fees or *)
(* time: wagers between two players that a reported result, or an arbiter  *)
(* when the result is contested, brings to an end, and bets on them.  A    *)
(* user's wallet changes only by                                           *)
(*                                                                         *)
(*   - the stakes and bets the user places,                                *)
(*   - taking back the stake of a wager nobody accepted,                   *)
(*   - winning: at least 97% of both stakes,                               *)
(*   - a draw: exactly the stake placed,                                   *)
(*   - a bet on the outcome that came true: at least 97% of the bet.       *)
(*                                                                         *)
(* Every wager ends at most once and every bet is paid at most once.       *)
(***************************************************************************)
EXTENDS Integers

CONSTANTS Users, Ids, Verdicts, Nobody, Unknown

VARIABLES
  wallet,    \* user -> USDC at hand
  wagers,    \* id -> [phase, first, second, stake, verdict]
  bets       \* id -> user -> verdict -> USDC bet on it

vars == <<wallet, wagers, bets>>

NoWager == [phase |-> "none", first |-> Nobody, second |-> Nobody,
            stake |-> 0, verdict |-> Unknown]

Init ==
  /\ wallet \in [Users -> Nat]
  /\ wagers = [i \in Ids |-> NoWager]
  /\ bets = [i \in Ids |-> [u \in Users |-> [v \in Verdicts |-> 0]]]

\* The share of an amount that fees may not touch.
Kept(amount) == (amount * 97) \div 100

\* Only user u's wallet changes, by delta.
Changes(u, delta) == wallet' = [wallet EXCEPT ![u] = @ + delta]

\* Only user u's wallet changes, by at least the given amount.
GainsAtLeast(u, least) ==
  /\ wallet'[u] >= wallet[u] + least
  /\ wallet' = [wallet EXCEPT ![u] = wallet'[u]]

Offer(i, u) ==
  /\ wagers[i].phase = "none"
  /\ wagers'[i].stake > 0
  /\ wagers' = [wagers EXCEPT ![i] =
       [phase |-> "offered", first |-> u, second |-> Nobody,
        stake |-> wagers'[i].stake, verdict |-> Unknown]]
  /\ Changes(u, -(wagers'[i].stake))
  /\ UNCHANGED bets

Accept(i, u) ==
  /\ wagers[i].phase = "offered"
  /\ u # wagers[i].first
  /\ wagers' = [wagers EXCEPT ![i].phase = "on", ![i].second = u]
  /\ Changes(u, -(wagers[i].stake))
  /\ UNCHANGED bets

Withdraw(i) ==
  /\ wagers[i].phase = "offered"
  /\ wagers' = [wagers EXCEPT ![i].phase = "over"]
  /\ Changes(wagers[i].first, wagers[i].stake)
  /\ UNCHANGED bets

Report(i, v) ==
  /\ wagers[i].phase = "on"
  /\ wagers' = [wagers EXCEPT ![i].phase = "reported", ![i].verdict = v]
  /\ UNCHANGED <<wallet, bets>>

Contest(i) ==
  /\ wagers[i].phase = "reported"
  /\ wagers' = [wagers EXCEPT ![i].phase = "contested"]
  /\ UNCHANGED <<wallet, bets>>

\* What the players get when the wager ends with verdict v.
PaysPlayers(i, v) ==
  LET w == wagers[i] IN
  \/ v = "PlayerA" /\ GainsAtLeast(w.first, Kept(2 * w.stake))
  \/ v = "PlayerB" /\ GainsAtLeast(w.second, Kept(2 * w.stake))
  \/ /\ v = "Draw"
     /\ wallet' = [wallet EXCEPT ![w.first] = @ + w.stake, ![w.second] = @ + w.stake]

\* An uncontested wager ends as reported, a contested one as the arbiter says.
End(i, v) ==
  /\ \/ wagers[i].phase = "reported" /\ v = wagers[i].verdict
     \/ wagers[i].phase = "contested"
  /\ wagers' = [wagers EXCEPT ![i].phase = "over", ![i].verdict = v]
  /\ PaysPlayers(i, v)
  /\ UNCHANGED bets

\* Bets are taken while the wager is on and its end is not settled.
Bet(i, u, v) ==
  LET placed == bets'[i][u][v] - bets[i][u][v] IN
  /\ wagers[i].phase \in {"on", "reported", "contested"}
  /\ placed > 0
  /\ bets' = [bets EXCEPT ![i][u][v] = bets'[i][u][v]]
  /\ Changes(u, -placed)
  /\ UNCHANGED wagers

Collect(i, u) ==
  LET v == wagers[i].verdict IN
  /\ wagers[i].phase = "over" /\ v \in Verdicts
  /\ bets[i][u][v] > 0
  /\ bets' = [bets EXCEPT ![i][u][v] = 0]
  /\ GainsAtLeast(u, Kept(bets[i][u][v]))
  /\ UNCHANGED wagers

Next ==
  \E i \in Ids :
    \/ \E u \in Users : Offer(i, u) \/ Accept(i, u) \/ Collect(i, u)
    \/ \E u \in Users, v \in Verdicts : Bet(i, u, v)
    \/ \E v \in Verdicts : Report(i, v) \/ End(i, v)
    \/ Withdraw(i) \/ Contest(i)

Spec == Init /\ [][Next]_vars
=============================================================================
