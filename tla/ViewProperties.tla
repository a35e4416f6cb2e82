---------------------------- MODULE ViewProperties ----------------------------
(***************************************************************************)
(* What a visitor may rely on, with snapshots and messages that cross,     *)
(* connections that drop and requests that fail; and what they may not.    *)
(***************************************************************************)
EXTENDS MatchView

\* The page knows of nothing that has not happened: no later position, no other
\* winner, and it offers no dispute before the result is on the chain.
ViewTypeOK ==
  /\ record \in {None, "open", "active", "locked", "completed", "cancelled"}
  /\ live.fen <= server.ply /\ \A i \in DOMAIN live.history : live.history[i] <= server.stored
  /\ live.winner \in {None, server.winner}
  /\ live.over => server.over
  /\ DisputeButton => server.reported # None
  /\ inbox \in Seq(WsEvent) /\ (~socket => inbox = <<>>)

Quiet ==
  /\ tasks = {} /\ inbox = <<>>
  /\ \A l \in Loads : loads[l].pc = "none"

\* Once nothing is under way the page shows the match as it is: board, moves,
\* result and market, unless a message was lost or crossed a snapshot
\* since the last snapshot that none crossed.
PageCatchesUp ==
  Quiet /\ ~crossed /\ record # None =>
    /\ live.fen = server.ply /\ live.history = [i \in 1 .. server.ply |-> i]
    /\ live.over = server.over /\ live.winner = server.winner
    /\ Phase = "open" <=> server.status \in {"open", "active", "cancelled"}
    /\ live.clock => server.status \in {"active", "locked", "completed"}

\* An older snapshot does not take back what a message said of the end of the
\* game, its winner or the lock.
PageNeverForgets ==
  [][/\ live.over => live'.over
     /\ live.winner # None => live'.winner = live.winner
     /\ live.locked => live'.locked]_vars

\* Polls go on and their requests are answered; no player has to move, and no
\* connection has to come back.
Fairness == WF_vars(LoadStep /\ \E l \in Loads : LoadGoesOn(l) \/ Polls(l))

FairSpec == Spec /\ Fairness

\* A page that waits for an opponent sees the match start, or its cancellation,
\* even if the message is lost and an older snapshot comes after a newer one.
WaitingPageStarts ==
  record = "open" /\ server.status # "open" ~> record # "open"
=============================================================================
