-------------------------- MODULE GameProperties --------------------------
(***************************************************************************)
(* What the game manager promises: the safety properties it keeps, its     *)
(* liveness, and what its comments say of it.                              *)
(***************************************************************************)
EXTENDS GameManager

Live(i) == objects[i].status \in {"active", "locked"}

\* The timer never watches a ply that is not on the board yet, a game that
\* finished once is over, and the rows hold values the code writes.
GameTypeOK ==
  /\ \A i \in Objects : objects[i] = NoGame \/ objects[i] \in GameState
  /\ \A i \in Objects : objects[i].timer <= objects[i].ply
  /\ \A i \in Objects : objects[i].finishes > 0 <=> Ended(i)
  /\ games \in 0 .. MaxObjects /\ (games # 0 => objects[games] # NoGame)
  /\ row \in [status : {"open", "active", "locked", "completed"},
              winner : Winner \cup {"None"}]
  /\ {settlement, chain} \subseteq Winner \cup {"None"}

\* A handler that resumes after its game has ended (a stored move, a finished
\* evaluation) neither revives the game nor arms its timer again.
EndedIsFinal ==
  [][\A i \in Objects : Ended(i) /\ crashes' = crashes =>
       /\ objects'[i].status = "completed" /\ objects'[i].timer = NoTimer
       /\ objects'[i].ply = objects[i].ply /\ objects'[i].end = objects[i].end]_vars

\* Some clock runs in every live game, and it is the clock of the player on
\* the move unless a move is still being stored or its storing has failed.
ClockRuns ==
  \A i \in Objects : Live(i) =>
    /\ objects[i].timer # NoTimer
    /\ \/ objects[i].timer = objects[i].ply
       \/ \E t \in tasks : t.kind = "move" /\ t.obj = i
       \/ "move" \in failed

\* A settlement row names the winner that the chain settled for, whichever
\* endings of the game race and whichever transaction fails.
SettlementIsReported == settlement # "None" => settlement = chain

\* setTimeout fires and awaited calls end, with a result or an error; polls go
\* on, and a restart within the lookback sees MatchActive again.
Fairness ==
  /\ WF_vars(MoveStep) /\ WF_vars(EvalStep) /\ WF_vars(FinishStep)
  /\ WF_vars(LoadStep) /\ WF_vars(EventStep) /\ WF_vars(ActiveSeen)
  /\ \A i \in Objects : WF_vars(FlagFalls(i))

FairSpec == Spec /\ Fairness

\* A game that is under way gets a winner in the database even if both players
\* leave and the relayer restarts, unless that very write fails.
EveryGameEnds ==
  row.status = "active" ~> (row.winner # "None" \/ "complete" \in failed)
-----------------------------------------------------------------------------
(* What comments in gameManager.ts say and the code does not do *)

\* "When their clock reaches zero before they move, they lose on time": the
\* player the timer was armed for is the one who loses when it fires.
TimeoutBlamesTheLate ==
  [][\A i \in Objects :
       FlagFalls(i) /\ "move" \notin failed => objects[i].timer = objects[i].ply]_vars
=============================================================================
