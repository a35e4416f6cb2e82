--------------------------- MODULE MirrorProperties ---------------------------
(***************************************************************************)
(* What the relayer's rows about a match owe to the chain.                 *)
(***************************************************************************)
EXTENDS EventMirror

\* poll advances its window "WITHOUT skipping events" (eventListener.ts:116-120):
\* an event of a ledger that it has left behind has been handled, in this run of
\* the relayer or an earlier one, unless the lookback or a reset passed over it.
NoLostEvent == \A i \in Before(startLedger) : i \in delivered \cup skipped

\* Whatever is replayed, refused or lost, no row is ahead of the chain: a
\* settlement names a winner that was reported or decided there, and has a prize
\* only for a match that is settled; a dispute row is that of the reported
\* result, disputed or finalized only if the contract is.
RowsFollowChain ==
  /\ settlement.winner # None => settlement.winner \in {match.reported, match.final}
  /\ settlement.player_prize => match.phase = "settled"
  /\ dispute.status # "absent" =>
       /\ match.phase \in {"submitted", "disputed", "settled"}
       /\ dispute.winner = match.reported
  /\ dispute.status = "disputed" => match.disputed
  /\ dispute.status = "finalized" =>
       match.phase = "settled" /\ dispute.final_winner = match.final
-----------------------------------------------------------------------------
\* Ledgers close; polls, the keeper's ticks and the handlers go on.  Transactions
\* of people, games that end, failures and restarts need never happen.
Fairness == WF_vars(LedgerCloses) /\ WF_vars(Listens) /\ WF_vars(Works) /\ WF_vars(KeeperTick)
FairSpec == Spec /\ Fairness

\* No call has failed, and no event is lost to a window that was moved past it.
Clean == failures = 0 /\ skipped \subseteq delivered

\* A result that nobody disputes is finalized: the keeper asks until the contract
\* agrees, although the window it knows is not the contract's.
ResultsAreFinalized ==
  match.phase = "submitted" ~> (match.phase \in {"disputed", "settled"} \/ ~Clean)

\* MatchSettled is written down while a result that was reported still waits to be:
\* postResult polls for up to thirty seconds before its caller records the winner.
SettledBeforeRecorded == step = 1 /\ "record" \in {poster.pc, reconciler.pc}

\* In the end, through replays and restarts, the rows of a settled match say what
\* the chain decided, also when the arbiter reversed what the relayer reported.
\* The settlement's winner alone is left out where recordSettlement comes last from
\* a caller that had its result yet to record (gameManager.ts:437-444): it
\* overwrites the arbiter's with its own (matches.ts:206), and nothing corrects it.
MirrorSettles ==
  /\ <>[](match.phase = "settled" /\ Clean =>
            /\ settlement.player_prize /\ settlement.tx_hash
            /\ dispute.status = "finalized" /\ dispute.final_winner = match.final)
  /\ \/ <>[](match.phase = "settled" /\ Clean => settlement.winner = match.final)
     \/ <>SettledBeforeRecorded

\* In the end every trader who bet on the outcome has been paid without asking.
WinnersArePaid ==
  <>[](match.phase = "settled" /\ Clean => match.bets \cap {match.final} \subseteq match.paid)
=============================================================================
