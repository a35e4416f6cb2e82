--------------------------- MODULE PagesProperties ---------------------------
(***************************************************************************)
(* What the pages may never show.                                          *)
(***************************************************************************)
EXTENDS Pages

\* The wallet button is never left disabled with nothing under way, nor offered
\* while the kit is still asked for an address, however dialogs are closed,
\* refused or crossed by a disconnect (hooks/useWallet.ts).
ConnectEnds == connecting <=> kit.modal \/ kit.asked

\* The record of the history page is the player's: its parts add up, the best
\* streak is the longest run of wins, and the current one goes as far back as it
\* can (lib/stats.ts).
RecordIsRight ==
  LET r == computeMatchStats
      o == Outcomes
      runs(kind) == {n \in 0 .. Len(o) : \E i \in 0 .. Len(o) - n : \A j \in i + 1 .. i + n : o[j] = kind}
      prefixes == {n \in 0 .. Len(o) : \A j \in 1 .. n : o[j] = o[1]} IN
  /\ r.total = r.wins + r.losses + r.draws
  /\ r.bestStreak = Max(runs("win"))
  /\ r.currentStreak = Max(prefixes)

\* Who pages through the history misses none of the games between the first and the
\* last one read, though more are completed in between, or one of them anew, which is
\* the newest then (app/history/page.tsx).  This is not so when a row that has been
\* passed leaves the list, as a late lock makes it (matches.ts:148-151): the next page
\* skips one, and what was read before it is not counted here.
PagesSkipNothing ==
  \A i, k \in seen : \A j \in i .. k : j \in seen

HistoryIsRight == RecordIsRight /\ PagesSkipNothing

\* No pool is ever shown larger than the contract's, whichever of the relayer's
\* rows, replayed events and messages the page has heard last
\* (hooks/useMatch.ts, db/queries/traders.ts).
PoolsNeverOverstated == \A o \in Outcome : panel.pools[o] <= OnChain[o]

\* The multiplier shown for an outcome, whether the page or the contract computed
\* it, is at most a hundredth off what a stake in those pools would be paid,
\* apart from rounding to whole units (hooks/useTrading.ts; get_odds and
\* pay_trader in prediction_pool/src/lib.rs).
QuoteIsPaid ==
  \A o \in Outcome : panel.odds[o] > 0 =>
    \A stake \in {a \in Amounts : a <= panel.odds[o]} :
      LET paid == 100 * payout(panel.odds, o, stake) IN
      /\ stake * (OddsDisplay[o] - 1) - 100 < paid
      /\ paid < stake * (OddsDisplay[o] + 1) + 100

\* What the /wallet page says of a payment is true for good: one that is said to
\* be made is, and one that is said to have failed is not made later, unless it had
\* been submitted and its answer did not come: that error looks like any other, and
\* such a payment may be made (components/wallet/SendXlmForm.tsx:79-91).
PaymentTold ==
  \A i \in DOMAIN sends :
    /\ sends[i].told = "paid" => i \in ledger.paid
    /\ sends[i].told = "failed" /\ sends[i].pc # "cut" => i \notin ledger.paid \cup ledger.sent

\* Answers may come in any order, and an older one may replace a newer one, but
\* in the end the lobby shows the matches as they are (app/lobby/page.tsx).
LobbyCatchesUp ==
  <>[](route = "/lobby" => lobby.matches = listLobbyGames /\ ~lobby.error)
=============================================================================
