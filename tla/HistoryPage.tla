----------------------------- MODULE HistoryPage -----------------------------
(***************************************************************************)
(* The history page: the table of completed games, read a page at a time   *)
(* while more games are completed, and the visitor's own record, computed  *)
(* from one longer answer.                                                 *)
(*                                                                         *)
(* A game is known by its place in the order of completion; the last one   *)
(* comes first in the relayer's answers.  A game may be completed again,   *)
(* when it is the last one anew, and it leaves the answers when a late     *)
(* lock of its market takes its row for one that is played.                *)
(***************************************************************************)
EXTENDS WalletStore, Sequences, SequencesExt, FiniteSets

CONSTANTS
  Pairs,          \* who may have played: <<player_a, player_b>>
  Winners,        \* and won: "PlayerA", "PlayerB" or "Draw"
  FirstGames,     \* bound: games completed before the page is opened
  MaxGames,       \* bound: games that are completed at a time
  MaxSettled,     \* bound: of which so many are settled
  MaxFaults,      \* bound: requests that fail, and games that change their place
  PAGE_SIZE, STATS_WINDOW,
  HISTORY_LIMIT   \* what GET /history caps its limit at (100)

ASSUME HistoryAssumption ==
  /\ {FirstGames, MaxGames, MaxSettled, MaxFaults} \subseteq Nat
  /\ Winners \subseteq {"PlayerA", "PlayerB", "Draw"}
  /\ {PAGE_SIZE, STATS_WINDOW, HISTORY_LIMIT} \subseteq Nat \ {0}

VARIABLES
  games,     \* completed games and their settlements, in order of completion
  table,     \* page, how many rows it has, loading and error
  stats,     \* statsMatches, and whether they are asked for
  seen,      \* history: the games in the pages gone through one after the other, forward,
             \* besides those completed since the first of these pages was read, and
             \* since a row at or above the last of these games left the list
  faults

historyVars == <<games, table, stats, seen, faults>>

Game(pair, w, settled) ==
  [player_a |-> pair[1], player_b |-> pair[2], winner |-> w, settlement_winner |-> settled]

\* What GET /history answers with: the rows, each the place of a game.
listCompletedGames(limit, offset) ==
  LET n == IF limit < HISTORY_LIMIT THEN limit ELSE HISTORY_LIMIT
      newest == Reverse([i \in DOMAIN games |-> i]) IN
  SubSeq(newest, offset + 1, IF offset + n < Len(games) THEN offset + n ELSE Len(games))

HistoryInit ==
  /\ games \in UNION {[1 .. n -> {Game(pair, w, None) : pair \in Pairs, w \in Winners}] : n \in 0 .. FirstGames}
  /\ table = [page |-> 0, rows |-> 0, loading |-> TRUE, error |-> FALSE]
  /\ stats = [rows |-> <<>>, asked |-> address # None]
  /\ seen = {} /\ faults = 0

Fault == faults < MaxFaults /\ faults' = faults + 1

\* Elsewhere a game is completed, settled already or not, or it is settled later, with
\* the winner that was reported or another one.
MaySettle == Cardinality({k \in DOMAIN games : games[k].settlement_winner # None}) < MaxSettled

GameCompleted ==
  /\ Len(games) < MaxGames
  /\ \E pair \in Pairs, w \in Winners, settled \in {None} \cup (IF MaySettle THEN Winners ELSE {}) :
       games' = Append(games, Game(pair, w, settled))
  /\ UNCHANGED <<table, stats, seen, faults>>

GameSettled(i) ==
  /\ games[i].settlement_winner = None /\ MaySettle
  /\ \E w \in Winners : games' = [games EXCEPT ![i].settlement_winner = w]
  /\ UNCHANGED <<table, stats, seen, faults>>

\* The places of these games when the one in place i has left it.
Without(places, i) == {IF k > i THEN k - 1 ELSE k : k \in places \ {i}}

\* A game that was restored ends once more, maybe otherwise: completed_at is new.
GameCompletedAgain(i) ==
  /\ \E w \in Winners : games' = Append(RemoveAt(games, i), [games[i] EXCEPT !.winner = w])
  /\ seen' = Without(seen, i)
  /\ Fault
  /\ UNCHANGED <<table, stats>>

\* A late MarketLocked, or the relayer's own lock, sets the row's status to "locked".
\* All rows below it move up a place, of which a page that is asked for by its offset
\* takes no account: who had come as far as this row begins anew.
GameUncompleted(i) ==
  /\ games' = RemoveAt(games, i)
  /\ seen' = IF \E k \in seen : k <= i THEN {} ELSE Without(seen, i)
  /\ Fault
  /\ UNCHANGED <<table, stats>>

\* Mutant of Fetched: the offset counts pages of another size.
FetchedFarther == listCompletedGames(PAGE_SIZE, table.page * (PAGE_SIZE + 1))

Fetched == listCompletedGames(PAGE_SIZE, table.page * PAGE_SIZE)

\* fetchHistory; the buttons are not there while it is under way.
FetchHistory ==
  /\ table.loading
  /\ \/ LET rows == Fetched IN
        /\ table' = [table EXCEPT !.rows = Len(rows), !.loading = FALSE, !.error = FALSE]
        /\ seen' = IF seen = {} THEN ToSet(rows)
                   ELSE seen \cup {i \in ToSet(rows) : \E k \in seen : i <= k}
        /\ UNCHANGED faults
     \/ /\ Fault
        /\ table' = [table EXCEPT !.loading = FALSE, !.error = TRUE]
        /\ seen' = {}
  /\ UNCHANGED <<games, stats>>

\* The table and its buttons are there only if there are rows.
Buttons == ~table.loading /\ table.rows > 0

PrevPage ==
  /\ Buttons /\ table.page > 0
  /\ table' = [table EXCEPT !.page = @ - 1, !.loading = TRUE]
  /\ seen' = {}
  /\ UNCHANGED <<games, stats, faults>>

NextPage ==
  /\ Buttons /\ table.rows >= PAGE_SIZE
  /\ table' = [table EXCEPT !.page = @ + 1, !.loading = TRUE]
  /\ UNCHANGED <<games, stats, seen, faults>>

\* The effect of the page on the visitor's address, once that has changed.
AddressSeen ==
  stats' = IF address' = address THEN stats
           ELSE [rows |-> IF address' = None THEN <<>> ELSE stats.rows, asked |-> address' # None]

\* The rows as they are now; a failure leaves those that were there.
StatsRead ==
  /\ stats.asked
  /\ \/ LET rows == listCompletedGames(STATS_WINDOW, 0) IN
        stats' = [rows |-> [i \in DOMAIN rows |-> games[rows[i]]], asked |-> FALSE] /\ UNCHANGED faults
     \/ Fault /\ stats' = [stats EXCEPT !.asked = FALSE]
  /\ UNCHANGED <<games, table, seen>>
-----------------------------------------------------------------------------
(* lib/stats.ts *)

outcomeFor(m) ==
  LET winner == IF m.settlement_winner # None THEN m.settlement_winner ELSE m.winner IN
  CASE address \notin {m.player_a, m.player_b} -> None
    [] OTHER -> IF winner = "Draw" THEN "draw"
                ELSE IF (winner = "PlayerA") = (m.player_a = address) THEN "win" ELSE "loss"

Outcomes ==
  FoldLeft(LAMBDA known, m : IF outcomeFor(m) = None THEN known ELSE Append(known, outcomeFor(m)),
           <<>>, stats.rows)

Counted(kind) == LET o == Outcomes IN Cardinality({i \in DOMAIN o : o[i] = kind})

\* Mutant of bestStreak: a loss does not end the run.
BestOfAll ==
  LET longer(run, o) == IF o = "win" THEN [now |-> run.now + 1, best |-> run.now + 1] ELSE run
  IN  FoldRight(LAMBDA o, run : longer(run, o), Outcomes, [now |-> 0, best |-> 0]).best

\* The loop from the oldest outcome to the newest: the run so far, and the best.
bestStreak ==
  LET larger(m, n) == IF m < n THEN n ELSE m
      longer(run, o) == IF o = "win" THEN [now |-> run.now + 1, best |-> larger(run.best, run.now + 1)]
                        ELSE [run EXCEPT !.now = 0]
  IN  FoldRight(LAMBDA o, run : longer(run, o), Outcomes, [now |-> 0, best |-> 0]).best

\* The loop from the newest on, up to the first outcome of another kind.
currentStreak ==
  LET known == Outcomes IN
  FoldLeft(LAMBDA run, o : IF run.open /\ o = Head(known) THEN [run EXCEPT !.length = @ + 1]
                           ELSE [run EXCEPT !.open = FALSE],
           [length |-> 0, open |-> TRUE], known).length

computeMatchStats ==
  [total |-> Len(Outcomes), wins |-> Counted("win"), losses |-> Counted("loss"), draws |-> Counted("draw"),
   bestStreak |-> bestStreak, currentStreak |-> currentStreak]

HistoryStep ==
  \/ GameCompleted
  \/ \E i \in DOMAIN games : GameSettled(i) \/ GameCompletedAgain(i) \/ GameUncompleted(i)
  \/ FetchHistory \/ PrevPage \/ NextPage
  \/ StatsRead
=============================================================================
