----------------------------- MODULE EventMirror -----------------------------
(***************************************************************************)
(* The relayer's copy of one on-chain match: the event listener and its    *)
(* handlers, the dispute-window keeper, the reconciler and the result that *)
(* the game manager posts, with the rows they share.                       *)
(*                                                                         *)
(* The chain is a log of events in numbered ledgers; what a transaction    *)
(* may do to the match is a summary of the contracts (see MateFiChain).  A *)
(* ledger's number is also its time.  What a handler does between two      *)
(* awaits that another handler's step may fall into is a step of its own.  *)
(***************************************************************************)
EXTENDS Integers, Sequences, FiniteSetsExt

CONSTANTS
  MaxLedger,       \* bound: ledgers closed
  LedgerCapacity,  \* bound: events of this match in one ledger
  MaxRestarts,     \* bound: restarts of the relayer
  MaxFailures,     \* bound: calls that fail, to the database or to the RPC server
  ChallengeWindow, \* the window of the Settlement contract
  DEFAULT_CHALLENGE_WINDOW_SECS,   \* the window the listener is configured with
  EVENT_START_LOOKBACK_LEDGERS, PAGE_LIMIT,
  SeenLimit        \* the number of event ids kept (5000)

ASSUME MirrorAssumption ==
  /\ {MaxLedger, LedgerCapacity, PAGE_LIMIT} \subseteq Nat \ {0}
  /\ {MaxRestarts, MaxFailures, ChallengeWindow, DEFAULT_CHALLENGE_WINDOW_SECS,
      EVENT_START_LOOKBACK_LEDGERS, SeenLimit} \subseteq Nat

Winner == {"PlayerA", "PlayerB"}
None   == "None"

VARIABLES
  log,          \* every event emitted, in order
  ledger,       \* the latest ledger
  match,        \* the match as the contracts have it
  startLedger,  \* where the next poll begins, 0 when it is null
  seen,         \* the ids in seenEventIds (indices of log)
  page,         \* the events of this poll that are still to be handled, in their order
  poll,         \* this poll's answer: was the page full, its last ledger, the latest one
  step,         \* the handler of the page's first event: steps done
  row,          \* the games row
  dispute,      \* the dispute_state row
  settlement,   \* the settlements row
  traders,      \* the traders collection: outcomes bet on, one bet each
  poster,       \* the game manager's finishMatch
  reconciler,   \* reconcileOne
  delivered,    \* history: events whose handler has ended, well or not
  skipped,      \* history: events a first poll, or a failed one, moved the window past
  failures, restarts

chainVars    == <<log, ledger, match>>
listenerVars == <<startLedger, seen, page, poll, step, delivered, skipped>>
rowVars      == <<row, dispute, settlement, traders>>
callerVars   == <<poster, reconciler>>
vars == <<chainVars, listenerVars, rowVars, callerVars, failures, restarts>>

Idle    == [pc |-> "idle", winner |-> None]
NoPoll  == [on |-> FALSE, full |-> FALSE, top |-> 0, latest |-> 0]
Event(name, w) == [name |-> name, winner |-> w, ledger |-> ledger]

\* The relayer starts when the match has just been created, and joined or
\* cancelled, on-chain.
Init ==
  /\ ledger = 1
  /\ \E next \in {"MatchActive", "MatchCancelled"} :
       /\ log = <<Event("MatchCreated", None), Event(next, None)>>
       /\ match = [phase |-> IF next = "MatchActive" THEN "active" ELSE "cancelled",
                   reported |-> None, final |-> None, deadline |-> 0, disputed |-> FALSE,
                   locked |-> FALSE, bets |-> {}, paid |-> {}]
  /\ startLedger = 0 /\ seen = {} /\ page = {} /\ poll = NoPoll /\ step = 0
  /\ row = [status |-> "absent", winner |-> None]
  /\ dispute = [status |-> "absent", winner |-> None, submitted_at |-> 0, final_winner |-> None]
  /\ settlement = [winner |-> None, player_prize |-> FALSE, tx_hash |-> FALSE]
  /\ traders = {}
  /\ poster = Idle /\ reconciler = Idle
  /\ delivered = {} /\ skipped = {}
  /\ failures = 0 /\ restarts = 0

Lower(a, b)  == IF a < b THEN a ELSE b
Higher(a, b) == IF a < b THEN b ELSE a

Fails == failures < MaxFailures /\ failures' = failures + 1
-----------------------------------------------------------------------------
(* The chain *)

InLedger(n) == {i \in DOMAIN log : log[i].ledger = n}

\* Bets, locks and disputes find a ledger with room, and not the last one.
Room == ledger < MaxLedger /\ Cardinality(InLedger(ledger)) < LedgerCapacity

\* buy_outcome looks at the market alone: it takes bets until that is locked or settled.
BuyOutcome(o) ==
  /\ Room /\ match.phase \in {"active", "submitted", "disputed"} /\ ~match.locked
  /\ o \notin match.bets
  /\ match' = [match EXCEPT !.bets = @ \cup {o}]
  /\ log' = Append(log, Event("BetPlaced", o))

\* lock_market, by an evaluation that may arrive when the match is long over.
LockMarket ==
  /\ Room /\ match.phase # "cancelled" /\ ~match.locked
  /\ match' = [match EXCEPT !.locked = TRUE]
  /\ log' = Append(log, Event("MarketLocked", None))

\* post_result: the result may be reported once.
Reports(w) ==
  /\ match.phase = "active"
  /\ ledger + Higher(ChallengeWindow, DEFAULT_CHALLENGE_WINDOW_SECS) <= MaxLedger
  /\ Cardinality(InLedger(ledger)) < LedgerCapacity
  /\ match' = [match EXCEPT !.phase = "submitted", !.reported = w,
                            !.deadline = ledger + ChallengeWindow]
  /\ log' = Append(log, Event("ResultSubmitted", w))

OpenDispute ==
  /\ Room /\ match.phase = "submitted" /\ ledger < match.deadline
  /\ match' = [match EXCEPT !.phase = "disputed", !.disputed = TRUE]
  /\ log' = Append(log, Event("DisputeOpened", None))

Settled(w) == [match EXCEPT !.phase = "settled", !.final = w]

ResolveDispute(w) ==
  /\ match.phase = "disputed"
  /\ match' = Settled(w)
  /\ log' = log \o <<Event("DisputeResolved", w), Event("MatchSettled", w)>>

\* finalize, which anyone may call.
Finalizes ==
  /\ match.phase = "submitted" /\ match.deadline <= ledger
  /\ match' = Settled(match.reported)
  /\ log' = Append(log, Event("MatchSettled", match.reported))

LedgerCloses ==
  /\ ledger < MaxLedger
  /\ ledger' = ledger + 1
  /\ UNCHANGED <<log, match, listenerVars, rowVars, callerVars, failures, restarts>>

Transaction ==
  /\ \/ \E o \in Winner : BuyOutcome(o)
     \/ LockMarket \/ OpenDispute \/ Finalizes
     \/ \E w \in Winner : ResolveDispute(w)
  /\ UNCHANGED <<ledger, listenerVars, rowVars, callerVars, failures, restarts>>
-----------------------------------------------------------------------------
(* eventListener.ts: polling *)

From == IF startLedger = 0 THEN Higher(1, ledger - EVENT_START_LOOKBACK_LEDGERS) ELSE startLedger

\* Events that a poll from this ledger on will not ask for.
Before(n) == {i \in DOMAIN log : log[i].ledger < n}

\* poll, up to the first event: getLatestLedger when it is the first poll, and
\* getEvents, whose answer is the first PAGE_LIMIT events.  Polls do not overlap.
PollStarts ==
  /\ ~poll.on
  /\ LET asked  == DOMAIN log \ Before(From)
         answer == {i \in asked : i - PAGE_LIMIT \notin asked} IN
     /\ page' = answer \ seen
     /\ poll' = [on |-> TRUE, full |-> Cardinality(answer) = PAGE_LIMIT,
                 top |-> IF answer = {} THEN 0 ELSE log[Max(answer)].ledger, latest |-> ledger]
     /\ startLedger' = From
     /\ skipped' = IF startLedger = 0 THEN skipped \cup (Before(From) \ delivered) ELSE skipped
  /\ UNCHANGED <<chainVars, seen, step, delivered, rowVars, callerVars, failures, restarts>>

\* getEvents throws: the window is moved to the head of the chain if the message
\* is about ledgers, else the next poll asks again.
PollFails ==
  /\ ~poll.on /\ startLedger # 0 /\ Fails
  /\ startLedger' \in {startLedger, ledger}
  /\ skipped' = IF startLedger' = startLedger THEN skipped
                ELSE skipped \cup (Before(ledger) \ delivered)
  /\ UNCHANGED <<chainVars, seen, page, poll, step, delivered, rowVars, callerVars, restarts>>

\* Mutant of PollEnds: the last ledger of a full page is taken for finished.
PollEndsPastPage ==
  /\ poll.on /\ page = {}
  /\ startLedger' = IF poll.full THEN poll.top + 1 ELSE Higher(startLedger, poll.latest)
  /\ seen' = IF Cardinality(seen) > SeenLimit THEN {} ELSE seen
  /\ poll' = NoPoll
  /\ UNCHANGED <<chainVars, page, step, delivered, skipped, rowVars, callerVars, failures, restarts>>

\* The rest of poll: a full page is resumed at its last ledger.
PollEnds ==
  /\ poll.on /\ page = {}
  /\ startLedger' = IF poll.full THEN poll.top ELSE Higher(startLedger, poll.latest)
  /\ seen' = IF Cardinality(seen) > SeenLimit THEN {} ELSE seen
  /\ poll' = NoPoll
  /\ UNCHANGED <<chainVars, page, step, delivered, skipped, rowVars, callerVars, failures, restarts>>
-----------------------------------------------------------------------------
(* eventListener.ts: handleEvent, with the queries it uses *)

\* An event's id is kept before its handler runs, whatever becomes of it.
HandlerEnds ==
  /\ seen' = seen \cup {Min(page)} /\ delivered' = delivered \cup {Min(page)}
  /\ page' = page \ {Min(page)} /\ step' = 0

HandlerGoesOn == step' = step + 1 /\ UNCHANGED <<seen, delivered, page>>

HandlerFails ==
  /\ page # {} /\ Fails
  /\ HandlerEnds
  /\ UNCHANGED <<chainVars, startLedger, poll, skipped, rowVars, callerVars, restarts>>

Created(r)   == IF r.status = "absent" THEN [r EXCEPT !.status = "open"] ELSE r
Activated(r) == IF r.status = "open" THEN [r EXCEPT !.status = "active"] ELSE r

\* The row after the match is announced; its GameState is GameManager's.
MatchActive(r) ==
  IF r.status \in {"completed", "cancelled"} THEN r ELSE Activated(Created(r))

\* updateGameStatus does not create a row.
Updated(r, status) == IF r.status = "absent" THEN r ELSE [r EXCEPT !.status = status]

HandlesGame(e) ==
  /\ e.name \in {"MatchCreated", "MatchActive", "MatchCancelled", "MarketLocked"}
  /\ row' = CASE e.name = "MatchCreated"   -> Created(row)
              [] e.name = "MatchActive"    -> MatchActive(row)
              [] e.name = "MatchCancelled" -> Updated(row, "cancelled")
              [] OTHER                     -> Updated(row, "locked")
  /\ HandlerEnds
  /\ UNCHANGED <<match, dispute, settlement, traders>>

\* insertTrader is idempotent for a bet with a transaction hash.
HandlesBet(e) ==
  /\ e.name = "BetPlaced"
  /\ traders' = traders \cup {e.winner}
  /\ HandlerEnds
  /\ UNCHANGED <<match, row, dispute, settlement>>

UpsertSubmitted(w, at) ==
  [status |-> "pending", winner |-> w, submitted_at |-> at, final_winner |-> None]

\* markDisputed and markFinalized: neither creates a row.
Marked(status, w) ==
  IF dispute.status = "absent" THEN dispute
  ELSE [dispute EXCEPT !.status = status, !.final_winner = w]

HandlesDispute(e) ==
  /\ e.name \in {"ResultSubmitted", "DisputeOpened", "DisputeResolved"}
  /\ dispute' = CASE e.name = "ResultSubmitted" -> UpsertSubmitted(e.winner, e.ledger)
                  [] e.name = "DisputeOpened"   -> Marked("disputed", dispute.final_winner)
                  [] OTHER                      -> dispute
  /\ HandlerEnds
  /\ UNCHANGED <<match, row, settlement, traders>>

\* Mutant of RecordSettlement: the winner recorded first stays.
FirstSettlementStays(w, prize, hash) ==
  settlement' = [winner |-> IF settlement.winner = None THEN w ELSE settlement.winner,
                 player_prize |-> settlement.player_prize \/ prize,
                 tx_hash |-> settlement.tx_hash \/ hash]

\* recordSettlement: a value that is given wins over the recorded one.
RecordSettlement(w, prize, hash) ==
  settlement' = [winner |-> w, player_prize |-> settlement.player_prize \/ prize,
                 tx_hash |-> settlement.tx_hash \/ hash]

\* Mutant of PaysWinners: it pays the outcomes that lost.
PaysLosers(w) == match' = [match EXCEPT !.paid = @ \cup (traders \ {w})]

\* payWinningTraders: one pay_trader call for each winning trader that is known;
\* the contract pays once, and only when the match is settled for that outcome.
PaysWinners(w) ==
  match' = IF match.phase = "settled" /\ match.final = w
           THEN [match EXCEPT !.paid = @ \cup (traders \cap {w})] ELSE match

\* A payment that fails is logged, and the handler goes on.
PaymentFails(w) == w \in traders /\ Fails /\ UNCHANGED match

HandlesSettled(e) ==
  /\ e.name = "MatchSettled"
  /\ CASE step = 0 -> /\ RecordSettlement(e.winner, TRUE, TRUE) /\ HandlerGoesOn
                      /\ UNCHANGED <<match, dispute, failures>>
       [] step = 1 -> /\ dispute' = Marked("finalized", e.winner) /\ HandlerGoesOn
                      /\ UNCHANGED <<match, settlement, failures>>
       [] OTHER    -> /\ \/ PaysWinners(e.winner) /\ UNCHANGED failures
                         \/ PaymentFails(e.winner)
                      /\ HandlerEnds
                      /\ UNCHANGED <<settlement, dispute>>
  /\ UNCHANGED <<row, traders>>

HandleEvent ==
  /\ page # {}
  /\ LET e == log[Min(page)] IN
       \/ (HandlesGame(e) \/ HandlesBet(e) \/ HandlesDispute(e)) /\ UNCHANGED failures
       \/ HandlesSettled(e)
  /\ UNCHANGED <<log, ledger, startLedger, poll, skipped, callerVars, restarts>>
-----------------------------------------------------------------------------
(* disputeWindowKeeper.ts *)

\* Mutant of PastWindow: only the moment at which the window ends counts.
PastWindowOnce ==
  dispute.status = "pending" /\ dispute.submitted_at + DEFAULT_CHALLENGE_WINDOW_SECS = ledger

\* listPendingPastWindow, with the window the listener was configured with.
PastWindow ==
  dispute.status = "pending" /\ dispute.submitted_at + DEFAULT_CHALLENGE_WINDOW_SECS <= ledger

\* tick: a call that the contract refuses is logged and made again next time.
KeeperTick ==
  /\ PastWindow
  /\ IF match.phase = "submitted" /\ match.deadline <= ledger THEN Finalizes
     ELSE UNCHANGED <<log, match>>
  /\ UNCHANGED <<ledger, listenerVars, rowVars, callerVars, failures, restarts>>
-----------------------------------------------------------------------------
(* gameManager.ts: finishMatch, as far as the rows here are concerned *)

GameEnds(w) ==
  /\ poster.pc = "idle" /\ row.status \in {"active", "locked"} /\ match.phase # "cancelled"
  /\ poster' = [pc |-> "post", winner |-> w]
  /\ UNCHANGED <<chainVars, listenerVars, rowVars, reconciler, failures, restarts>>

\* The call of postResult at pc "post" of a caller, and what it does next: the
\* result is reported; it is reported but not confirmed in time; it is refused
\* because there is one already; or it fails before it gets to the chain.
Posts(caller, then, otherwise) ==
  \/ Reports(caller.winner) /\ then /\ UNCHANGED failures
  \/ Reports(caller.winner) /\ otherwise /\ Fails
  \/ match.phase # "active" /\ otherwise /\ UNCHANGED <<log, match, failures>>
  \/ otherwise /\ Fails /\ UNCHANGED <<log, match>>

\* settleMatch: an error is logged, and there is no row.
ResultPosted ==
  /\ poster.pc = "post"
  /\ Posts(poster, poster' = [poster EXCEPT !.pc = "record"],
                   poster' = [poster EXCEPT !.pc = "complete"])
  /\ UNCHANGED <<ledger, listenerVars, rowVars, reconciler, restarts>>

ResultRecorded ==
  /\ poster.pc = "record" /\ poster' = [poster EXCEPT !.pc = "complete"]
  /\ \/ RecordSettlement(poster.winner, FALSE, TRUE) /\ UNCHANGED failures
     \/ UNCHANGED settlement /\ Fails
  /\ UNCHANGED <<chainVars, listenerVars, row, dispute, traders, reconciler, restarts>>

GameCompleted ==
  /\ poster.pc = "complete" /\ poster' = Idle
  /\ row' = [status |-> "completed", winner |-> poster.winner]
  /\ UNCHANGED <<chainVars, listenerVars, dispute, settlement, traders, reconciler,
                 failures, restarts>>
-----------------------------------------------------------------------------
(* reconcile.ts, run at the start or by hand, and so at any time *)

\* listCompletedGames and getMarket: the market is not settled.
ReconcileStarts ==
  /\ reconciler.pc = "idle"
  /\ row.status = "completed" /\ ~settlement.tx_hash
  /\ match.phase # "settled"
  /\ reconciler' = [pc |-> "post", winner |-> row.winner]
  /\ UNCHANGED <<chainVars, listenerVars, rowVars, poster, failures, restarts>>

\* Mutant of ReconcilePosts: an error does not keep it from recording.
ReconcilePostsAnyway ==
  /\ reconciler.pc = "post"
  /\ Posts(reconciler, reconciler' = [reconciler EXCEPT !.pc = "record"],
                       reconciler' = [reconciler EXCEPT !.pc = "record"])
  /\ UNCHANGED <<ledger, listenerVars, rowVars, poster, restarts>>

ReconcilePosts ==
  /\ reconciler.pc = "post"
  /\ Posts(reconciler, reconciler' = [reconciler EXCEPT !.pc = "record"], reconciler' = Idle)
  /\ UNCHANGED <<ledger, listenerVars, rowVars, poster, restarts>>

\* recordSettlement, and payments that the contract refuses during the window.
ReconcileRecords ==
  /\ reconciler.pc = "record" /\ reconciler' = Idle
  /\ RecordSettlement(reconciler.winner, FALSE, TRUE)
  /\ PaysWinners(reconciler.winner)
  /\ UNCHANGED <<log, ledger, listenerVars, row, dispute, traders, poster, failures, restarts>>

\* The relayer restarts: what it knows is what is in the database.
Restart ==
  /\ restarts < MaxRestarts /\ restarts' = restarts + 1
  /\ startLedger' = 0 /\ seen' = {} /\ page' = {} /\ poll' = NoPoll /\ step' = 0
  /\ poster' = Idle /\ reconciler' = Idle
  /\ UNCHANGED <<chainVars, rowVars, delivered, skipped, failures>>

Listens == PollStarts \/ PollEnds \/ HandleEvent
Works   == ResultPosted \/ ResultRecorded \/ GameCompleted \/ ReconcilePosts \/ ReconcileRecords

Next ==
  \/ Transaction \/ LedgerCloses
  \/ Listens \/ PollFails \/ HandlerFails \/ KeeperTick
  \/ \E w \in Winner : GameEnds(w)
  \/ Works \/ ReconcileStarts \/ Restart

Spec == Init /\ [][Next]_vars
=============================================================================
