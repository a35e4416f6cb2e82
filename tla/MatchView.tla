------------------------------ MODULE MatchView ------------------------------
(***************************************************************************)
(* The page of one match in one browser, and what the relayer serves it:   *)
(* the REST snapshot, which is several reads one after the other, and the  *)
(* messages of the match's room, which reach the sockets that are open and *)
(* no other.                                                               *)
(*                                                                         *)
(* A position is the number of half-moves played; the visitor plays black, *)
(* on odd ones.  The relayer's handlers are those of GameManager and       *)
(* EventMirror, reduced to the order in which they write and broadcast     *)
(* what the page can see.                                                  *)
(***************************************************************************)
EXTENDS Integers, Sequences, FiniteSets

CONSTANTS
  MaxMoves,     \* bound: half-moves
  MaxLag,       \* bound: messages on their way
  Winner,       \* the players who may win
  MaxLoads,     \* bound: loads under way at once
  MaxFaults,    \* bound: connections lost and requests that fail
  MATCH_RETRY_ATTEMPTS

ASSUME ViewAssumption ==
  /\ {MaxMoves, MaxLoads, MaxLag} \subseteq Nat \ {0} /\ "None" \notin Winner
  /\ {MaxFaults, MATCH_RETRY_ATTEMPTS} \subseteq Nat

None  == "None"
Loads == 1 .. MaxLoads

VARIABLES
  server,   \* the rows of the match, its board and the chain, as the relayer has them
  tasks,    \* what the relayer's handlers still have to do after an await
  socket,   \* is the connection of useMatch open
  inbox,    \* messages on their way to useMatch
  record,   \* status in the page's match record, None before it is loaded
  live,     \* LiveMatchState
  dispute,  \* disputeStatus of useAntiCheat
  loads,    \* the calls of load under way
  move,     \* the POST of the visitor's move
  faults,
  crossed   \* history: a message was lost, or crossed a snapshot on its way

relayerVars == <<server, tasks>>
viewVars    == <<record, live, dispute>>
vars == <<relayerVars, socket, inbox, viewVars, loads, move, faults, crossed>>

NoLoad == [pc |-> "none"]
NoMove == [pc |-> "none", from |-> 0]

INITIAL_LIVE ==
  [fen |-> 0, history |-> <<>>, locked |-> FALSE, over |-> FALSE, winner |-> None,
   clock |-> FALSE]

\* The page is opened when the match exists, whether or not the relayer has
\* seen its creation; both sockets connect while it loads.
Init ==
  /\ \E status \in {"absent", "open"} :
       server = [status |-> status, ply |-> 0, stored |-> 0, fen |-> 0, over |-> FALSE,
                 winner |-> None, reported |-> None, dispute |-> "none"]
  /\ tasks = {}
  /\ socket = FALSE /\ inbox = <<>>
  /\ record = None /\ live = INITIAL_LIVE /\ dispute = "none"
  /\ loads = [l \in Loads |-> IF l = 1 THEN [pc |-> "row", tries |-> 0] ELSE NoLoad]
  /\ move = NoMove
  /\ faults = 0
  /\ crossed = FALSE

Fails == faults < MaxFaults /\ faults' = faults + 1
-----------------------------------------------------------------------------
(* websocket/server.ts and useWebSocket *)

\* The messages of the room that the board and its panels act on; BET_PLACED is
\* in TradingPanel.
WsEvent ==
  [type : {"MATCH_STARTED", "MARKET_LOCKED", "SETTLEMENT_DONE"}]
    \cup [type : {"MOVE"}, fen : 0 .. MaxMoves] \cup [type : {"GAME_OVER"}, winner : Winner]

\* A snapshot that is being read no longer is of one moment.
Overtaken ==
  loads' = [l \in Loads |-> IF "clean" \in DOMAIN loads[l]
                            THEN [loads[l] EXCEPT !.clean = FALSE] ELSE loads[l]]

Silently == Overtaken /\ UNCHANGED <<inbox, dispute, crossed>>

\* broadcastToMatch: to the socket if it is open; nothing is kept for one that is not.
Send(e) ==
  /\ Len(inbox) < MaxLag
  /\ inbox' = IF socket THEN Append(inbox, e) ELSE inbox
  /\ crossed' = (crossed \/ ~socket)

Broadcast(e) == Send(e) /\ Overtaken /\ UNCHANGED dispute

\* useAntiCheat has a socket of its own, open or not.  What it is told crosses
\* nothing else that it reads: it is heard at once or never.
Heard(status) == dispute' \in {status, dispute} /\ Overtaken

\* On mount, and when the timer of scheduleReconnect fires.
Connects ==
  /\ ~socket /\ socket' = TRUE
  /\ UNCHANGED <<inbox, crossed, faults>>

\* onclose; what the server had sent is gone with the connection.
Drops ==
  /\ socket /\ Fails
  /\ socket' = FALSE /\ inbox' = <<>> /\ crossed' = (crossed \/ inbox # <<>>)

SocketStep ==
  /\ Connects \/ Drops
  /\ UNCHANGED <<relayerVars, viewVars, loads, move>>
-----------------------------------------------------------------------------
(* The relayer's handlers, between their awaits.  A write and the message    *)
(* that follows it are one step: the message may take its time.              *)

InPlay  == server.status \in {"active", "locked"} /\ ~server.over
Storing == tasks \cap {"insert", "fen"} # {}

\* MatchCreated, MatchActive and MatchCancelled.
Created ==
  /\ server.status = "absent"
  /\ server' = [server EXCEPT !.status = "open"] /\ UNCHANGED tasks /\ Silently

Activated ==
  /\ server.status = "open"
  /\ server' = [server EXCEPT !.status = "active"] /\ UNCHANGED tasks
  /\ Broadcast([type |-> "MATCH_STARTED"])

Cancelled ==
  /\ server.status = "open"
  /\ server' = [server EXCEPT !.status = "cancelled"] /\ UNCHANGED tasks /\ Silently

\* submitMove: on the board, then among the moves, then in the games row.
OnBoard ==
  /\ server' = [server EXCEPT !.ply = @ + 1] /\ tasks' = tasks \cup {"insert"}
  /\ Silently

OtherMove == InPlay /\ ~Storing /\ server.ply < MaxMoves /\ OnBoard

\* A mutant: the room hears of a move before it is stored.
MoveSentFirst ==
  /\ "insert" \in tasks /\ tasks' = (tasks \ {"insert"}) \cup {"fen"}
  /\ UNCHANGED server /\ Broadcast([type |-> "MOVE", fen |-> server.ply])

MoveInserted ==
  /\ "insert" \in tasks /\ tasks' = (tasks \ {"insert"}) \cup {"fen"}
  /\ server' = [server EXCEPT !.stored = server.ply] /\ Silently

MoveSent ==
  /\ "fen" \in tasks /\ tasks' = tasks \ {"fen"}
  /\ server' = [server EXCEPT !.fen = server.ply]
  /\ Broadcast([type |-> "MOVE", fen |-> server.ply])

\* handleLock.
Locked ==
  /\ InPlay /\ server.status = "active"
  /\ server' = [server EXCEPT !.status = "locked"] /\ UNCHANGED tasks
  /\ Broadcast([type |-> "MARKET_LOCKED"])

\* The game ends on the board; finishMatch posts the result, or fails to, and
\* says so to the room; then completeGame.
Ended ==
  /\ InPlay
  /\ \E w \in Winner : server' = [server EXCEPT !.over = TRUE, !.winner = w]
  /\ tasks' = tasks \cup {"post"} /\ Silently

Posted ==
  /\ "post" \in tasks /\ tasks' = (tasks \ {"post"}) \cup {"complete"}
  /\ \/ server' = [server EXCEPT !.reported = server.winner]
     \/ UNCHANGED server
  /\ Broadcast([type |-> "GAME_OVER", winner |-> server.winner])

Completed ==
  /\ "complete" \in tasks /\ tasks' = tasks \ {"complete"}
  /\ server' = [server EXCEPT !.status = "completed"] /\ Silently

\* ResultSubmitted, DisputeOpened, DisputeResolved and MatchSettled.
\* The arbiter's decision and the settlement it causes come one after the other.
Result(from, to) ==
  /\ server.reported # None /\ tasks = {} /\ server.dispute = from
  /\ server' = [server EXCEPT !.dispute = to]
  /\ UNCHANGED tasks

Results ==
  \/ Result("none", "submitted") /\ Heard("submitted") /\ UNCHANGED <<inbox, crossed>>
  \/ Result("submitted", "disputed") /\ Heard("disputed") /\ UNCHANGED <<inbox, crossed>>
  \/ Result("disputed", "finalized") /\ Heard("finalized") /\ Send([type |-> "SETTLEMENT_DONE"])
  \/ Result("submitted", "finalized") /\ UNCHANGED dispute /\ Overtaken /\ Send([type |-> "SETTLEMENT_DONE"])

RelayerStep ==
  /\ \/ Created \/ Activated \/ Cancelled
     \/ OtherMove \/ MoveInserted \/ MoveSent
     \/ Locked \/ Ended \/ Posted \/ Completed
     \/ Results
  /\ UNCHANGED <<socket, record, live, move, faults>>
-----------------------------------------------------------------------------
(* useMatch: messages *)

Moved(e)      == [live EXCEPT !.fen = e.fen, !.history = Append(@, e.fen), !.clock = TRUE]
GameOver(e)   == [live EXCEPT !.over = TRUE, !.winner = e.winner, !.clock = FALSE]

Handled(e) ==
  CASE e.type = "MOVE"            -> Moved(e)
    [] e.type = "MARKET_LOCKED"   -> [live EXCEPT !.locked = TRUE]
    [] e.type = "GAME_OVER"       -> GameOver(e)
    [] e.type = "SETTLEMENT_DONE" -> [live EXCEPT !.over = TRUE]
    [] OTHER                      -> live

Receives ==
  /\ inbox # <<>> /\ inbox' = Tail(inbox)
  /\ live' = Handled(Head(inbox))
  /\ record' = IF Head(inbox).type = "MATCH_STARTED" /\ record # None THEN "active" ELSE record
  /\ Overtaken
  /\ UNCHANGED <<relayerVars, socket, dispute, move, faults, crossed>>
-----------------------------------------------------------------------------
(* useMatch: load, step by step, and GET /matches/:matchId behind it *)

Goes(l, to) == loads' = [loads EXCEPT ![l] = to]

\* A 404 is tried again, MATCH_RETRY_ATTEMPTS times; then the load ends in error.
NotFound(l) ==
  /\ loads[l].pc = "row" /\ server.status = "absent"
  /\ Goes(l, IF loads[l].tries < MATCH_RETRY_ATTEMPTS
             THEN [loads[l] EXCEPT !.tries = @ + 1] ELSE NoLoad)
  /\ UNCHANGED <<record, live, faults, crossed>>

\* The games row first; the snapshot is clean while nothing has happened since.
ReadsRow(l) ==
  /\ loads[l].pc = "row" /\ server.status # "absent"
  /\ Goes(l, [pc |-> "rest", status |-> server.status, fen |-> server.fen,
              winner |-> IF server.status = "completed" THEN server.winner ELSE None,
              clean |-> tasks = {} /\ inbox = <<>>])
  /\ UNCHANGED <<record, live, faults, crossed>>

\* listMoves and getSettlement, then getLiveClocks: null unless the game is live.
ReadsRest(l) ==
  /\ loads[l].pc = "rest"
  /\ Goes(l, [pc |-> "reply", status |-> loads[l].status, fen |-> loads[l].fen,
              winner |-> loads[l].winner, moves |-> server.stored,
              clean |-> loads[l].clean,
              running |-> IF server.status \in {"active", "locked"} THEN ~server.over
                          ELSE loads[l].status \in {"active", "locked"}])
  /\ UNCHANGED <<record, live, faults, crossed>>

\* Mutants: the snapshot's moves are put after those that were heard, or what it
\* says of the end of the game replaces what was heard.
MergeAppends(s) ==
  [live EXCEPT !.fen = s.fen, !.history = @ \o [i \in 1 .. s.moves |-> i], !.clock = s.running,
               !.locked = @ \/ s.status = "locked", !.over = @ \/ s.status = "completed",
               !.winner = IF @ # None THEN @ ELSE s.winner]

MergeOverwrites(s) ==
  [live EXCEPT !.fen = s.fen, !.history = [i \in 1 .. s.moves |-> i], !.clock = s.running,
               !.locked = s.status = "locked", !.over = s.status = "completed",
               !.winner = s.winner]

\* What is heard stays; what is not said in messages alone is replaced.
Merge(s) ==
  [live EXCEPT !.fen = s.fen, !.history = [i \in 1 .. s.moves |-> i],
               !.locked = @ \/ s.status = "locked", !.over = @ \/ s.status = "completed",
               !.winner = IF @ # None THEN @ ELSE s.winner,
               !.clock = s.running]

Applies(l) ==
  /\ loads[l].pc = "reply"
  /\ record' = loads[l].status /\ live' = Merge(loads[l])
  /\ Goes(l, NoLoad)
  /\ crossed' = ~loads[l].clean
  /\ UNCHANGED faults

\* The error is shown, and what the page has stays.
LoadFails(l) ==
  /\ loads[l].pc # "none" /\ Fails /\ Goes(l, NoLoad)
  /\ UNCHANGED <<record, live, crossed>>

\* Every three seconds while the match is open.  A mutant: only before it is loaded.
PollsUnloaded(l) ==
  /\ record = None /\ loads[l].pc = "none"
  /\ Goes(l, [pc |-> "row", tries |-> 0])
  /\ UNCHANGED <<record, live, faults, crossed>>

Polls(l) ==
  /\ record = "open" /\ loads[l].pc = "none"
  /\ Goes(l, [pc |-> "row", tries |-> 0])
  /\ UNCHANGED <<record, live, faults, crossed>>

LoadGoesOn(l) ==
  NotFound(l) \/ ReadsRow(l) \/ ReadsRest(l) \/ Applies(l)

LoadStep ==
  /\ \E l \in Loads : LoadGoesOn(l) \/ LoadFails(l) \/ Polls(l)
  /\ UNCHANGED <<relayerVars, socket, inbox, dispute, move>>
-----------------------------------------------------------------------------
(* The board, and POST /matches/:matchId/move *)

isMyTurn == live.fen % 2 = 1

canInteract ==
  /\ record # None /\ ~(live.over \/ record = "open")
  /\ move.pc = "none" /\ isMyTurn

commitMove ==
  /\ canInteract
  /\ move' = [pc |-> "sent", from |-> live.fen]
  /\ UNCHANGED <<relayerVars, loads, faults>>

\* The relayer takes it if it is the visitor's turn, and the move, made on the
\* board that was shown, is legal on the board there is.
MoveTaken ==
  /\ move.pc = "sent" /\ InPlay /\ ~Storing
  /\ server.ply % 2 = 1 /\ server.ply < MaxMoves
  /\ OnBoard
  /\ move' = [move EXCEPT !.pc = "taken"]
  /\ UNCHANGED faults

MoveRejected ==
  /\ move.pc = "sent"
  /\ ~InPlay \/ server.ply % 2 = 0 \/ server.ply # move.from \/ server.ply = MaxMoves
  /\ move' = NoMove /\ UNCHANGED <<relayerVars, loads, faults>>

\* The answer follows the writes, or gets lost: the page then says that the move
\* was rejected and puts its board back to what it has.
Answered ==
  /\ move.pc = "taken" /\ ~Storing
  /\ move' = NoMove /\ UNCHANGED <<relayerVars, loads, faults>>

AnswerLost ==
  /\ move.pc # "none" /\ Fails
  /\ move' = NoMove /\ UNCHANGED <<relayerVars, loads>>

BoardStep ==
  /\ commitMove \/ MoveTaken \/ MoveRejected \/ Answered \/ AnswerLost
  /\ UNCHANGED <<socket, inbox, viewVars, crossed>>

Next == SocketStep \/ RelayerStep \/ Receives \/ LoadStep \/ BoardStep

Spec == Init /\ [][Next]_vars
-----------------------------------------------------------------------------
(* What the page offers *)

\* The phase of the trading panel, whose form is there only while it is open.
Phase == IF live.over THEN "settled" ELSE IF live.locked THEN "locked" ELSE "open"

\* The modal, and in it the button of a player's page.
SettlementModal == live.over /\ live.winner # None
DisputeButton   == SettlementModal /\ dispute = "submitted"
=============================================================================
