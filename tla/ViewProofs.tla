----------------------------- MODULE ViewProofs -----------------------------
(***************************************************************************)
(* Proofs about the page of a match: it knows of nothing that has not      *)
(* happened, forgets nothing that it was told of the end, and shows the    *)
(* match as it is when no message was lost and none crosses its snapshots. *)
(***************************************************************************)
EXTENDS ViewProperties, TLAPS

Status  == {"absent", "open", "active", "locked", "completed", "cancelled"}
Stage   == {"none", "submitted", "disputed", "finalized"}
Decided == Winner \cup {None}
Going   == {"active", "locked", "completed"}
ServerType == [status : Status, ply : 0 .. MaxMoves, stored : Nat, fen : Nat, over : BOOLEAN,
               winner : Decided, reported : Decided, dispute : Stage]
LiveType == [fen : Nat, history : Seq(Nat), locked : BOOLEAN, over : BOOLEAN, winner : Decided,
             clock : BOOLEAN]
LoadType ==
  {NoLoad} \cup [pc : {"row"}, tries : Nat]
    \cup [pc : {"rest"}, status : Status, fen : Nat, winner : Decided, clean : BOOLEAN]
    \cup [pc : {"reply"}, status : Status, fen : Nat, winner : Decided, moves : Nat,
          clean : BOOLEAN, running : BOOLEAN]

\* The relayer stores one move at a time, and ends a game once.
ServerInv ==
  /\ server \in ServerType /\ tasks \subseteq {"insert", "fen", "post", "complete"}
  /\ "insert" \in tasks => server.ply = server.stored + 1 /\ server.fen = server.stored
  /\ "fen" \in tasks => server.ply = server.stored /\ server.ply = server.fen + 1
  /\ ~Storing => server.ply = server.stored /\ server.ply = server.fen
  /\ tasks # {} \/ server.over => server.status \in Going
  /\ tasks \cap {"post", "complete"} # {} \/ server.status = "completed" => server.over
  /\ server.over => server.status = "completed" \/ tasks \cap {"post", "complete"} # {}
  /\ server.winner # None <=> server.over
  /\ server.reported # None => server.over

\* What is on its way to the page has happened.
SentHolds(e) ==
  /\ e.type = "MOVE" => e.fen <= server.fen /\ e.fen <= server.stored /\ server.status \in Going
  /\ e.type = "GAME_OVER" => server.over /\ e.winner = server.winner
  /\ e.type = "SETTLEMENT_DONE" => server.over
  /\ e.type = "MARKET_LOCKED" => server.status \in {"locked", "completed"}
  /\ e.type = "MATCH_STARTED" => server.status \in Going

InboxInv ==
  /\ inbox \in Seq(WsEvent) /\ (~socket => inbox = <<>>)
  /\ \A i \in DOMAIN inbox : SentHolds(inbox[i])

\* What the page has has happened.
LiveInv ==
  /\ record \in (Status \ {"absent"}) \cup {None} /\ live \in LiveType /\ dispute \in Stage
  /\ live.fen <= server.fen
  /\ \A i \in DOMAIN live.history : live.history[i] <= server.stored
  /\ live.winner \in {None, server.winner}
  /\ live.winner # None => live.over
  /\ live.over => server.over
  /\ live.locked => server.status \in {"locked", "completed"}
  /\ live.clock => server.status \in Going
  /\ record # None => server.status # "absent"
  /\ dispute # "none" => server.reported # None

\* What a load has read has happened; a clean one has read what there is now.
ReadHolds(s) ==
  /\ s.status # "absent" /\ server.status # "absent" /\ s.fen <= server.fen
  /\ s.winner \in {None, server.winner} /\ (s.winner # None => s.status = "completed")
  /\ s.status = "completed" => server.status = "completed"
  /\ s.status = "locked" => server.status \in {"locked", "completed"}
  /\ s.status \in Going => server.status \in Going

Fresh(s) ==
  /\ tasks = {} /\ inbox = <<>>
  /\ s.status = server.status /\ s.fen = server.fen
  /\ server.status = "completed" => s.winner = server.winner

LoadHolds(s) ==
  /\ s.pc \in {"rest", "reply"} => ReadHolds(s) /\ (s.clean => Fresh(s))
  /\ s.pc = "reply" => /\ s.moves <= server.stored /\ (s.clean => s.moves = server.stored)
                       /\ s.running => server.status \in Going

LoadsInv == loads \in [Loads -> LoadType] /\ \A l \in Loads : LoadHolds(loads[l])

\* The messages on their way are all that the page has yet to hear: the moves one after
\* the other, the result and the lock.
Has(type) == \E i \in DOMAIN inbox : inbox[i].type = type
IsMove(i) == inbox[i].type = "MOVE"

Follows ==
  /\ live.history = [i \in 1 .. live.fen |-> i]
  /\ \A i, j \in DOMAIN inbox : IsMove(i) /\ IsMove(j) /\ i < j => inbox[i].fen < inbox[j].fen
  /\ \A i \in DOMAIN inbox : IsMove(i) => live.fen < inbox[i].fen
  /\ \A n \in Nat : live.fen < n /\ n <= server.fen =>
       \E i \in DOMAIN inbox : IsMove(i) /\ inbox[i].fen = n
  /\ server.over /\ live.winner = None => "post" \in tasks \/ Has("GAME_OVER")
  /\ server.status = "locked" => live.locked \/ Has("MARKET_LOCKED")

FollowInv == ~crossed /\ record # None => Follows

ViewInv == ServerInv /\ InboxInv /\ LiveInv /\ LoadsInv /\ FollowInv

\* What has happened stays so.
ServerGoesOn ==
  /\ server.fen <= server'.fen /\ server.stored <= server'.stored
  /\ server.status # "absent" => server'.status # "absent"
  /\ server.status \in Going => server'.status \in Going
  /\ server.status \in {"locked", "completed"} => server'.status \in {"locked", "completed"}
  /\ server.status = "completed" => server'.status = "completed"
  /\ server.over => server'.over /\ server'.winner = server.winner
  /\ server.reported # None => server'.reported # None
-----------------------------------------------------------------------------
(* The relayer *)

\* The match is created, joined or cancelled.
LEMMA ServerStarts ==
  ASSUME ServerInv, Created \/ Activated \/ Cancelled
  PROVE  ServerInv' /\ ServerGoesOn
<1>1. /\ server \in ServerType /\ tasks' = tasks /\ server.status \in {"absent", "open"}
      /\ \E status \in {"open", "active", "cancelled"} : server' = [server EXCEPT !.status = status]
  BY DEF ServerInv, Created, Activated, Cancelled
<1>2. PICK status \in {"open", "active", "cancelled"} : server' = [server EXCEPT !.status = status]
  BY <1>1
<1>3. /\ server' \in ServerType /\ server'.status = status /\ server'.ply = server.ply
      /\ server'.stored = server.stored /\ server'.fen = server.fen /\ server'.over = server.over
      /\ server'.winner = server.winner /\ server'.reported = server.reported
  BY <1>1, <1>2 DEF ServerType, Status
<1>4. tasks = {} /\ ~server.over
  BY <1>1 DEF ServerInv, Going
<1>5. ServerInv'
  BY <1>1, <1>3, <1>4 DEF ServerInv, Storing
<1>6. ServerGoesOn
  BY <1>1, <1>3, <1>4 DEF ServerGoesOn, Going, ServerInv, ServerType
<1> QED BY <1>5, <1>6

\* A move is made on the board, and may end the game.
LEMMA OnBoardRight ==
  ASSUME ServerInv, InPlay, ~Storing, server.ply < MaxMoves, OnBoard
  PROVE  ServerInv' /\ ServerGoesOn
<1> DEFINE ply == server.ply + 1
<1>1. /\ server' = [server EXCEPT !.ply = ply] /\ tasks' = tasks \cup {"insert"}
  BY DEF OnBoard
<1>2. server \in ServerType /\ server.ply \in Nat /\ ply \in 0 .. MaxMoves
  BY ViewAssumption DEF ServerInv, ServerType
<1>3. server.ply = server.stored /\ server.ply = server.fen /\ "fen" \notin tasks
  BY DEF ServerInv, Storing
<1>4. ply = server.stored + 1
  BY <1>3
<1> HIDE DEF ply
<1>5. /\ server' \in ServerType /\ server'.status = server.status /\ server'.ply = ply
      /\ server'.stored = server.stored /\ server'.fen = server.fen /\ server'.over = server.over
      /\ server'.winner = server.winner /\ server'.reported = server.reported
  BY <1>1, <1>2 DEF ServerType
<1>6. server.status \in Going
  BY DEF InPlay, Going
<1>7. ServerInv'
  BY <1>1, <1>3, <1>4, <1>5, <1>6 DEF ServerInv, Storing
<1>8. ServerGoesOn
  BY <1>5, <1>2 DEF ServerGoesOn, ServerType
<1> QED BY <1>7, <1>8

\* Its row is stored and its broadcast sent.
LEMMA StoringRight ==
  ASSUME ServerInv, MoveInserted \/ MoveSent
  PROVE  ServerInv' /\ ServerGoesOn
<1>1. server \in ServerType /\ server.ply \in Nat /\ server.stored \in Nat /\ server.fen \in Nat
  BY ViewAssumption DEF ServerInv, ServerType
<1>2. CASE MoveInserted
  <2>1. /\ "insert" \in tasks /\ tasks' = (tasks \ {"insert"}) \cup {"fen"}
        /\ server' = [server EXCEPT !.stored = server.ply]
    BY <1>2 DEF MoveInserted
  <2>2. /\ server' \in ServerType /\ server'.status = server.status /\ server'.ply = server.ply
        /\ server'.stored = server.ply /\ server'.fen = server.fen /\ server'.over = server.over
        /\ server'.winner = server.winner /\ server'.reported = server.reported
    BY <1>1, <2>1 DEF ServerType
  <2>3. server.ply = server.stored + 1 /\ server.fen = server.stored /\ server.status \in Going
    BY <2>1 DEF ServerInv
  <2>4. ServerInv'
    BY <2>1, <2>2, <2>3 DEF ServerInv, Storing
  <2>5. ServerGoesOn
    BY <1>1, <2>2, <2>3 DEF ServerGoesOn
  <2> QED BY <2>4, <2>5
<1>3. CASE MoveSent
  <2>1. /\ "fen" \in tasks /\ tasks' = tasks \ {"fen"} /\ server' = [server EXCEPT !.fen = server.ply]
    BY <1>3 DEF MoveSent
  <2>2. /\ server' \in ServerType /\ server'.status = server.status /\ server'.ply = server.ply
        /\ server'.stored = server.stored /\ server'.fen = server.ply /\ server'.over = server.over
        /\ server'.winner = server.winner /\ server'.reported = server.reported
    BY <1>1, <2>1 DEF ServerType
  <2>3. /\ server.ply = server.stored /\ server.ply = server.fen + 1 /\ server.status \in Going
        /\ "insert" \notin tasks
    BY <1>1, <2>1 DEF ServerInv
  <2>4. ServerInv'
    BY <2>1, <2>2, <2>3 DEF ServerInv, Storing
  <2>5. ServerGoesOn
    BY <1>1, <2>2, <2>3 DEF ServerGoesOn
  <2> QED BY <2>4, <2>5
<1> QED BY <1>2, <1>3

\* The market is locked, and the ended game is posted and completed.
LEMMA GameRight ==
  ASSUME ServerInv, Locked \/ Ended \/ Posted \/ Completed
  PROVE  ServerInv' /\ ServerGoesOn
<1>1. server \in ServerType /\ server.fen \in Nat /\ server.stored \in Nat
  BY DEF ServerInv, ServerType
<1>2. CASE Locked
  <2>1. /\ server' = [server EXCEPT !.status = "locked"] /\ tasks' = tasks
        /\ server.status = "active"
    BY <1>2 DEF Locked
  <2>2. /\ server' \in ServerType /\ server'.status = "locked" /\ server'.ply = server.ply
        /\ server'.stored = server.stored /\ server'.fen = server.fen /\ server'.over = server.over
        /\ server'.winner = server.winner /\ server'.reported = server.reported
    BY <1>1, <2>1 DEF ServerType, Status
  <2>3. ServerInv'
    BY <2>1, <2>2 DEF ServerInv, Storing, Going
  <2>4. ServerGoesOn
    BY <1>1, <2>1, <2>2 DEF ServerGoesOn, Going
  <2> QED BY <2>3, <2>4
<1>3. CASE Ended
  <2>1. PICK w \in Winner : server' = [server EXCEPT !.over = TRUE, !.winner = w]
    BY <1>3 DEF Ended
  <2>2. tasks' = tasks \cup {"post"} /\ server.status \in Going /\ ~server.over
    BY <1>3 DEF Ended, InPlay, Going
  <2>3. /\ server' \in ServerType /\ server'.status = server.status /\ server'.ply = server.ply
        /\ server'.stored = server.stored /\ server'.fen = server.fen /\ server'.over
        /\ server'.winner = w /\ server'.reported = server.reported /\ w # None
    BY <1>1, <2>1, ViewAssumption DEF ServerType, Decided, None
  <2>4. ServerInv'
    BY <2>2, <2>3 DEF ServerInv, Storing
  <2>5. ServerGoesOn
    BY <1>1, <2>2, <2>3 DEF ServerGoesOn
  <2> QED BY <2>4, <2>5
<1>4. CASE Posted
  <2>1. /\ "post" \in tasks /\ tasks' = (tasks \ {"post"}) \cup {"complete"}
        /\ server' = [server EXCEPT !.reported = server.winner] \/ server' = server
    BY <1>4 DEF Posted
  <2>2. server.over /\ server.winner # None
    BY <2>1 DEF ServerInv
  <2>3. /\ server' \in ServerType /\ server'.status = server.status /\ server'.ply = server.ply
        /\ server'.stored = server.stored /\ server'.fen = server.fen /\ server'.over
        /\ server'.winner = server.winner /\ (server'.reported = None => server.reported = None)
    BY <1>1, <2>1, <2>2 DEF ServerType
  <2>4. ServerInv'
    BY <2>1, <2>2, <2>3 DEF ServerInv, Storing
  <2>5. ServerGoesOn
    BY <1>1, <2>3 DEF ServerGoesOn
  <2> QED BY <2>4, <2>5
<1>5. CASE Completed
  <2>1. /\ "complete" \in tasks /\ tasks' = tasks \ {"complete"}
        /\ server' = [server EXCEPT !.status = "completed"]
    BY <1>5 DEF Completed
  <2>2. server.over
    BY <2>1 DEF ServerInv
  <2>3. /\ server' \in ServerType /\ server'.status = "completed" /\ server'.ply = server.ply
        /\ server'.stored = server.stored /\ server'.fen = server.fen /\ server'.over
        /\ server'.winner = server.winner /\ server'.reported = server.reported
    BY <1>1, <2>1, <2>2 DEF ServerType, Status
  <2>4. ServerInv'
    BY <2>1, <2>2, <2>3 DEF ServerInv, Storing, Going
  <2>5. ServerGoesOn
    BY <1>1, <2>3 DEF ServerGoesOn, Going
  <2> QED BY <2>4, <2>5
<1> QED BY <1>2, <1>3, <1>4, <1>5

\* The result goes from one stage to the next.
LEMMA ResultRight ==
  ASSUME ServerInv, NEW from \in Stage, NEW to \in Stage, Result(from, to)
  PROVE  ServerInv' /\ ServerGoesOn
<1>1. /\ server \in ServerType /\ server.fen \in Nat /\ server.stored \in Nat
      /\ server' = [server EXCEPT !.dispute = to] /\ tasks' = tasks
  BY DEF ServerInv, ServerType, Result
<1>2. /\ server' \in ServerType /\ server'.status = server.status /\ server'.ply = server.ply
      /\ server'.stored = server.stored /\ server'.fen = server.fen /\ server'.over = server.over
      /\ server'.winner = server.winner /\ server'.reported = server.reported
  BY <1>1 DEF ServerType
<1>3. ServerInv'
  BY <1>1, <1>2 DEF ServerInv, Storing
<1>4. ServerGoesOn
  BY <1>1, <1>2 DEF ServerGoesOn
<1> QED BY <1>3, <1>4
-----------------------------------------------------------------------------
(* What stays true while the relayer goes on *)

\* Overtaken: what a load has read stays as it is, and is no longer of one moment.
LEMMA ReadOvertaken ==
  ASSUME NEW s \in LoadType,
         NEW o, o = IF "clean" \in DOMAIN s THEN [s EXCEPT !.clean = FALSE] ELSE s
  PROVE  /\ o \in LoadType /\ o.pc = s.pc
         /\ o.pc \in {"rest", "reply"} =>
              /\ ~o.clean /\ o.status = s.status /\ o.fen = s.fen /\ o.winner = s.winner
         /\ o.pc = "reply" => o.moves = s.moves /\ o.running = s.running
<1>1. CASE s = NoLoad
  BY <1>1 DEF LoadType, NoLoad
<1>2. CASE s \in [pc : {"row"}, tries : Nat]
  BY <1>2 DEF LoadType
<1>3. CASE s \in [pc : {"rest"}, status : Status, fen : Nat, winner : Decided, clean : BOOLEAN]
  BY <1>3 DEF LoadType
<1>4. CASE s \in [pc : {"reply"}, status : Status, fen : Nat, winner : Decided, moves : Nat,
                  clean : BOOLEAN, running : BOOLEAN]
  BY <1>4 DEF LoadType
<1> QED BY <1>1, <1>2, <1>3, <1>4 DEF LoadType

\* What a load has read stays true of an earlier server.
LEMMA ReadStays ==
  ASSUME ServerInv, ServerInv', ServerGoesOn, NEW s, s.fen \in Nat, ReadHolds(s)
  PROVE  ReadHolds(s)'
<1>1. /\ server.fen \in Nat /\ server'.fen \in Nat /\ (server.winner # None => server.over)
      /\ s.fen <= server.fen /\ server.fen <= server'.fen
  BY DEF ServerInv, ServerType, ReadHolds, ServerGoesOn
<1>2. s.fen <= server'.fen
  BY <1>1
<1>3. s.winner \in {None, server'.winner}
  BY <1>1 DEF ReadHolds, ServerGoesOn
<1> QED BY <1>2, <1>3 DEF ReadHolds, ServerGoesOn

\* So do all loads, when they are marked as overtaken.
LEMMA LoadsOvertaken ==
  ASSUME ServerInv, ServerInv', LoadsInv, ServerGoesOn, Overtaken
  PROVE  LoadsInv'
<1>1. ASSUME NEW l \in Loads
      PROVE  /\ loads'[l] \in LoadType /\ loads'[l].pc = loads[l].pc
             /\ loads'[l].pc \in {"rest", "reply"} =>
                  /\ ~loads'[l].clean /\ loads'[l].status = loads[l].status
                  /\ loads'[l].fen = loads[l].fen /\ loads'[l].winner = loads[l].winner
             /\ loads'[l].pc = "reply" =>
                  loads'[l].moves = loads[l].moves /\ loads'[l].running = loads[l].running
  <2>1. loads[l] \in LoadType
    BY DEF LoadsInv
  <2>2. loads'[l] = IF "clean" \in DOMAIN loads[l] THEN [loads[l] EXCEPT !.clean = FALSE]
                    ELSE loads[l]
    BY DEF Overtaken
  <2> QED BY <2>1, <2>2, ReadOvertaken
<1>2. loads' \in [Loads -> LoadType]
  <2>1. loads' = [l \in Loads |-> loads'[l]]
    BY DEF Overtaken
  <2> QED BY <1>1, <2>1
<1>3. ASSUME NEW l \in Loads, NEW o, o = loads'[l], o.pc \in {"rest", "reply"}
      PROVE  ReadHolds(o)' /\ ~o.clean
  <2>1. ReadHolds(loads[l]) /\ loads[l].fen \in Nat
    BY <1>1, <1>3 DEF LoadsInv, LoadHolds, LoadType, NoLoad
  <2>2. PICK s : s = loads[l]
    OBVIOUS
  <2>3. ReadHolds(s)'
    BY <2>1, <2>2, ReadStays
  <2>4. o.status = s.status /\ o.fen = s.fen /\ o.winner = s.winner /\ ~o.clean
    BY <1>1, <1>3, <2>2
  <2> QED BY <2>3, <2>4 DEF ReadHolds
<1>4. ASSUME NEW l \in Loads, loads'[l].pc = "reply"
      PROVE  /\ loads'[l].moves <= server'.stored
             /\ loads'[l].running => server'.status \in Going
  <2>1. /\ loads[l].moves <= server.stored /\ loads[l].moves \in Nat
        /\ loads[l].running => server.status \in Going
    BY <1>1, <1>4 DEF LoadsInv, LoadHolds, LoadType, NoLoad
  <2>2. server.stored \in Nat /\ server'.stored \in Nat
    BY DEF ServerInv, ServerType
  <2> QED BY <1>1, <1>4, <2>1, <2>2 DEF ServerGoesOn
<1>5. ASSUME NEW l \in Loads, loads'[l].pc \in {"rest", "reply"}
      PROVE  ~loads'[l].clean
  BY <1>1, <1>5
<1> QED BY <1>2, <1>3, <1>4, <1>5 DEF LoadsInv, LoadHolds, ReadHolds
-----------------------------------------------------------------------------
(* What a step of the relayer tells the page *)

\* The result that has still to be posted is not forgotten.
PostKept == server'.over => server.over /\ ("post" \in tasks => "post" \in tasks')

\* A step that says nothing changes nothing that a message would have to say.
Kept ==
  /\ inbox' = inbox /\ crossed' = crossed /\ server'.fen = server.fen
  /\ PostKept \/ "post" \in tasks'
  /\ server'.status = "locked" => server.status = "locked"

\* One that sends e changes no more than e says.
Tells(e) ==
  /\ Send(e) /\ SentHolds(e)'
  /\ \/ e.type = "MOVE" /\ server'.fen = server.fen + 1 /\ e.fen = server'.fen
     \/ e.type # "MOVE" /\ server'.fen = server.fen
  /\ PostKept \/ e.type = "GAME_OVER"
  /\ server'.status = "locked" => server.status = "locked" \/ e.type = "MARKET_LOCKED"

Says ==
  /\ ServerInv' /\ ServerGoesOn /\ Overtaken
  /\ dispute' = dispute \/ (dispute' \in Stage /\ server'.reported # None)
  /\ Kept \/ \E e \in WsEvent : Tells(e)

\* What the relayer sends when a move is made,
LEMMA OnBoardSays ==
  ASSUME ServerInv, InPlay, ~Storing, server.ply < MaxMoves, OnBoard
  PROVE  Says
<1>1. ServerInv' /\ ServerGoesOn
  BY OnBoardRight
<1>2. server \in ServerType
  BY DEF ServerInv
<1>3. /\ server'.fen = server.fen /\ server'.over = server.over /\ server'.status = server.status
      /\ "post" \in tasks => "post" \in tasks'
  BY <1>2 DEF OnBoard, ServerType
<1>4. inbox' = inbox /\ crossed' = crossed /\ dispute' = dispute /\ Overtaken
  BY DEF OnBoard, Silently
<1> QED BY <1>1, <1>3, <1>4 DEF Says, Kept, PostKept

\* the steps that send nothing,
LEMMA SilentSays ==
  ASSUME ServerInv, Created \/ Cancelled \/ MoveInserted \/ Ended \/ Completed
  PROVE  Says
<1>1. ServerInv' /\ ServerGoesOn
  BY ServerStarts, StoringRight, GameRight
<1>2. server \in ServerType
  BY DEF ServerInv
<1>3. /\ server'.fen = server.fen /\ (PostKept \/ "post" \in tasks')
      /\ server'.status = "locked" => server.status = "locked"
  <2>1. CASE Created \/ Cancelled
    BY <1>2, <2>1 DEF Created, Cancelled, ServerType, PostKept
  <2>2. CASE MoveInserted
    BY <1>2, <2>2 DEF MoveInserted, ServerType, PostKept
  <2>3. CASE Ended
    BY <1>2, <2>3 DEF Ended, ServerType
  <2>4. CASE Completed
    BY <1>2, <2>4 DEF Completed, ServerType, PostKept
  <2> QED BY <2>1, <2>2, <2>3, <2>4
<1>4. inbox' = inbox /\ crossed' = crossed /\ dispute' = dispute /\ Overtaken
  BY DEF Created, Cancelled, MoveInserted, Ended, Completed, Silently
<1> QED BY <1>1, <1>3, <1>4 DEF Says, Kept

\* the ones that send one message,
LEMMA BroadcastSays ==
  ASSUME ServerInv, Activated \/ MoveSent \/ Locked \/ Posted
  PROVE  Says
<1>1. ServerInv' /\ ServerGoesOn
  BY ServerStarts, StoringRight, GameRight
<1>2. server \in ServerType /\ server.ply \in 0 .. MaxMoves /\ server.fen \in Nat
  BY DEF ServerInv, ServerType
<1>3. dispute' = dispute /\ Overtaken
  BY DEF Activated, MoveSent, Locked, Posted, Broadcast
<1>4. CASE Activated
  <2> DEFINE e == [type |-> "MATCH_STARTED"]
  <2>1. e \in WsEvent /\ e.type = "MATCH_STARTED" /\ Send(e)
    BY <1>4 DEF WsEvent, Activated, Broadcast
  <2>2. /\ server'.fen = server.fen /\ server'.over = server.over /\ server'.status = "active"
        /\ tasks' = tasks
    BY <1>2, <1>4 DEF Activated, ServerType
  <2>3. SentHolds(e)'
    BY <2>1, <2>2 DEF SentHolds, Going
  <2> HIDE DEF e
  <2>4. Tells(e)
    BY <2>1, <2>2, <2>3 DEF Tells, PostKept
  <2> QED BY <1>1, <1>3, <2>1, <2>4 DEF Says
<1>5. CASE MoveSent
  <2>0. PICK e : e = [type |-> "MOVE", fen |-> server.ply]
    OBVIOUS
  <2>1. /\ e \in WsEvent /\ e.type = "MOVE" /\ e.fen = server.ply /\ Send(e)
    BY <1>2, <1>5, <2>0 DEF WsEvent, MoveSent, Broadcast
  <2>2. /\ server'.fen = server.ply /\ server'.over = server.over
        /\ server'.status = server.status /\ server'.stored = server.stored
        /\ "post" \in tasks => "post" \in tasks'
    BY <1>2, <1>5 DEF MoveSent, ServerType
  <2>3. server.ply = server.stored /\ server.ply = server.fen + 1 /\ server.status \in Going
    BY <1>5 DEF ServerInv, MoveSent
  <2>4. SentHolds(e)'
    BY <1>2, <2>1, <2>2, <2>3 DEF SentHolds
  <2>5. Tells(e)
    BY <2>1, <2>2, <2>3, <2>4 DEF Tells, PostKept
  <2> QED BY <1>1, <1>3, <2>1, <2>5 DEF Says
<1>6. CASE Locked
  <2> DEFINE e == [type |-> "MARKET_LOCKED"]
  <2>1. e \in WsEvent /\ e.type = "MARKET_LOCKED" /\ Send(e)
    BY <1>6 DEF WsEvent, Locked, Broadcast
  <2>2. /\ server'.fen = server.fen /\ server'.over = server.over /\ server'.status = "locked"
        /\ tasks' = tasks
    BY <1>2, <1>6 DEF Locked, ServerType
  <2>3. SentHolds(e)'
    BY <2>1, <2>2 DEF SentHolds
  <2> HIDE DEF e
  <2>4. Tells(e)
    BY <2>1, <2>2, <2>3 DEF Tells, PostKept
  <2> QED BY <1>1, <1>3, <2>1, <2>4 DEF Says
<1>7. CASE Posted
  <2>1. PICK e : e = [type |-> "GAME_OVER", winner |-> server.winner]
    OBVIOUS
  <2>2. server.over /\ server.winner \in Winner
    BY <1>2, <1>7 DEF ServerInv, Posted, ServerType, Decided
  <2>3. /\ e \in WsEvent /\ e.type = "GAME_OVER" /\ e.winner = server.winner /\ Send(e)
    BY <1>7, <2>1, <2>2 DEF WsEvent, Posted, Broadcast
  <2>4. /\ server'.fen = server.fen /\ server'.over = server.over
        /\ server'.status = server.status /\ server'.winner = server.winner
    BY <1>2, <1>7 DEF Posted, ServerType
  <2>5. SentHolds(e)'
    BY <2>2, <2>3, <2>4 DEF SentHolds
  <2>6. Tells(e)
    BY <2>3, <2>4, <2>5 DEF Tells
  <2> QED BY <1>1, <1>3, <2>3, <2>6 DEF Says
<1> QED BY <1>4, <1>5, <1>6, <1>7

\* and those about the result.
LEMMA ResultSays ==
  ASSUME ServerInv, Results
  PROVE  Says
<1>1. PICK from \in Stage, to \in Stage : Result(from, to)
  BY DEF Results, Stage
<1>2. ServerInv' /\ ServerGoesOn
  BY <1>1, ResultRight
<1>3. server \in ServerType
  BY DEF ServerInv
<1>4. /\ server'.fen = server.fen /\ server'.over = server.over /\ server'.status = server.status
      /\ server'.reported # None /\ tasks' = tasks
  BY <1>1, <1>3 DEF Result, ServerType
<1>5. Overtaken /\ (dispute' = dispute \/ dispute' \in Stage)
  BY DEF Results, Heard, Stage
<1>6. CASE UNCHANGED <<inbox, crossed>>
  <2>1. Kept
    BY <1>4, <1>6 DEF Kept, PostKept
  <2> QED BY <1>2, <1>4, <1>5, <2>1 DEF Says
<1>7. CASE Send([type |-> "SETTLEMENT_DONE"])
  <2> DEFINE e == [type |-> "SETTLEMENT_DONE"]
  <2>1. e \in WsEvent /\ e.type = "SETTLEMENT_DONE" /\ Send(e)
    BY <1>7 DEF WsEvent
  <2>2. SentHolds(e)'
    BY <1>2, <1>4, <2>1 DEF SentHolds, ServerInv
  <2> HIDE DEF e
  <2>3. Tells(e)
    BY <1>4, <2>1, <2>2 DEF Tells, PostKept
  <2> QED BY <1>2, <1>4, <1>5, <2>1, <2>3 DEF Says
<1> QED BY <1>6, <1>7 DEF Results
-----------------------------------------------------------------------------
(* What the page has, while the relayer goes on *)

\* A message stays true of an earlier server.
LEMMA SentStays ==
  ASSUME ServerInv, ServerInv', ServerGoesOn, NEW e \in WsEvent, SentHolds(e)
  PROVE  SentHolds(e)'
<1>1. /\ server.fen \in Nat /\ server'.fen \in Nat /\ server'.stored \in Nat /\ server.stored \in Nat
      /\ server.fen <= server'.fen /\ server.stored <= server'.stored
  BY DEF ServerInv, ServerType, ServerGoesOn
<1>2. e.type = "MOVE" => e.fen \in Nat
  BY ViewAssumption DEF WsEvent
<1>3. e.type = "MOVE" => e.fen <= server'.fen /\ e.fen <= server'.stored
  BY <1>1, <1>2 DEF SentHolds
<1> QED BY <1>3 DEF SentHolds, ServerGoesOn

\* A message that is sent comes after those on their way.
LEMMA Appended ==
  ASSUME NEW s \in Seq(WsEvent), NEW e \in WsEvent, NEW t, t = Append(s, e)
  PROVE  /\ t \in Seq(WsEvent) /\ DOMAIN t = 1 .. Len(s) + 1 /\ t[Len(s) + 1] = e
         /\ DOMAIN s = 1 .. Len(s) /\ Len(s) \in Nat
         /\ \A i \in DOMAIN t : i = Len(s) + 1 \/ (i \in DOMAIN s /\ t[i] = s[i])
         /\ \A i \in DOMAIN s : i \in DOMAIN t /\ t[i] = s[i] /\ i < Len(s) + 1
OBVIOUS

\* The messages on their way, with those sent now,
LEMMA InboxSaid ==
  ASSUME ServerInv, InboxInv, Says, socket' = socket
  PROVE  InboxInv'
<1>1. ServerInv' /\ ServerGoesOn
  BY DEF Says
<1>2. \A i \in DOMAIN inbox : inbox[i] \in WsEvent /\ SentHolds(inbox[i])
  BY DEF InboxInv
<1>3. ASSUME NEW i \in DOMAIN inbox, NEW e, e = inbox[i]
      PROVE  SentHolds(e)'
  BY <1>1, <1>2, <1>3, SentStays
<1>4. CASE inbox' = inbox
  BY <1>3, <1>4 DEF InboxInv, SentHolds
<1>5. CASE socket /\ \E e \in WsEvent : SentHolds(e)' /\ inbox' = Append(inbox, e)
  <2>1. PICK e \in WsEvent : SentHolds(e)' /\ inbox' = Append(inbox, e)
    BY <1>5
  <2>2. inbox \in Seq(WsEvent)
    BY DEF InboxInv
  <2>3. /\ inbox' \in Seq(WsEvent)
        /\ \A i \in DOMAIN inbox' : inbox'[i] = e \/ (i \in DOMAIN inbox /\ inbox'[i] = inbox[i])
    BY <2>1, <2>2, Appended
  <2>4. ASSUME NEW i \in DOMAIN inbox', NEW f, f = inbox'[i]
        PROVE  SentHolds(f)'
    BY <1>3, <2>1, <2>3, <2>4
  <2> QED BY <1>5, <2>3, <2>4 DEF InboxInv, SentHolds
<1> QED BY <1>4, <1>5 DEF Says, Kept, Tells, Send

\* and what the page has heard.
LEMMA LiveSaid ==
  ASSUME ServerInv, LiveInv, Says, record' = record, live' = live
  PROVE  LiveInv'
<1>1. ServerInv' /\ ServerGoesOn
  BY DEF Says
<1>2. /\ server.fen \in Nat /\ server'.fen \in Nat /\ server'.stored \in Nat /\ server.stored \in Nat
      /\ server.fen <= server'.fen /\ server.stored <= server'.stored
      /\ server.winner # None <=> server.over
  BY <1>1 DEF ServerInv, ServerType, ServerGoesOn
<1>3. live.fen \in Nat /\ live.history \in Seq(Nat)
  BY DEF LiveInv, LiveType
<1>4. live.fen <= server'.fen
  BY <1>2, <1>3 DEF LiveInv
<1>5. ASSUME NEW i \in DOMAIN live.history
      PROVE  live.history[i] <= server'.stored
  <2>1. live.history[i] \in Nat /\ live.history[i] <= server.stored
    BY <1>3 DEF LiveInv
  <2> QED BY <1>2, <2>1
<1>6. live.winner \in {None, server'.winner}
  BY <1>1, <1>2 DEF LiveInv, ServerGoesOn
<1>7. dispute' \in Stage /\ (dispute' # "none" => server'.reported # None)
  BY <1>1 DEF LiveInv, Says, ServerGoesOn
<1> QED BY <1>1, <1>4, <1>5, <1>6, <1>7 DEF LiveInv, ServerGoesOn

\* A page that follows goes on, where nothing that it follows changes,
LEMMA FollowKept ==
  ASSUME Follows, Kept, record' = record, live' = live
  PROVE  Follows'
<1>1. /\ inbox' = inbox /\ live' = live /\ server'.fen = server.fen
      /\ server'.status = "locked" => server.status = "locked"
      /\ "post" \notin tasks' => (server'.over => server.over /\ "post" \notin tasks)
  BY DEF Kept, PostKept
<1> QED BY <1>1 DEF Follows, Has, IsMove

\* and where a message about the change is on its way.
LEMMA FollowSent ==
  ASSUME ServerInv, InboxInv, LiveInv, Follows, NEW e \in WsEvent, Tells(e), socket,
         live' = live
  PROVE  Follows'
<1> DEFINE n == Len(inbox) + 1
<1>1. inbox \in Seq(WsEvent) /\ inbox' = Append(inbox, e)
  BY DEF InboxInv, Tells, Send
<1>2. /\ DOMAIN inbox' = 1 .. n /\ inbox'[n] = e /\ DOMAIN inbox = 1 .. Len(inbox)
      /\ Len(inbox) \in Nat
      /\ \A i \in DOMAIN inbox' : i = n \/ (i \in DOMAIN inbox /\ inbox'[i] = inbox[i])
      /\ \A i \in DOMAIN inbox : i \in DOMAIN inbox' /\ inbox'[i] = inbox[i] /\ i < n
  BY <1>1, Appended
<1>3. n \in DOMAIN inbox' /\ n \in Nat
  BY <1>2
<1> HIDE DEF n
<1>4. /\ server.fen \in Nat /\ server'.fen \in Nat /\ live.fen \in Nat /\ live.fen <= server.fen
      /\ e.type = "MOVE" => server'.fen = server.fen + 1 /\ e.fen = server'.fen
      /\ e.type # "MOVE" => server'.fen = server.fen
  BY DEF ServerInv, ServerType, LiveInv, LiveType, Tells
<1>5. \A i \in DOMAIN inbox : IsMove(i) => inbox[i].fen \in Nat /\ inbox[i].fen <= server.fen
  <2>1. \A i \in DOMAIN inbox : inbox[i] \in WsEvent
    BY <1>1
  <2> QED BY <2>1, ViewAssumption DEF InboxInv, SentHolds, IsMove, WsEvent
<1>6. ASSUME NEW i \in DOMAIN inbox', NEW j \in DOMAIN inbox',
             inbox'[i].type = "MOVE", inbox'[j].type = "MOVE", i < j
      PROVE  inbox'[i].fen < inbox'[j].fen
  <2>1. i \in DOMAIN inbox /\ inbox'[i] = inbox[i]
    BY <1>2, <1>3, <1>6
  <2>2. CASE j = n
    BY <1>2, <1>4, <1>5, <1>6, <2>1, <2>2 DEF IsMove
  <2>3. CASE j \in DOMAIN inbox
    BY <1>2, <1>6, <2>1, <2>3 DEF Follows, IsMove
  <2> QED BY <1>2, <2>2, <2>3
<1>7. ASSUME NEW i \in DOMAIN inbox', inbox'[i].type = "MOVE"
      PROVE  live.fen < inbox'[i].fen
  <2>1. CASE i = n
    BY <1>2, <1>4, <1>7, <2>1
  <2>2. CASE i \in DOMAIN inbox
    BY <1>2, <1>7, <2>2 DEF Follows, IsMove
  <2> QED BY <1>2, <2>1, <2>2
<1>8. ASSUME NEW m \in Nat, live.fen < m, m <= server'.fen
      PROVE  \E i \in DOMAIN inbox' : inbox'[i].type = "MOVE" /\ inbox'[i].fen = m
  <2>1. CASE m <= server.fen
    <3>1. PICK i \in DOMAIN inbox : IsMove(i) /\ inbox[i].fen = m
      BY <1>8, <2>1 DEF Follows
    <3> QED BY <1>2, <3>1 DEF IsMove
  <2>2. CASE ~(m <= server.fen)
    BY <1>2, <1>3, <1>4, <1>8, <2>2
  <2> QED BY <2>1, <2>2
<1>9. \A type : Has(type) \/ e.type = type => \E i \in DOMAIN inbox' : inbox'[i].type = type
  BY <1>2, <1>3 DEF Has
<1>10. ASSUME server'.over, live.winner = None
       PROVE  "post" \in tasks' \/ \E i \in DOMAIN inbox' : inbox'[i].type = "GAME_OVER"
  BY <1>9, <1>10 DEF Follows, Tells, PostKept
<1>11. ASSUME server'.status = "locked"
       PROVE  live.locked \/ \E i \in DOMAIN inbox' : inbox'[i].type = "MARKET_LOCKED"
  BY <1>9, <1>11 DEF Follows, Tells
<1>12. live.history = [i \in 1 .. live.fen |-> i]
  BY DEF Follows
<1> QED BY <1>6, <1>7, <1>8, <1>10, <1>11, <1>12 DEF Follows, Has, IsMove

\* So a step that says what it does keeps all.
LEMMA SaidRight ==
  ASSUME ViewInv, Says, socket' = socket, record' = record, live' = live
  PROVE  ViewInv'
<1>1. ServerInv' /\ InboxInv' /\ LiveInv'
  BY InboxSaid, LiveSaid DEF Says, ViewInv
<1>2. LoadsInv'
  BY LoadsOvertaken DEF Says, ViewInv
<1>3. ASSUME ~crossed', record' # None
      PROVE  Follows'
  <2>1. CASE Kept
    BY <1>3, <2>1, FollowKept DEF Kept, ViewInv, FollowInv
  <2>2. ASSUME NEW e \in WsEvent, Tells(e)
        PROVE  Follows'
    <3>1. ~crossed /\ socket
      BY <1>3, <2>2 DEF Tells, Send
    <3>2. Follows
      BY <1>3, <3>1 DEF ViewInv, FollowInv
    <3> QED BY <2>2, <3>1, <3>2, FollowSent DEF ViewInv
  <2> QED BY <2>1, <2>2 DEF Says
<1> QED BY <1>1, <1>2, <1>3 DEF ViewInv, FollowInv

\* The relayer's own steps are such.
LEMMA RelayerRight ==
  ASSUME ViewInv, RelayerStep
  PROVE  ViewInv'
<1>1. ServerInv
  BY DEF ViewInv
<1>2. OtherMove => Says
  BY <1>1, OnBoardSays DEF OtherMove
<1>3. Says
  BY <1>1, <1>2, SilentSays, BroadcastSays, ResultSays DEF RelayerStep
<1> QED BY <1>3, SaidRight DEF RelayerStep
-----------------------------------------------------------------------------
(* The connection, and what comes over it *)

\* The socket opens, or closes and drops what was on its way.
LEMMA SocketRight ==
  ASSUME ViewInv, SocketStep
  PROVE  ViewInv'
<1>1. /\ UNCHANGED <<server, tasks, record, live, dispute, loads>>
      /\ \/ inbox' = inbox /\ crossed' = crossed /\ socket'
         \/ inbox' = <<>> /\ (~crossed' => ~crossed /\ inbox' = inbox)
  <2>1. CASE Connects
    BY <2>1 DEF SocketStep, Connects, relayerVars, viewVars
  <2>2. CASE Drops
    BY <2>2 DEF SocketStep, Drops, relayerVars, viewVars
  <2> QED BY <2>1, <2>2 DEF SocketStep
<1>2. ServerInv' /\ LiveInv'
  BY <1>1 DEF ViewInv, ServerInv, LiveInv, Storing
<1>3. InboxInv'
  <2>1. CASE inbox' = inbox /\ socket'
    BY <1>1, <2>1 DEF ViewInv, InboxInv, SentHolds
  <2>2. CASE inbox' = <<>>
    BY <2>2 DEF InboxInv
  <2> QED BY <1>1, <2>1, <2>2
<1>4. LoadsInv'
  BY <1>1 DEF ViewInv, LoadsInv, LoadHolds, ReadHolds, Fresh
<1>5. FollowInv'
  BY <1>1 DEF ViewInv, FollowInv, Follows, Has, IsMove
<1> QED BY <1>2, <1>3, <1>4, <1>5 DEF ViewInv

\* What is left when the first message is taken.
LEMMA Received ==
  ASSUME NEW s \in Seq(WsEvent), s # <<>>, NEW t, t = Tail(s)
  PROVE  /\ Head(s) = s[1] /\ 1 \in DOMAIN s /\ s[1] \in WsEvent
         /\ t \in Seq(WsEvent)
         /\ \A i \in DOMAIN t : i \in Nat /\ i + 1 \in DOMAIN s /\ i + 1 > 1 /\ t[i] = s[i + 1]
         /\ \A i \in DOMAIN s : i = 1 \/ (i > 1 /\ i \in Nat /\ i - 1 \in DOMAIN t /\ t[i - 1] = s[i])
OBVIOUS

\* What the page makes of a message.
LEMMA HandledRight ==
  ASSUME ServerInv, LiveInv, NEW e \in WsEvent, SentHolds(e)
  PROVE  LET h == Handled(e)
         IN  /\ h \in LiveType
             /\ h.fen = (IF e.type = "MOVE" THEN e.fen ELSE live.fen)
             /\ h.history = (IF e.type = "MOVE" THEN Append(live.history, e.fen) ELSE live.history)
             /\ h.over = (live.over \/ e.type \in {"GAME_OVER", "SETTLEMENT_DONE"})
             /\ h.winner = (IF e.type = "GAME_OVER" THEN e.winner ELSE live.winner)
             /\ h.locked = (live.locked \/ e.type = "MARKET_LOCKED")
             /\ h.clock => live.clock \/ e.type = "MOVE"
<1>1. live \in LiveType
  BY DEF LiveInv
<1>2. CASE e.type = "MOVE"
  <2>1. e.fen \in Nat /\ Append(live.history, e.fen) \in Seq(Nat)
    BY <1>1, <1>2, ViewAssumption DEF WsEvent, LiveType
  <2> QED BY <1>1, <1>2, <2>1 DEF Handled, Moved, LiveType
<1>3. CASE e.type = "MARKET_LOCKED"
  BY <1>1, <1>3 DEF Handled, LiveType
<1>4. CASE e.type = "GAME_OVER"
  BY <1>1, <1>4 DEF Handled, GameOver, LiveType, Decided, WsEvent
<1>5. CASE e.type = "SETTLEMENT_DONE"
  BY <1>1, <1>5 DEF Handled, LiveType
<1>6. CASE e.type = "MATCH_STARTED"
  BY <1>1, <1>6 DEF Handled, LiveType
<1> QED BY <1>2, <1>3, <1>4, <1>5, <1>6 DEF WsEvent

\* The page has heard what was sent.
LEMMA HeardRight ==
  ASSUME ServerInv, LiveInv, NEW e \in WsEvent, SentHolds(e), live' = Handled(e),
         UNCHANGED <<server, dispute>>,
         record' = IF e.type = "MATCH_STARTED" /\ record # None THEN "active" ELSE record
  PROVE  LiveInv'
<1>1. /\ live' \in LiveType
      /\ live'.fen = (IF e.type = "MOVE" THEN e.fen ELSE live.fen)
      /\ live'.history = (IF e.type = "MOVE" THEN Append(live.history, e.fen) ELSE live.history)
      /\ live'.over = (live.over \/ e.type \in {"GAME_OVER", "SETTLEMENT_DONE"})
      /\ live'.winner = (IF e.type = "GAME_OVER" THEN e.winner ELSE live.winner)
      /\ live'.locked = (live.locked \/ e.type = "MARKET_LOCKED")
      /\ live'.clock => live.clock \/ e.type = "MOVE"
  BY HandledRight
<1>2. live.history \in Seq(Nat) /\ (e.type = "MOVE" => e.fen \in Nat /\ e.fen <= server.stored)
  BY ViewAssumption DEF LiveInv, LiveType, WsEvent, SentHolds
<1>3. live'.fen <= server'.fen
  BY <1>1 DEF LiveInv, SentHolds
<1>4. ASSUME NEW i \in DOMAIN live'.history
      PROVE  live'.history[i] <= server'.stored
  <2>1. CASE e.type # "MOVE"
    BY <1>1, <1>4, <2>1 DEF LiveInv
  <2>2. CASE e.type = "MOVE"
    <3>1. PICK h : h = live.history
      OBVIOUS
    <3>2. h \in Seq(Nat) /\ (\A j \in DOMAIN h : h[j] <= server.stored) /\ i \in DOMAIN Append(h, e.fen)
      BY <1>1, <1>2, <1>4, <2>2, <3>1 DEF LiveInv
    <3>3. Append(h, e.fen)[i] = e.fen \/ (i \in DOMAIN h /\ Append(h, e.fen)[i] = h[i])
      BY <1>2, <2>2, <3>2
    <3> QED BY <1>1, <1>2, <2>2, <3>1, <3>2, <3>3
  <2> QED BY <2>1, <2>2
<1>5. live'.winner \in {None, server'.winner} /\ (live'.winner # None => live'.over)
  BY <1>1 DEF LiveInv, SentHolds
<1>6. live'.over => server'.over
  BY <1>1 DEF LiveInv, SentHolds
<1>7. /\ live'.locked => server'.status \in {"locked", "completed"}
      /\ live'.clock => server'.status \in Going
  BY <1>1 DEF LiveInv, SentHolds
<1>8. record' \in (Status \ {"absent"}) \cup {None} /\ (record' # None => server'.status # "absent")
  BY DEF LiveInv, Status
<1> QED BY <1>1, <1>3, <1>4, <1>5, <1>6, <1>7, <1>8 DEF LiveInv

\* A received message moves from the inbox to the page.
LEMMA FollowReceived ==
  ASSUME ServerInv, InboxInv, LiveInv, Follows, inbox # <<>>, inbox' = Tail(inbox),
         live' = Handled(Head(inbox)), UNCHANGED relayerVars
  PROVE  Follows'
<1> DEFINE e == inbox[1]
<1>1. /\ Head(inbox) = e /\ 1 \in DOMAIN inbox /\ e \in WsEvent
      /\ \A i \in DOMAIN inbox' : i \in Nat /\ i + 1 \in DOMAIN inbox /\ i + 1 > 1 /\ inbox'[i] = inbox[i + 1]
      /\ \A i \in DOMAIN inbox : i = 1 \/ (i > 1 /\ i \in Nat /\ i - 1 \in DOMAIN inbox' /\ inbox'[i - 1] = inbox[i])
  BY Received DEF InboxInv
<1>2. SentHolds(e)
  BY <1>1 DEF InboxInv
<1> HIDE DEF e
<1>3. /\ live' \in LiveType
      /\ live'.fen = (IF e.type = "MOVE" THEN e.fen ELSE live.fen)
      /\ live'.history = (IF e.type = "MOVE" THEN Append(live.history, e.fen) ELSE live.history)
      /\ live'.winner = (IF e.type = "GAME_OVER" THEN e.winner ELSE live.winner)
      /\ live'.locked = (live.locked \/ e.type = "MARKET_LOCKED")
  BY <1>1, <1>2, HandledRight
<1>4. \A i \in DOMAIN inbox : IsMove(i) => inbox[i].fen \in Nat
  <2>1. \A i \in DOMAIN inbox : inbox[i] \in WsEvent
    BY DEF InboxInv
  <2> QED BY <2>1, ViewAssumption DEF IsMove, WsEvent
<1>5. live.fen \in Nat /\ server.fen \in Nat /\ server' = server /\ tasks' = tasks
  BY DEF LiveInv, LiveType, ServerInv, ServerType, relayerVars
<1>6. e.type = "MOVE" => e.fen = live.fen + 1
  <2>1. HAVE e.type = "MOVE"
  <2>2. IsMove(1) /\ e.fen \in Nat /\ live.fen < e.fen /\ e.fen <= server.fen
    BY <1>1, <1>2, <1>4, <2>1 DEF IsMove, Follows, SentHolds, e
  <2>3. PICK i \in DOMAIN inbox : IsMove(i) /\ inbox[i].fen = live.fen + 1
    BY SMTT(30), <1>5, <2>2 DEF Follows
  <2>4. i = 1 \/ inbox[1].fen < inbox[i].fen
    BY <1>1, <2>2, <2>3 DEF Follows
  <2> QED BY <1>5, <2>2, <2>3, <2>4 DEF e
<1>7. live'.history = [i \in 1 .. live'.fen |-> i]
  <2>1. CASE e.type # "MOVE"
    BY <1>3, <2>1 DEF Follows
  <2>2. CASE e.type = "MOVE"
    <3>1. PICK k \in Nat : k = live.fen
      BY <1>5
    <3>2. Append([i \in 1 .. k |-> i], k + 1) = [i \in 1 .. k + 1 |-> i]
      BY <3>1
    <3> QED BY <1>3, <1>6, <2>2, <3>1, <3>2 DEF Follows
  <2> QED BY <2>1, <2>2
<1>8. ASSUME NEW i \in DOMAIN inbox', NEW j \in DOMAIN inbox',
             inbox'[i].type = "MOVE", inbox'[j].type = "MOVE", i < j
      PROVE  inbox'[i].fen < inbox'[j].fen
  <2>1. i \in Nat /\ j \in Nat /\ i + 1 < j + 1
    BY <1>1, <1>8
  <2> QED BY <1>1, <1>8, <2>1 DEF Follows, IsMove
<1>9. ASSUME NEW i \in DOMAIN inbox', inbox'[i].type = "MOVE"
      PROVE  live'.fen < inbox'[i].fen
  <2>1. /\ i + 1 \in DOMAIN inbox /\ IsMove(i + 1) /\ inbox'[i] = inbox[i + 1] /\ 1 < i + 1
    BY <1>1, <1>9 DEF IsMove
  <2>2. CASE e.type # "MOVE"
    BY <1>3, <2>1, <2>2 DEF Follows
  <2>3. CASE e.type = "MOVE"
    <3>1. IsMove(1)
      BY <2>3 DEF IsMove, e
    <3>2. inbox[1].fen < inbox[i + 1].fen
      BY <1>1, <2>1, <3>1 DEF Follows
    <3> QED BY <1>3, <2>1, <2>3, <3>2 DEF e
  <2> QED BY <2>2, <2>3
<1>10. ASSUME NEW m \in Nat, live'.fen < m, m <= server'.fen
       PROVE  \E i \in DOMAIN inbox' : inbox'[i].type = "MOVE" /\ inbox'[i].fen = m
  <2>1. live.fen < m /\ (e.type = "MOVE" => e.fen # m)
    BY <1>3, <1>5, <1>6, <1>10
  <2>2. PICK i \in DOMAIN inbox : IsMove(i) /\ inbox[i].fen = m
    BY <1>5, <1>10, <2>1 DEF Follows
  <2>3. i # 1
    BY <2>1, <2>2 DEF IsMove, e
  <2> QED BY ZenonT(30), <1>1, <2>2, <2>3 DEF IsMove
<1>11. ASSUME NEW type, Has(type), e.type # type
       PROVE  \E i \in DOMAIN inbox' : inbox'[i].type = type
  <2>1. PICK i \in DOMAIN inbox : inbox[i].type = type
    BY <1>11 DEF Has
  <2>2. i # 1
    BY <1>11, <2>1 DEF e
  <2> QED BY <1>1, <2>1, <2>2
<1>12. ASSUME server'.over, live'.winner = None
       PROVE  "post" \in tasks' \/ \E i \in DOMAIN inbox' : inbox'[i].type = "GAME_OVER"
  <2>1. e.type # "GAME_OVER"
    BY <1>1, <1>3, <1>12, ViewAssumption DEF WsEvent, None
  <2> QED BY <1>3, <1>5, <1>11, <1>12, <2>1 DEF Follows
<1>13. ASSUME server'.status = "locked"
       PROVE  live'.locked \/ \E i \in DOMAIN inbox' : inbox'[i].type = "MARKET_LOCKED"
  BY <1>3, <1>5, <1>11, <1>13 DEF Follows
<1> QED BY <1>7, <1>8, <1>9, <1>10, <1>12, <1>13 DEF Follows, Has, IsMove

\* The page handles the next message.
LEMMA ReceivesRight ==
  ASSUME ViewInv, Receives
  PROVE  ViewInv'
<1> DEFINE e == Head(inbox)
<1>1. /\ UNCHANGED <<server, tasks, socket, dispute, crossed>> /\ Overtaken
      /\ inbox # <<>> /\ inbox' = Tail(inbox) /\ live' = Handled(e)
      /\ record' = IF e.type = "MATCH_STARTED" /\ record # None THEN "active" ELSE record
  BY DEF Receives, relayerVars
<1>2. /\ inbox \in Seq(WsEvent) /\ inbox' \in Seq(WsEvent) /\ e \in WsEvent /\ SentHolds(e)
      /\ \A i \in DOMAIN inbox' : i + 1 \in DOMAIN inbox /\ inbox'[i] = inbox[i + 1]
  BY <1>1, Received DEF ViewInv, InboxInv
<1>3. ServerInv' /\ ServerGoesOn
  <2>1. ServerInv'
    BY <1>1 DEF ViewInv, ServerInv, Storing
  <2>2. server.fen \in Nat /\ server.stored \in Nat
    BY DEF ViewInv, ServerInv, ServerType
  <2> QED BY <1>1, <2>1, <2>2 DEF ServerGoesOn
<1>4. InboxInv'
  BY <1>1, <1>2 DEF ViewInv, InboxInv, SentHolds
<1>5. LoadsInv'
  BY <1>1, <1>3, LoadsOvertaken DEF ViewInv
<1>6. LiveInv'
  BY <1>1, <1>2, HeardRight DEF ViewInv
<1>7. FollowInv'
  <2>1. SUFFICES ASSUME ~crossed', record' # None
                 PROVE  Follows'
    BY DEF FollowInv
  <2>2. Follows
    BY <1>1, <2>1 DEF ViewInv, FollowInv
  <2> QED BY <1>1, <2>2, FollowReceived DEF ViewInv, relayerVars
<1> QED BY <1>3, <1>4, <1>5, <1>6, <1>7 DEF ViewInv
-----------------------------------------------------------------------------
(* The loads *)

\* A load that goes on leaves the others as they are.
LEMMA GoesRight ==
  ASSUME ViewInv, NEW l \in Loads, NEW s \in LoadType, LoadHolds(s), Goes(l, s),
         UNCHANGED <<server, tasks, inbox, socket, dispute>>
  PROVE  /\ ServerInv' /\ InboxInv' /\ LoadsInv'
         /\ UNCHANGED <<record, live>> => LiveInv' /\ (crossed' = crossed => FollowInv')
<1>1. ServerInv'
  BY DEF ViewInv, ServerInv, Storing
<1>2. InboxInv'
  BY DEF ViewInv, InboxInv, SentHolds
<1>3. LoadsInv'
  <2>1. /\ loads' \in [Loads -> LoadType]
        /\ \A m \in Loads : loads'[m] = IF m = l THEN s ELSE loads[m]
    BY DEF ViewInv, LoadsInv, Goes
  <2>2. ASSUME NEW m \in Loads, NEW o, o = loads'[m]
        PROVE  LoadHolds(o)
    BY <2>1, <2>2 DEF ViewInv, LoadsInv
  <2>3. \A o : LoadHolds(o) => LoadHolds(o)'
    BY DEF LoadHolds, ReadHolds, Fresh
  <2>4. ASSUME NEW m \in Loads, NEW o, o = loads'[m]
        PROVE  LoadHolds(o)'
    BY <2>2, <2>3, <2>4
  <2> QED BY <2>1, <2>4 DEF LoadsInv, LoadHolds, ReadHolds, Fresh
<1>4. UNCHANGED <<record, live>> => LiveInv'
  BY DEF ViewInv, LiveInv
<1>5. UNCHANGED <<record, live>> /\ crossed' = crossed => FollowInv'
  BY DEF ViewInv, FollowInv, Follows, Has, IsMove
<1> QED BY <1>1, <1>2, <1>3, <1>4, <1>5

\* No load says nothing.
LEMMA LoadEnds ==
  NoLoad \in LoadType /\ LoadHolds(NoLoad)
BY DEF NoLoad, LoadType, LoadHolds

\* Nor does one that begins.
LEMMA LoadBegins ==
  ASSUME NEW n \in Nat
  PROVE  LET s == [pc |-> "row", tries |-> n] IN s \in LoadType /\ LoadHolds(s)
BY DEF LoadType, LoadHolds

\* A load reads the row, and then the rest.
LEMMA LoadReads ==
  ASSUME ViewInv, NEW l \in Loads, NEW s, Goes(l, s),
         \/ ReadsRow(l) /\ s = [pc |-> "rest", status |-> server.status, fen |-> server.fen,
              winner |-> IF server.status = "completed" THEN server.winner ELSE None,
              clean |-> tasks = {} /\ inbox = <<>>]
         \/ ReadsRest(l) /\ s = [pc |-> "reply", status |-> loads[l].status, fen |-> loads[l].fen,
              winner |-> loads[l].winner, moves |-> server.stored,
              clean |-> loads[l].clean,
              running |-> IF server.status \in {"active", "locked"} THEN ~server.over
                          ELSE loads[l].status \in {"active", "locked"}]
  PROVE  s \in LoadType /\ LoadHolds(s)
<1>1. server \in ServerType /\ server.fen \in Nat /\ server.stored \in Nat
  BY DEF ViewInv, ServerInv, ServerType
<1>2. CASE ReadsRow(l)
  <2>1. s = [pc |-> "rest", status |-> server.status, fen |-> server.fen,
              winner |-> IF server.status = "completed" THEN server.winner ELSE None,
              clean |-> tasks = {} /\ inbox = <<>>]
    BY <1>2 DEF ReadsRow, ReadsRest
  <2>2. s \in LoadType /\ s.pc = "rest"
    BY <1>1, <2>1 DEF LoadType, ServerType, Decided
  <2>3. ReadHolds(s)
    BY <1>1, <1>2, <2>1 DEF ReadHolds, ReadsRow
  <2>4. s.clean => Fresh(s)
    BY <1>1, <2>1 DEF Fresh
  <2> QED BY <2>2, <2>3, <2>4 DEF LoadHolds
<1>3. CASE ReadsRest(l)
  <2>1. /\ loads[l].pc = "rest"
        /\ s = [pc |-> "reply", status |-> loads[l].status, fen |-> loads[l].fen,
              winner |-> loads[l].winner, moves |-> server.stored,
              clean |-> loads[l].clean,
              running |-> IF server.status \in {"active", "locked"} THEN ~server.over
                          ELSE loads[l].status \in {"active", "locked"}]
    BY <1>3 DEF ReadsRow, ReadsRest
  <2>2. /\ loads[l] \in LoadType /\ ReadHolds(loads[l]) /\ (loads[l].clean => Fresh(loads[l]))
    BY <2>1 DEF ViewInv, LoadsInv, LoadHolds
  <2>3. /\ loads[l].status \in Status /\ loads[l].fen \in Nat /\ loads[l].winner \in Decided
        /\ loads[l].clean \in BOOLEAN
    BY <2>1, <2>2 DEF LoadType, NoLoad
  <2>4. server.over \in BOOLEAN
    BY <1>1 DEF ServerType
  <2>5. /\ s.pc = "reply" /\ s.status = loads[l].status /\ s.fen = loads[l].fen
        /\ s.winner = loads[l].winner /\ s.moves = server.stored /\ s.clean = loads[l].clean
    BY <2>1
  <2>6. s.running \in BOOLEAN /\ (s.running => server.status \in Going)
    <3>1. s.running = IF server.status \in {"active", "locked"} THEN ~server.over
                          ELSE loads[l].status \in {"active", "locked"}
      BY <2>1
    <3>2. loads[l].status \in Going => server.status \in Going
      BY <2>2 DEF ReadHolds
    <3>3. CASE server.status \in {"active", "locked"}
      <4>1. s.running = ~server.over
        BY <3>1, <3>3
      <4> QED BY <3>3, <4>1 DEF Going
    <3>4. CASE server.status \notin {"active", "locked"}
      <4>1. CASE loads[l].status \in {"active", "locked"}
        <5>1. s.running = TRUE
          BY <3>1, <3>4, <4>1
        <5> QED BY <3>2, <4>1, <5>1 DEF Going
      <4>2. CASE loads[l].status \notin {"active", "locked"}
        <5>1. s.running = FALSE
          <6>1. s.running = (loads[l].status \in {"active", "locked"})
            BY <3>1, <3>4
          <6>2. (loads[l].status \in {"active", "locked"}) = FALSE
            BY <4>2
          <6> QED BY <6>1, <6>2
        <5> QED BY <5>1
      <4> QED BY <4>1, <4>2
    <3> QED BY <3>3, <3>4
  <2>7. s \in LoadType
    BY <1>1, <2>1, <2>3, <2>5, <2>6 DEF LoadType
  <2> QED BY <1>1, <2>2, <2>5, <2>6, <2>7 DEF LoadHolds, ReadHolds, Fresh
<1> QED BY <1>2, <1>3

\* What a snapshot brings: all there is when it is clean.
LEMMA MergeRight ==
  ASSUME ServerInv, LiveInv, NEW s \in LoadType, s.pc = "reply", LoadHolds(s)
  PROVE  LET m == Merge(s)
         IN  /\ m \in LiveType /\ m.fen = s.fen /\ m.history = [i \in 1 .. s.moves |-> i]
             /\ m.over = (live.over \/ s.status = "completed")
             /\ m.locked = (live.locked \/ s.status = "locked")
             /\ m.winner = (IF live.winner # None THEN live.winner ELSE s.winner)
             /\ m.clock = s.running
<1>1. live \in LiveType
  BY DEF LiveInv
<1>2. /\ s.status \in Status /\ s.fen \in Nat /\ s.winner \in Decided /\ s.moves \in Nat
      /\ s.running \in BOOLEAN
  BY DEF LoadType, NoLoad
<1>3. [i \in 1 .. s.moves |-> i] \in Seq(Nat)
  BY <1>2
<1>4. live.over \in BOOLEAN /\ live.locked \in BOOLEAN /\ live.winner \in Decided
  BY <1>1 DEF LiveType
<1>5. PICK o \in BOOLEAN : o = (live.over \/ s.status = "completed")
  OBVIOUS
<1>6. PICK k \in BOOLEAN : k = (live.locked \/ s.status = "locked")
  OBVIOUS
<1>7. Merge(s) = [live EXCEPT !.fen = s.fen, !.history = [i \in 1 .. s.moves |-> i],
                    !.locked = k, !.over = o,
                    !.winner = IF live.winner # None THEN live.winner ELSE s.winner,
                    !.clock = s.running]
  BY <1>1, <1>5, <1>6 DEF Merge, LiveType
<1> QED BY <1>1, <1>2, <1>3, <1>4, <1>5, <1>6, <1>7 DEF LiveType

\* The load's reply is shown.
LEMMA AppliesRight ==
  ASSUME ViewInv, NEW l \in Loads, Applies(l),
         UNCHANGED <<server, tasks, inbox, socket, dispute>>
  PROVE  ViewInv'
<1> DEFINE s == loads[l]
<1>1. /\ s.pc = "reply" /\ record' = s.status /\ live' = Merge(s) /\ Goes(l, NoLoad)
      /\ crossed' = ~s.clean
  BY DEF Applies
<1>2. s \in LoadType /\ LoadHolds(s)
  BY DEF ViewInv, LoadsInv
<1>3. ServerInv' /\ InboxInv' /\ LoadsInv'
  BY <1>1, LoadEnds, GoesRight
<1>4. /\ s.status \in Status /\ s.fen \in Nat /\ s.moves \in Nat /\ s.clean \in BOOLEAN
      /\ ReadHolds(s) /\ (s.clean => Fresh(s) /\ s.moves = server.stored)
      /\ s.moves <= server.stored /\ (s.running => server.status \in Going)
  BY <1>1, <1>2 DEF LoadHolds, LoadType, NoLoad
<1> HIDE DEF s
<1>5. /\ live' \in LiveType /\ live'.fen = s.fen /\ live'.history = [i \in 1 .. s.moves |-> i]
      /\ live'.over = (live.over \/ s.status = "completed")
      /\ live'.locked = (live.locked \/ s.status = "locked")
      /\ live'.winner = (IF live.winner # None THEN live.winner ELSE s.winner)
      /\ live'.clock = s.running
  BY <1>1, <1>2, MergeRight DEF ViewInv
<1>6. /\ server.fen \in Nat /\ server.stored \in Nat
      /\ server.winner # None <=> server.over
      /\ server.status = "completed" => server.over
      /\ tasks = {} => server.fen = server.stored
      /\ tasks = {} /\ server.over => server.status = "completed"
  BY DEF ViewInv, ServerInv, ServerType, Storing
<1>7. LiveInv'
  <2>1. live'.fen <= server'.fen
    BY <1>4, <1>5 DEF ReadHolds
  <2>2. \A i \in DOMAIN live'.history : live'.history[i] <= server'.stored
    BY <1>4, <1>5, <1>6
  <2>3. live'.winner \in {None, server'.winner} /\ (live'.winner # None => live'.over)
    BY <1>4, <1>5 DEF ViewInv, LiveInv, ReadHolds
  <2>4. live'.over => server'.over
    BY <1>4, <1>5, <1>6 DEF ViewInv, LiveInv, ReadHolds
  <2>5. live'.locked => server'.status \in {"locked", "completed"}
    BY <1>4, <1>5 DEF ViewInv, LiveInv, ReadHolds
  <2>6. record' \in (Status \ {"absent"}) \cup {None} /\ server'.status # "absent"
    BY <1>1, <1>4 DEF ReadHolds
  <2>7. live'.clock => server'.status \in Going
    BY <1>4, <1>5
  <2>8. dispute' \in Stage /\ (dispute' # "none" => server'.reported # None)
    BY DEF ViewInv, LiveInv
  <2> QED BY <1>5, <2>1, <2>2, <2>3, <2>4, <2>5, <2>6, <2>7, <2>8 DEF LiveInv
<1>8. FollowInv'
  <2>1. SUFFICES ASSUME ~crossed'
                 PROVE  Follows'
    BY DEF FollowInv
  <2>2. /\ tasks = {} /\ inbox = <<>> /\ s.status = server.status /\ s.fen = server.fen
        /\ server.status = "completed" => s.winner = server.winner
        /\ s.moves = server.fen
    BY <1>1, <1>4, <1>6, <2>1 DEF Fresh
  <2>3. live'.history = [i \in 1 .. live'.fen |-> i] /\ live'.fen = server'.fen /\ inbox' = <<>>
    BY <1>5, <2>2
  <2>4. ~(server'.over /\ live'.winner = None)
    BY <1>5, <1>6, <2>2
  <2>5. server'.status = "locked" => live'.locked
    BY <1>5, <2>2
  <2> QED BY <1>6, <2>3, <2>4, <2>5 DEF Follows, Has, IsMove
<1> QED BY <1>3, <1>7, <1>8 DEF ViewInv

\* Every step of a load.
LEMMA LoadRight ==
  ASSUME ViewInv, LoadStep
  PROVE  ViewInv'
<1>1. UNCHANGED <<server, tasks, inbox, socket, dispute>>
  BY DEF LoadStep, relayerVars
<1>2. ASSUME NEW l \in Loads, NotFound(l)
      PROVE  ViewInv'
  <2>1. /\ loads[l] \in LoadType /\ loads[l].pc = "row" /\ UNCHANGED <<record, live, crossed>>
        /\ Goes(l, NoLoad) \/ Goes(l, [loads[l] EXCEPT !.tries = @ + 1])
    BY <1>2 DEF NotFound, ViewInv, LoadsInv
  <2>2. PICK n \in Nat : [loads[l] EXCEPT !.tries = @ + 1] = [pc |-> "row", tries |-> n]
    <3>1. loads[l] \in [pc : {"row"}, tries : Nat]
      BY <2>1 DEF LoadType, NoLoad
    <3>2. loads[l].tries + 1 \in Nat
      BY <3>1
    <3>3. [loads[l] EXCEPT !.tries = @ + 1] = [pc |-> "row", tries |-> loads[l].tries + 1]
      BY <3>1
    <3> QED BY <3>2, <3>3
  <2> QED BY <1>1, <2>1, <2>2, LoadEnds, LoadBegins, GoesRight DEF ViewInv
<1>3. ASSUME NEW l \in Loads, ReadsRow(l) \/ ReadsRest(l)
      PROVE  ViewInv'
  <2>1. PICK s : s \in LoadType /\ LoadHolds(s) /\ Goes(l, s)
    <3>1. CASE ReadsRow(l)
      BY <3>1, LoadReads DEF ReadsRow
    <3>2. CASE ReadsRest(l)
      BY <3>2, LoadReads DEF ReadsRest
    <3> QED BY <1>3, <3>1, <3>2
  <2>2. UNCHANGED <<record, live, crossed>>
    BY <1>3 DEF ReadsRow, ReadsRest
  <2> QED BY <1>1, <2>1, <2>2, GoesRight DEF ViewInv
<1>4. ASSUME NEW l \in Loads, LoadFails(l) \/ Polls(l)
      PROVE  ViewInv'
  <2>1. UNCHANGED <<record, live, crossed>> /\ (Goes(l, NoLoad) \/ Goes(l, [pc |-> "row", tries |-> 0]))
    BY <1>4 DEF LoadFails, Polls
  <2> QED BY <1>1, <2>1, LoadEnds, LoadBegins, GoesRight DEF ViewInv
<1> QED BY <1>1, <1>2, <1>3, <1>4, AppliesRight DEF LoadStep, LoadGoesOn

\* The other steps of the page.
LEMMA BoardRight ==
  ASSUME ViewInv, BoardStep
  PROVE  ViewInv'
<1>1. UNCHANGED <<socket, inbox, record, live, dispute, crossed>>
  BY DEF BoardStep, viewVars
<1>2. CASE MoveTaken
  <2>1. Says
    BY <1>2, OnBoardSays DEF MoveTaken, ViewInv
  <2> QED BY <1>1, <2>1, SaidRight
<1>3. CASE UNCHANGED <<server, tasks, loads>>
  <2>1. ServerInv' /\ LiveInv' /\ InboxInv' /\ FollowInv'
    BY <1>1, <1>3 DEF ViewInv, ServerInv, Storing, LiveInv, InboxInv, SentHolds, FollowInv, Follows,
                      Has, IsMove
  <2>2. LoadsInv'
    BY <1>1, <1>3 DEF ViewInv, LoadsInv, LoadHolds, ReadHolds, Fresh
  <2> QED BY <2>1, <2>2 DEF ViewInv
<1> QED BY <1>2, <1>3 DEF BoardStep, commitMove, MoveRejected, Answered, AnswerLost, relayerVars
-----------------------------------------------------------------------------
(* The page, from its opening on *)

\* Nothing is loaded and nothing was sent.
LEMMA ViewStarts == Init => ViewInv
<1> SUFFICES ASSUME Init PROVE ViewInv
  OBVIOUS
<1>1. /\ server.status \in {"absent", "open"} /\ server.ply = 0 /\ server.stored = 0
      /\ server.fen = 0 /\ ~server.over /\ server.winner = None /\ server.reported = None
      /\ tasks = {} /\ server \in ServerType
  BY ViewAssumption DEF Init, ServerType, Status, Stage, Decided
<1>2. ServerInv
  BY <1>1 DEF ServerInv, Storing
<1>3. inbox = <<>> /\ record = None /\ live = INITIAL_LIVE /\ dispute = "none"
  BY DEF Init
<1>4. InboxInv
  BY <1>3 DEF InboxInv
<1>5. live \in LiveType
  BY <1>3 DEF INITIAL_LIVE, LiveType, Decided
<1>6. /\ live.fen = 0 /\ live.history = <<>> /\ ~live.over /\ ~live.locked /\ ~live.clock
      /\ live.winner = None
  BY <1>3 DEF INITIAL_LIVE
<1>7. LiveInv
  BY <1>1, <1>3, <1>5, <1>6 DEF LiveInv, Stage
<1>8. LoadsInv
  <2>1. \A l \in Loads : loads[l] = IF l = 1 THEN [pc |-> "row", tries |-> 0] ELSE NoLoad
    BY DEF Init
  <2>2. \A l \in Loads : loads[l] \in LoadType /\ LoadHolds(loads[l])
    BY <2>1, LoadEnds, LoadBegins
  <2>3. loads = [l \in Loads |-> IF l = 1 THEN [pc |-> "row", tries |-> 0] ELSE NoLoad]
    BY DEF Init
  <2>4. loads \in [Loads -> LoadType]
    BY <2>1, <2>2, <2>3
  <2> QED BY <2>2, <2>4 DEF LoadsInv
<1>9. FollowInv
  BY <1>3 DEF FollowInv
<1> QED BY <1>2, <1>4, <1>7, <1>8, <1>9 DEF ViewInv

\* Every step keeps all parts.
LEMMA ViewGoesOn == ViewInv /\ [Next]_vars => ViewInv'
<1> SUFFICES ASSUME ViewInv, [Next]_vars PROVE ViewInv'
  OBVIOUS
<1>1. CASE Next
  BY <1>1, SocketRight, RelayerRight, ReceivesRight, LoadRight, BoardRight DEF Next
<1>2. CASE UNCHANGED vars
  <2>1. UNCHANGED <<server, tasks, socket, inbox, record, live, dispute, loads, crossed>>
    BY <1>2 DEF vars, relayerVars, viewVars
  <2>2. ServerInv' /\ LiveInv' /\ InboxInv' /\ FollowInv'
    BY <2>1 DEF ViewInv, ServerInv, Storing, LiveInv, InboxInv, SentHolds, FollowInv, Follows, Has,
                IsMove
  <2>3. LoadsInv'
    BY <2>1 DEF ViewInv, LoadsInv, LoadHolds, ReadHolds, Fresh
  <2> QED BY <2>2, <2>3 DEF ViewInv
<1> QED BY <1>1, <1>2

\* The page knows of nothing that has not happened: no later position, no other winner, and it
\* offers no dispute before the result is on the chain (useMatch and useAntiCheat).
THEOREM ViewTypes == Spec => []ViewTypeOK
<1>1. ViewInv => ViewTypeOK
  <2> SUFFICES ASSUME ViewInv PROVE ViewTypeOK
    OBVIOUS
  <2>1. server.fen \in Nat /\ server.ply \in Nat /\ server.stored \in Nat /\ live.fen \in Nat
    BY ViewAssumption DEF ViewInv, ServerInv, LiveInv, ServerType, LiveType
  <2>2. server.fen <= server.ply
    BY <2>1 DEF ViewInv, ServerInv, Storing
  <2>3. live.fen <= server.ply
    BY <2>1, <2>2 DEF ViewInv, LiveInv
  <2>4. record \in {None, "open", "active", "locked", "completed", "cancelled"}
    BY DEF ViewInv, LiveInv, Status
  <2>5. DisputeButton => server.reported # None
    BY DEF ViewInv, LiveInv, DisputeButton
  <2> QED BY <2>3, <2>4, <2>5 DEF ViewTypeOK, ViewInv, LiveInv, InboxInv
<1> QED BY <1>1, ViewStarts, ViewGoesOn, PTL DEF Spec

\* Once nothing is under way the page shows the match as it is, unless a message was lost or
\* crossed a snapshot since the last snapshot that none crossed (useMatch: load and messages).
THEOREM PageShowsTheMatch == Spec => []PageCatchesUp
<1>1. ViewInv => PageCatchesUp
  <2> SUFFICES ASSUME ViewInv, Quiet, ~crossed, record # None
               PROVE  /\ live.fen = server.ply /\ live.history = [i \in 1 .. server.ply |-> i]
                      /\ live.over = server.over /\ live.winner = server.winner
                      /\ Phase = "open" <=> server.status \in {"open", "active", "cancelled"}
                      /\ live.clock => server.status \in {"active", "locked", "completed"}
    BY DEF PageCatchesUp
  <2>1. /\ server \in ServerType /\ live \in LiveType /\ Follows /\ tasks = {} /\ inbox = <<>>
    BY DEF ViewInv, ServerInv, LiveInv, FollowInv, Quiet
  <2>2. /\ server.ply = server.fen /\ server.fen \in Nat /\ live.fen \in Nat /\ live.fen <= server.fen
        /\ server.over \in BOOLEAN /\ live.over \in BOOLEAN
    BY <2>1 DEF ViewInv, ServerInv, LiveInv, Storing, ServerType, LiveType
  <2>3. live.fen = server.fen
    BY <2>1, <2>2 DEF Follows
  <2>4. server.over => live.winner = server.winner /\ live.winner # None
    BY <2>1 DEF Follows, Has, ViewInv, ServerInv, LiveInv
  <2>5. live.winner = server.winner
    BY <2>4 DEF ViewInv, ServerInv, LiveInv
  <2>6. live.over <=> server.over
    BY <2>4 DEF ViewInv, LiveInv
  <2>7. live.over = server.over
    BY <2>2, <2>6
  <2>8. live.locked \/ live.over <=> server.status \in {"locked", "completed"}
    <3>1. server.status = "completed" <=> server.over
      BY <2>1 DEF ViewInv, ServerInv
    <3>2. server.status = "locked" => live.locked
      BY <2>1 DEF Follows, Has
    <3>3. live.locked => server.status \in {"locked", "completed"}
      BY DEF ViewInv, LiveInv
    <3> QED BY <2>6, <3>1, <3>2, <3>3
  <2>9. Phase = "open" <=> ~(live.locked \/ live.over)
    BY DEF Phase
  <2>10. server.status \in Status \ {"absent"}
    BY <2>1 DEF ViewInv, LiveInv, ServerType
  <2> QED BY <2>1, <2>2, <2>3, <2>5, <2>7, <2>8, <2>9, <2>10 DEF Follows, Status, Going, ViewInv, LiveInv
<1> QED BY <1>1, ViewStarts, ViewGoesOn, PTL DEF Spec

\* What a message said of the end of the game, its winner or the lock is not taken back by an
\* older snapshot (useMatch: merge).
THEOREM NothingForgotten == Spec => PageNeverForgets
<1>1. ViewInv /\ [Next]_vars =>
        [/\ live.over => live'.over
         /\ live.winner # None => live'.winner = live.winner
         /\ live.locked => live'.locked]_vars
  <2> SUFFICES ASSUME ViewInv, Next
               PROVE  /\ live.over => live'.over
                      /\ live.winner # None => live'.winner = live.winner
                      /\ live.locked => live'.locked
    OBVIOUS
  <2>1. CASE live' = live
    BY <2>1
  <2>2. CASE Receives
    <3>1. Head(inbox) \in WsEvent /\ SentHolds(Head(inbox)) /\ live' = Handled(Head(inbox))
      BY <2>2, Received DEF ViewInv, InboxInv, Receives
    <3>2. /\ live'.over = (live.over \/ Head(inbox).type \in {"GAME_OVER", "SETTLEMENT_DONE"})
          /\ live'.winner = (IF Head(inbox).type = "GAME_OVER" THEN Head(inbox).winner ELSE live.winner)
          /\ live'.locked = (live.locked \/ Head(inbox).type = "MARKET_LOCKED")
      BY <3>1, HandledRight DEF ViewInv
    <3> QED BY <3>1, <3>2 DEF ViewInv, LiveInv, SentHolds
  <2>3. ASSUME NEW l \in Loads, Applies(l)
        PROVE  /\ live.over => live'.over
               /\ live.winner # None => live'.winner = live.winner
               /\ live.locked => live'.locked
    <3>1. loads[l] \in LoadType /\ LoadHolds(loads[l]) /\ loads[l].pc = "reply" /\ live' = Merge(loads[l])
      BY <2>3 DEF Applies, ViewInv, LoadsInv
    <3> QED BY <3>1, MergeRight DEF ViewInv
  <2>4. LoadStep => live' = live \/ \E l \in Loads : Applies(l)
    BY DEF LoadStep, LoadGoesOn, NotFound, ReadsRow, ReadsRest, LoadFails, Polls
  <2>5. SocketStep \/ RelayerStep \/ BoardStep => live' = live
    BY DEF SocketStep, RelayerStep, BoardStep, viewVars
  <2> QED BY <2>1, <2>2, <2>3, <2>4, <2>5 DEF Next
<1> QED BY <1>1, ViewStarts, ViewGoesOn, PTL DEF Spec, PageNeverForgets
=============================================================================
