---------------------------- MODULE GameManager ----------------------------
(***************************************************************************)
(* The relayer's game manager for one on-chain match: gameManager.ts with  *)
(* the database rows it writes, the MatchActive event that starts a game   *)
(* and the result it posts on-chain.                                       *)
(*                                                                         *)
(* Handlers.  Node runs a handler without interruption up to its next      *)
(* await.  A handler that is waiting is a task; what it does when the      *)
(* awaited call is over is the action for the task's pc, which also applies*)
(* the database write or transaction that the task was waiting for.  A     *)
(* call that fails ends the task, unless the code catches the error.       *)
(*                                                                         *)
(* Time.  Clocks are not counted: an armed flag-fall timer may fire, and a *)
(* move may come too late, at any moment.                                  *)
(*                                                                         *)
(* Player A has white, as in every match made on-chain.  Broadcasts and    *)
(* the anti-cheat rows change no state that is read here.                  *)
(***************************************************************************)
EXTENDS Integers, Sequences, FiniteSets

CONSTANTS
  MaxPly,        \* bound: the length of a game
  MaxObjects,    \* bound: GameStates built between two restarts
  MaxLoads,      \* bound: requests that rebuild the game at the same time
  MaxFinishes,   \* bound: resignations are not repeated beyond this
  MaxCrashes,    \* bound: restarts of the relayer
  MaxFailures,   \* bound: kinds of database write that fail
  Evaluations,   \* what the engine may say: records [side, mate]
  EVAL_LOCK_CONFIRMATIONS

ASSUME GameAssumption ==
  /\ MaxPly \in Nat /\ MaxLoads \in Nat /\ MaxCrashes \in Nat /\ MaxFailures \in Nat
  /\ MaxObjects \in Nat \ {0} /\ MaxFinishes \in Nat
  /\ Evaluations \subseteq [side : {-1, 0, 1}, mate : BOOLEAN]
  /\ EVAL_LOCK_CONFIRMATIONS \in Nat \ {0}

Winner  == {"PlayerA", "PlayerB", "Draw"}
Endings == {"no", "mate", "draw"}     \* isGameOver, and isCheckmate
Objects == 1 .. MaxObjects
NoTimer == -1

VARIABLES
  objects,     \* every GameState built since the relayer started
  games,       \* the games map's entry for the match, 0 when it has none
  tasks,       \* the handlers that are waiting
  row,         \* the games row: its status and winner
  moves,       \* the moves collection, in the order of insertion
  settlement,  \* winner in the settlements row, "None" when there is no row
  chain,       \* the result reported on-chain, "None" while there is none
  announced,   \* has MatchActive been handled since the relayer started?
  failed,      \* kinds of database write that failed
  crashes      \* restarts so far

vars == <<objects, games, tasks, row, moves, settlement, chain,
          announced, failed, crashes>>
dbVars == <<row, moves, settlement>>

\* ply counts the half-moves on the board, count is moveCount; timer is the
\* ply at which the flag-fall timer was armed, so the clock it watches.
GameState == [ply : 0 .. MaxPly, count : Nat, end : Endings,
              status : {"active", "locked", "completed"},
              timer : {NoTimer} \cup 0 .. MaxPly,
              locked : BOOLEAN, side : {-1, 0, 1}, streak : Nat, finishes : Nat]

NoGame == [ply |-> 0, count |-> 0, end |-> "no", status |-> "absent", timer |-> NoTimer,
           locked |-> FALSE, side |-> 0, streak |-> 0, finishes |-> 0]

Task(kind, i, n, pc, note) ==
  [kind |-> kind, obj |-> i, number |-> n, ply |-> 0, pc |-> pc, note |-> note]

Init ==
  /\ objects = [i \in Objects |-> NoGame]
  /\ games = 0
  /\ tasks = {}
  /\ row = [status |-> "open", winner |-> "None"]
  /\ moves = <<>>
  /\ settlement = "None"
  /\ chain = "None"
  /\ announced = FALSE
  /\ failed = {}
  /\ crashes = 0

Ended(i) == objects[i].status = "completed"

Goes(t, pc) == (tasks \ {t}) \cup {[t EXCEPT !.pc = pc]}
Done(t)     == tasks \ {t}

\* A database write of this kind is rejected: the handler's await throws.
Fails(kind) ==
  /\ Cardinality(failed \cup {kind}) <= MaxFailures
  /\ failed' = failed \cup {kind}
-----------------------------------------------------------------------------
(* The flag-fall timer, and the end of a game *)

\* Mutants of Rearmed: not at all; only if no timer is armed; one ply ahead.
NeverRearmed(o)  == [o EXCEPT !.timer = NoTimer]
RearmedOnce(o)   == IF o.timer = NoTimer THEN [o EXCEPT !.timer = o.ply] ELSE o
RearmedAhead(o)  ==
  [o EXCEPT !.timer = IF o.status = "completed" THEN NoTimer ELSE o.ply + 1]

\* scheduleFlagFall: the old timer is cleared, a new one watches the player
\* on the move, unless the game is over.
Rearmed(o) ==
  [o EXCEPT !.timer = IF o.status = "completed" THEN NoTimer ELSE o.ply]

\* In what follows o is the GameState i as the handler finds it, and others
\* are the tasks that remain.

\* What every ending does before finishMatch waits for the result to be posted.
Finishes(i, o, winner, others) ==
  /\ objects' = [objects EXCEPT ![i] = [o EXCEPT !.status = "completed", !.timer = NoTimer,
                                                 !.finishes = @ + 1]]
  /\ tasks' = others \cup {Task("finish", i, o.finishes + 1, "post", winner)}

\* White is to move at even plies; the player on the move has lost.
LostBySideToMove(o) == IF o.ply % 2 = 0 THEN "PlayerB" ELSE "PlayerA"

\* handleTimeout, called by the timer or by a move that comes too late.
HandleTimeout(i, o, others) ==
  /\ o.status # "completed"
  /\ Finishes(i, o, LostBySideToMove(o), others)

\* handleGameOver does not ask whether the game is over already.
HandleGameOver(i, o, others) ==
  Finishes(i, o, IF o.end = "mate" THEN LostBySideToMove(o) ELSE "Draw", others)

FlagFalls(i) ==
  /\ objects[i].timer # NoTimer
  /\ HandleTimeout(i, objects[i], tasks)
  /\ UNCHANGED <<games, dbVars, chain, announced, failed, crashes>>
-----------------------------------------------------------------------------
(* Requests *)

\* submitMove up to its first write: the move is on the board.  A move after
\* a drawn position is legal until the game has been declared over.
PutsMove(i, o, others) ==
  \E end \in Endings :
    /\ o.status # "completed"
    /\ o.end # "mate"
    /\ o.ply < MaxPly
    /\ objects' = [objects EXCEPT ![i] =
                     [o EXCEPT !.ply = @ + 1, !.count = @ + 1, !.end = end]]
    /\ tasks' = others \cup {[Task("move", i, o.count + 1, "store", end)
                                EXCEPT !.ply = o.ply + 1]}

\* handleResignation asks neither whose turn it is nor whether the game is over.
Resigns(i, o, others) ==
  /\ o.finishes < MaxFinishes
  /\ \E winner \in {"PlayerA", "PlayerB"} : Finishes(i, o, winner, others)

Serves(i, o, others) ==
  PutsMove(i, o, others) \/ HandleTimeout(i, o, others) \/ Resigns(i, o, others)

\* A player's request while the match is in the games map.
PlayerActs ==
  /\ games # 0
  /\ Serves(games, objects[games], tasks)
  /\ UNCHANGED <<games, dbVars, chain, announced, failed, crashes>>

\* insertMove and updateCurrentFen are over.  The game ends here, or the timer
\* is re-armed and the position on the board by now goes to the engine.  If
\* either write fails the request does, with the move on the board.
MoveStored(t) ==
  LET i      == t.obj
      stored == Append(moves, [number |-> t.number, ply |-> t.ply, end |-> t.note])
  IN
  /\ t.kind = "move"
  /\ \/ /\ moves' = stored
        /\ IF objects[i].end # "no"
           THEN HandleGameOver(i, objects[i], Done(t))
           ELSE /\ objects' = [objects EXCEPT ![i] = Rearmed(@)]
                /\ tasks' = Done(t) \cup {Task("eval", i, t.number, "post", "")}
        /\ UNCHANGED failed
     \/ /\ Fails("move")
        /\ tasks' = Done(t)
        /\ moves' \in {moves, stored}
        /\ UNCHANGED objects
  /\ UNCHANGED <<games, row, settlement, chain, announced, crashes>>
-----------------------------------------------------------------------------
(* runEvaluation *)

\* The streak of evaluations that favour the same side.
Counted(o, side) ==
  IF side = 0 THEN [o EXCEPT !.side = 0, !.streak = 0]
  ELSE IF side = o.side THEN [o EXCEPT !.streak = @ + 1]
  ELSE [o EXCEPT !.side = side, !.streak = 1]

\* Mutant of Lock: the status is not asked for.
LockAlways(o) == [o EXCEPT !.locked = TRUE, !.status = "locked"]

Lock(o) ==
  [o EXCEPT !.locked = TRUE, !.status = IF @ = "active" THEN "locked" ELSE @]

\* The engine has answered and postEvaluation is over, with or without success.
\* A game that had ended when the engine answered is left alone; one that ended
\* while the transaction was under way is not.
EvalPosted(t) ==
  /\ t.kind = "eval" /\ t.pc = "post"
  /\ \/ \E e \in Evaluations :
          LET o == Counted(objects[t.obj], e.side)
              confirmed == e.mate \/ o.streak >= EVAL_LOCK_CONFIRMATIONS
          IN  IF confirmed /\ ~o.locked
              THEN /\ objects' = [objects EXCEPT ![t.obj] = Lock(o)]
                   /\ tasks' = Goes(t, "row")
              ELSE /\ objects' = [objects EXCEPT ![t.obj] = o]
                   /\ tasks' = Done(t)
     \/ Ended(t.obj) /\ tasks' = Done(t) /\ UNCHANGED objects
  /\ UNCHANGED <<games, dbVars, chain, announced, failed, crashes>>

\* updateGameStatus writes 'locked' over whatever the row says.
LockStored(t) ==
  /\ t.kind = "eval" /\ t.pc = "row"
  /\ \/ row' = [row EXCEPT !.status = "locked"] /\ UNCHANGED failed
     \/ Fails("lock") /\ UNCHANGED row
  /\ tasks' = Done(t)
  /\ UNCHANGED <<objects, games, moves, settlement, chain, announced, crashes>>
-----------------------------------------------------------------------------
(* finishMatch *)

\* Mutant of Reported: a result is taken for posted though the chain has one.
ReportedAnyway(t) == TRUE

\* post_result is applied: Settlement takes a match's first result only.
Reported(t) == chain = "None"

\* settleMatch: the transaction is applied or fails; a failure is logged.
ResultPosted(t) ==
  /\ t.kind = "finish" /\ t.pc = "post"
  /\ \/ /\ Reported(t)
        /\ chain' = IF chain = "None" THEN t.note ELSE chain
        /\ tasks' = Goes(t, "record")
     \/ /\ tasks' = Goes(t, "complete")
        /\ UNCHANGED chain
  /\ UNCHANGED <<objects, games, dbVars, announced, failed, crashes>>

\* The hash is known and the row is written; or polling for the hash gave up,
\* or the write failed, and the error is caught.
SettlementRecorded(t) ==
  /\ t.kind = "finish" /\ t.pc = "record"
  /\ settlement' \in {t.note, settlement}
  /\ tasks' = Goes(t, "complete")
  /\ UNCHANGED <<objects, games, row, moves, chain, announced, failed, crashes>>

\* completeGame is over.
GameCompleted(t) ==
  /\ t.kind = "finish" /\ t.pc = "complete"
  /\ \/ /\ row' = [row EXCEPT !.status = "completed", !.winner = t.note]
        /\ tasks' = Goes(t, "flags")
        /\ UNCHANGED failed
     \/ /\ Fails("complete")
        /\ tasks' = Done(t)
        /\ UNCHANGED row
  /\ UNCHANGED <<objects, games, moves, settlement, chain, announced, crashes>>

\* checkAntiCheatFlags is over; whichever object the map holds is dropped.
GameForgotten(t) ==
  /\ t.kind = "finish" /\ t.pc = "flags"
  /\ games' = 0
  /\ tasks' = Done(t)
  /\ UNCHANGED <<objects, dbVars, chain, announced, failed, crashes>>
-----------------------------------------------------------------------------
(* ensureGameLoaded *)

\* Room for a new GameState, which goes into the map under the match's id.
Installs(i) ==
  /\ objects[i] = NoGame
  /\ \A j \in 1 .. i - 1 : objects[j] # NoGame
  /\ games' = i

\* A request finds no game in the map, and a row that says there is one.
LoadAsked ==
  /\ games = 0
  /\ row.status \in {"active", "locked"}
  /\ \E n \in 1 .. MaxLoads :
       /\ \A t \in tasks : ~(t.kind = "load" /\ t.number = n)
       /\ tasks' = tasks \cup {Task("load", 0, n, "moves", row.status)}
  /\ UNCHANGED <<objects, games, dbVars, chain, announced, failed, crashes>>

\* The recorded moves in the order of their numbers, then of insertion; the
\* replay stops at the first that is illegal on the board reached.  A move is
\* taken to be legal when it is for the next ply of a game that goes on.
Earlier(i) == {j \in DOMAIN moves : \/ moves[j].number < moves[i].number
                                    \/ moves[j].number = moves[i].number /\ j <= i}
NthMove(k) == moves[CHOOSE i \in DOMAIN moves : Cardinality(Earlier(i)) = k]
Replays(k) == \A l \in 1 .. k : NthMove(l).ply = l /\ (l < k => NthMove(l).end # "mate")
Replayed   == CHOOSE k \in 0 .. Len(moves) :
                Replays(k) /\ \A l \in k + 1 .. Len(moves) : ~Replays(l)

\* The game is rebuilt with its timer armed, replaces what the map holds by
\* now, and the request is served (or only reads) in the same turn.
Rebuilt(status) ==
  [NoGame EXCEPT !.ply = Replayed, !.count = Len(moves),
                 !.end = IF Replayed = 0 THEN "no" ELSE NthMove(Replayed).end,
                 !.status = status, !.locked = status = "locked"]

Rehydrated(t) ==
  LET o == Rearmed(Rebuilt(t.note)) IN
  /\ t.kind = "load"
  /\ \E i \in Objects :
       /\ Installs(i)
       /\ \/ Serves(i, o, Done(t))
          \/ objects' = [objects EXCEPT ![i] = o] /\ tasks' = Done(t)
  /\ UNCHANGED <<dbVars, chain, announced, failed, crashes>>
-----------------------------------------------------------------------------
(* The MatchActive event *)

\* A poll finds the event: the first time, and after every restart within the
\* lookback, when the ids already seen are forgotten.  A row that says the
\* match is over stops the handler.
ActiveSeen ==
  /\ ~announced
  /\ announced' = TRUE
  /\ tasks' = IF row.status = "completed" THEN tasks
              ELSE tasks \cup {Task("event", 0, 0, "activate", "")}
  /\ UNCHANGED <<objects, games, dbVars, chain, failed, crashes>>

\* activateGame reaches the database before its answer reaches the relayer.
Activated(t) ==
  /\ t.kind = "event" /\ t.pc = "activate"
  /\ row' = [row EXCEPT !.status = IF @ = "open" THEN "active" ELSE @]
  /\ tasks' = Goes(t, "init")
  /\ UNCHANGED <<objects, games, moves, settlement, chain, announced, failed, crashes>>

\* initGame: a fresh board, whatever was recorded, unless the map has a game.
GameInitialised(t) ==
  /\ t.kind = "event" /\ t.pc = "init"
  /\ tasks' = Done(t)
  /\ IF games = 0
     THEN \E i \in Objects :
            /\ Installs(i)
            /\ objects' = [objects EXCEPT ![i] = Rearmed([NoGame EXCEPT !.status = "active"])]
     ELSE UNCHANGED <<objects, games>>
  /\ UNCHANGED <<dbVars, chain, announced, failed, crashes>>
-----------------------------------------------------------------------------
\* The relayer dies and starts again: memory, timers and waiting handlers go.
Restart ==
  /\ crashes < MaxCrashes
  /\ crashes' = crashes + 1
  /\ objects' = [i \in Objects |-> NoGame]
  /\ games' = 0
  /\ tasks' = {}
  /\ announced' = FALSE
  /\ UNCHANGED <<dbVars, chain, failed>>

MoveStep   == \E t \in tasks : MoveStored(t)
EvalStep   == \E t \in tasks : EvalPosted(t) \/ LockStored(t)
FinishStep == \E t \in tasks : \/ ResultPosted(t) \/ SettlementRecorded(t)
                               \/ GameCompleted(t) \/ GameForgotten(t)
LoadStep   == \E t \in tasks : Rehydrated(t)
EventStep  == \E t \in tasks : Activated(t) \/ GameInitialised(t)

Next ==
  \/ PlayerActs
  \/ \E i \in Objects : FlagFalls(i)
  \/ MoveStep
  \/ EvalStep
  \/ FinishStep
  \/ LoadAsked
  \/ LoadStep
  \/ ActiveSeen
  \/ EventStep
  \/ Restart

Spec == Init /\ [][Next]_vars
=============================================================================
