----------------------------- MODULE EngineQueue -----------------------------
(***************************************************************************)
(* The relayer's chess engine and what waits for it: engine.ts, the two    *)
(* analyses that gameManager.ts starts for every move, the rows they write *)
(* and the anti-cheat flags drawn from them, for one game.                 *)
(*                                                                         *)
(* A position is the number of half-moves that lead to it.  An answer      *)
(* names the position that it is about (its score, for an evaluation; its  *)
(* best move, for an anti-cheat check), so that an answer to another       *)
(* question can be told.  Between awaits Node runs a handler without       *)
(* interruption: a promise that settles starts the next evaluation before  *)
(* the engine's next line or any timer.                                    *)
(*                                                                         *)
(* An evaluation's later effects (posting it, locking the market) and the  *)
(* ways a game ends are in GameManager.                                    *)
(***************************************************************************)
EXTENDS Integers, Sequences, FiniteSets

CONSTANTS
  MaxMoves,      \* bound: the length of the game
  Opening,       \* half-moves before the model begins, all the engine's choice
  MaxCrashes,    \* bound: restarts of the relayer
  MaxFailures,   \* bound: database writes that reject
  ANTICHEAT_OPENING_CUTOFF_PLY, ANTICHEAT_MIN_MOVES,
  ANTICHEAT_SUSPICION_THRESHOLD   \* in percent

ASSUME EngineAssumption ==
  /\ MaxMoves \in Nat /\ Opening \in 0 .. MaxMoves /\ MaxCrashes \in Nat /\ MaxFailures \in Nat
  /\ ANTICHEAT_OPENING_CUTOFF_PLY \in Nat /\ ANTICHEAT_MIN_MOVES \in Nat
  /\ ANTICHEAT_SUSPICION_THRESHOLD \in 0 .. 100

VARIABLES
  engine,    \* the outcome of init, which is asked for once
  queue,     \* evaluations asked for and not settled; the first one is running
  searches,  \* searches the engine has been sent and has not finished, in order
  played,    \* for each half-move, was it the engine's choice?
  storing,   \* the half-moves that submitMove is still writing
  writes,    \* answered analyses that are being inserted
  rows,      \* the move_analysis collection
  over,      \* state.status is completed
  tally,     \* checkAntiCheatFlags: not called, due, recording, or failed
  suspects,  \* the flags it has still to record
  flags,     \* the anti_cheat_flags collection
  overlap,   \* history: were two half-moves ever stored at the same time?
  failures,  \* database writes that rejected
  crashes    \* restarts so far

queueVars == <<engine, queue, searches>>
flagVars  == <<tally, suspects, flags>>
gameVars  == <<played, storing, over, overlap>>
vars == <<queueVars, writes, rows, flagVars, gameVars, failures, crashes>>

Nothing  == -1                          \* no score line; no best move
Position == 0 .. MaxMoves
Players  == {"white", "black"}
moveCount == Len(played)
Mover(ply) == IF ply % 2 = 1 THEN "white" ELSE "black"

\* ply is the half-move the analysis was started for, number the one it is
\* filed under, asks the position it is about; clean (history): the engine owed
\* nothing when the search began, and the answer came in time.
Request(kind, ply, asks) ==
  [kind |-> kind, ply |-> ply, number |-> moveCount, asks |-> asks,
   about |-> Nothing, clean |-> TRUE]

Init ==
  /\ engine = "starting"
  /\ queue = <<>> /\ searches = <<>>
  /\ played = [n \in 1 .. Opening |-> TRUE] /\ storing = {} /\ overlap = FALSE
  /\ writes = {}
  /\ rows = {[ply |-> n, move_number |-> n, matches_engine |-> TRUE,
              clean |-> TRUE, late |-> FALSE] : n \in 1 .. Opening}
  /\ over = FALSE /\ tally = "no" /\ suspects = {} /\ flags = {}
  /\ failures = 0 /\ crashes = 0
-----------------------------------------------------------------------------
(* engine.ts *)

\* Mutant of Sends: a request is sent with the position of the newest one.
SendsLatest(q, s) ==
  IF q = <<>> THEN queue' = q /\ searches' = s
  ELSE /\ queue' = [q EXCEPT ![1].clean = s = <<>>]
       /\ searches' = Append(s, q[Len(q)].asks)

\* evaluateExclusive of the first request in q, the engine still owing the
\* searches s: the line handler is installed and the search is sent.
Sends(q, s) ==
  IF q = <<>>
  THEN queue' = q /\ searches' = s
  ELSE /\ queue' = [q EXCEPT ![1].clean = s = <<>>]
       /\ searches' = Append(s, q[1].asks)

\* heuristicEvaluate: a material count and no best move.
Heuristic(r) == IF r.kind = "eval" THEN [r EXCEPT !.about = r.asks] ELSE r

\* evaluate, for the requests of one handler, in their order.
Evaluate(requests) ==
  CASE engine = "degraded" -> /\ writes' = writes \cup {Heuristic(requests[i]) : i \in DOMAIN requests}
                              /\ UNCHANGED queueVars
    [] engine = "failed"   -> UNCHANGED <<queueVars, writes>>
    [] engine = "ready" /\ queue = <<>> -> Sends(requests, searches) /\ UNCHANGED <<engine, writes>>
    [] OTHER -> queue' = queue \o requests /\ UNCHANGED <<engine, searches, writes>>

\* doInit: the handshake ends; there is no engine at all; or readyok does not
\* come in time, and every request ever made is rejected by the cached promise.
EngineReady ==
  /\ engine = "starting" /\ engine' = "ready"
  /\ Sends(queue, searches)
  /\ UNCHANGED <<writes, rows, flagVars, gameVars, failures, crashes>>

EngineMissing ==
  /\ engine = "starting" /\ engine' = "degraded"
  /\ queue' = <<>>
  /\ writes' = writes \cup {Heuristic(queue[i]) : i \in DOMAIN queue}
  /\ UNCHANGED <<searches, rows, flagVars, gameVars, failures, crashes>>

HandshakeTimeout ==
  /\ engine = "starting" /\ engine' = "failed"
  /\ queue' = <<>>
  /\ UNCHANGED <<searches, writes, rows, flagVars, gameVars, failures, crashes>>

\* finish: the running request is answered and the next one starts.
Finish(answer, s) ==
  /\ writes' = writes \cup {answer}
  /\ Sends(Tail(queue), s)

\* The search that the engine is at ends, with at least one info line: the
\* lines go to the request that is running, or are dropped when none is.  The
\* handler may have come too late for the info lines of an earlier search.
BestMoveLine ==
  /\ searches # <<>>
  /\ IF queue = <<>>
     THEN searches' = Tail(searches) /\ UNCHANGED <<queue, writes>>
     ELSE \E about \in {Head(searches), Nothing} :
            /\ about = Nothing => Head(queue).kind = "eval" /\ ~Head(queue).clean
            /\ Finish([Head(queue) EXCEPT !.about = about], Tail(searches))
  /\ UNCHANGED <<engine, rows, flagVars, gameVars, failures, crashes>>

\* Mutants of EvaluationTimeout: it is left to the engine's answer to a stop.
AwaitsStopped ==
  /\ engine = "ready" /\ queue # <<>>
  /\ UNCHANGED vars

\* EVAL_TIMEOUT_MS: the search is told to stop, and its answer is not awaited:
\* there is no best move, and the score is the last one read, if any.
EvaluationTimeout ==
  /\ engine = "ready" /\ queue # <<>>
  /\ \E about \in {Head(searches), Nothing} :
       /\ Head(queue).kind = "check" => about = Nothing
       /\ Finish([Head(queue) EXCEPT !.about = about, !.clean = FALSE], searches)
  /\ UNCHANGED <<engine, rows, flagVars, gameVars, failures, crashes>>
-----------------------------------------------------------------------------
(* gameManager.ts *)

WriteRejects == failures < MaxFailures /\ failures' = failures + 1

\* submitMove up to the insertion of the move, and its two writes.
SubmitMove(choice) ==
  /\ ~over /\ moveCount < MaxMoves
  /\ played' = Append(played, choice)
  /\ overlap' = (overlap \/ storing # {})
  /\ storing' = storing \cup {moveCount + 1}
  /\ UNCHANGED <<over, queueVars, writes, rows, flagVars, failures, crashes>>

\* Mutant of Analyses: the analysis is filed under the next move.
AnalysesNext(ply)  == <<Request("eval", ply, moveCount),
                        [Request("check", ply, ply - 1) EXCEPT !.number = @ + 1]>>

\* runEvaluation and runAntiCheatCheck read moveCount and the board when the
\* move is stored, the second one with the position from before the move.
Analyses(ply) == <<Request("eval", ply, moveCount), Request("check", ply, ply - 1)>>

MoveStored(ply) ==
  /\ ply \in storing /\ storing' = storing \ {ply}
  /\ Evaluate(Analyses(ply))
  /\ UNCHANGED <<played, over, overlap, rows, flagVars, failures, crashes>>

\* A write rejects and with it submitMove: the move stays on the board.
MoveNotStored(ply) ==
  /\ ply \in storing /\ storing' = storing \ {ply}
  /\ WriteRejects
  /\ UNCHANGED <<played, over, overlap, queueVars, writes, rows, flagVars, crashes>>

\* A mutant of Matches: no answer is taken for agreement.
MatchesUnless(w, m) == m = (w.about = Nothing \/ played[w.ply])

\* matches_engine: the best move is the move played.  The best move in another
\* position may be the same move by chance.
Matches(w, m) ==
  CASE w.about = Nothing -> m = FALSE
    [] w.about = w.asks  -> m = played[w.ply]
    [] OTHER            -> m \in BOOLEAN

\* insertEvaluation, whose rows nothing here reads, and insertMoveAnalysis;
\* late (history): the flags have already been drawn from the rows.
Inserted(w) ==
  /\ w \in writes /\ writes' = writes \ {w}
  /\ \/ /\ IF w.kind = "eval" THEN UNCHANGED rows
           ELSE \E m \in BOOLEAN :
                  /\ Matches(w, m)
                  /\ rows' = rows \cup
                       {[ply |-> w.ply, move_number |-> w.number, matches_engine |-> m,
                         clean |-> w.clean, late |-> tally \in {"recording", "failed"}]}
        /\ UNCHANGED failures
     \/ WriteRejects /\ UNCHANGED rows
  /\ UNCHANGED <<queueVars, flagVars, gameVars, crashes>>

\* Any ending of the game, up to finishMatch's await.
FinishMatch ==
  /\ ~over /\ over' = TRUE
  /\ tally' = "due"
  /\ UNCHANGED <<played, storing, overlap, queueVars, writes, rows, suspects, flags, failures, crashes>>

\* aggregateSuspicion's group of a player.
Analyzed(player) ==
  {r \in rows : Mover(r.ply) = player /\ r.move_number > ANTICHEAT_OPENING_CUTOFF_PLY}
Agreed(player) == {r \in Analyzed(player) : r.matches_engine}

\* A player that checkAntiCheatFlags does not skip.
Suspicious(player) ==
  /\ Analyzed(player) # {}
  /\ Cardinality(Analyzed(player)) >= ANTICHEAT_MIN_MOVES
  /\ 100 * Cardinality(Agreed(player)) >= ANTICHEAT_SUSPICION_THRESHOLD * Cardinality(Analyzed(player))

\* Mutant of FlagsTallied: the minimum itself is not enough.
FlagsTalliedStrict ==
  /\ tally = "due" /\ tally' = "recording"
  /\ suspects' = {[player |-> p, moves |-> Cardinality(Analyzed(p)), agreed |-> Cardinality(Agreed(p))] :
                  p \in {q \in Players : Suspicious(q) /\ Cardinality(Analyzed(q)) > ANTICHEAT_MIN_MOVES}}
  /\ UNCHANGED <<flags, queueVars, writes, rows, gameVars, failures, crashes>>

\* checkAntiCheatFlags reads the rows once the game is settled and completed,
\* then records one flag after the other; an error ends it.
FlagsTallied ==
  /\ tally = "due" /\ tally' = "recording"
  /\ suspects' = {[player |-> p, moves |-> Cardinality(Analyzed(p)), agreed |-> Cardinality(Agreed(p))] :
                  p \in {q \in Players : Suspicious(q)}}
  /\ UNCHANGED <<flags, queueVars, writes, rows, gameVars, failures, crashes>>

FlagRecorded(f) ==
  /\ f \in suspects /\ suspects' = suspects \ {f}
  /\ flags' = {g \in flags : g.player # f.player} \cup {f}
  /\ UNCHANGED <<tally, queueVars, writes, rows, gameVars, failures, crashes>>

TallyFails ==
  /\ tally = "due" \/ suspects # {}
  /\ tally' = "failed" /\ suspects' = {}
  /\ WriteRejects
  /\ UNCHANGED <<flags, queueVars, writes, rows, gameVars, crashes>>

\* The relayer restarts: whatever waited is gone.  Moves that were being
\* written count as written, and a game that was completed as completed.
Restart ==
  /\ crashes < MaxCrashes /\ crashes' = crashes + 1
  /\ engine' = "starting" /\ queue' = <<>> /\ searches' = <<>>
  /\ storing' = {} /\ writes' = {}
  /\ tally' = IF tally = "due" \/ suspects # {} THEN "failed" ELSE tally
  /\ suspects' = {}
  /\ UNCHANGED <<played, over, overlap, rows, flags, failures>>

EngineStarts == EngineReady \/ EngineMissing \/ HandshakeTimeout

Next ==
  \/ EngineStarts \/ BestMoveLine \/ EvaluationTimeout
  \/ \E choice \in BOOLEAN : SubmitMove(choice)
  \/ \E ply \in storing : MoveStored(ply) \/ MoveNotStored(ply)
  \/ \E w \in writes : Inserted(w)
  \/ FinishMatch \/ FlagsTallied \/ TallyFails
  \/ \E f \in suspects : FlagRecorded(f)
  \/ Restart

Spec == Init /\ [][Next]_vars
=============================================================================
