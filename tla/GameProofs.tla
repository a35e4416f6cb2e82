----------------------------- MODULE GameProofs -----------------------------
(***************************************************************************)
(* Proofs about the game manager: what its objects, tasks and rows hold,   *)
(* the clocks that run, and the result that is recorded.                   *)
(***************************************************************************)
EXTENDS GameProperties, FiniteSums

Move == [number : Nat, ply : 1 .. MaxPly, end : Endings]

Built(i) == objects[i] # NoGame

Place == {"store", "post", "row", "record", "complete", "flags", "moves", "activate", "init"}
Note  == Winner \cup Endings \cup {"active", "locked", ""}
Work  == [kind : {"move", "eval", "finish", "load", "event"}, obj : 0 .. MaxObjects,
          number : Nat, ply : 0 .. MaxPly, pc : Place, note : Note]

\* What a GameState is like at any moment.
Sound(o) ==
  /\ o \in GameState /\ o.timer <= o.ply
  /\ o.finishes > 0 <=> o.status = "completed"
  /\ o.timer = NoTimer <=> o.status = "completed"

\* What a waiting handler holds: the ending, status or winner that it is to write, and
\* the game it began with, which is still an object.
Filled(t) ==
  /\ t \in Work
  /\ t.kind = "move" => t.note \in Endings /\ t.ply # 0
  /\ t.kind = "finish" => t.note \in Winner
  /\ t.kind = "load" => t.note \in {"active", "locked"}

Fits(t) ==
  Filled(t) /\ (t.kind \in {"move", "eval", "finish"} => t.obj \in Objects /\ Built(t.obj))

\* Strengthening of GameTypeOK: the objects and the tasks, then what is written down.
ObjectInv ==
  /\ objects \in [Objects -> GameState \cup {NoGame}]
  /\ \A i \in Objects : Built(i) => Sound(objects[i])
  /\ \A t \in tasks : Fits(t)

BooksInv ==
  /\ games \in 0 .. MaxObjects /\ (games # 0 => Built(games))
  /\ row \in [status : {"open", "active", "locked", "completed"}, winner : Winner \cup {"None"}]
  /\ moves \in Seq(Move)
  /\ settlement \in Winner \cup {"None"} /\ chain \in Winner \cup {"None"}

\* Strengthening of SettlementIsReported: who writes the row has had its result applied.
ReportInv ==
  /\ settlement # "None" => settlement = chain
  /\ \A t \in tasks : t.kind = "finish" /\ t.pc = "record" => chain = t.note

\* ClockRuns, for the objects that Sound says have a timer.
Timed(i) ==
  \/ objects[i].timer = objects[i].ply
  \/ \E t \in tasks : t.kind = "move" /\ t.obj = i
  \/ "move" \in failed

ClockInv == \A i \in Objects : Built(i) /\ ~Ended(i) => Timed(i)

GameInv == ObjectInv /\ BooksInv /\ ReportInv /\ ClockInv

\* The step that EndedIsFinal allows.
EndedKept ==
  \A i \in Objects : Ended(i) /\ crashes' = crashes =>
    /\ objects'[i].status = "completed" /\ objects'[i].timer = NoTimer
    /\ objects'[i].ply = objects[i].ply /\ objects'[i].end = objects[i].end
-----------------------------------------------------------------------------
(* Replaying the recorded moves *)

\* The recorded moves can be told apart by how many are earlier: each has its own place.
LEMMA EveryPlaceTaken ==
  ASSUME moves \in Seq(Move), NEW k \in 1 .. Len(moves)
  PROVE  NthMove(k) \in Move
<1> DEFINE D    == 1 .. Len(moves)
           rank == [i \in D |-> Cardinality(Earlier(i))]
<1>0. DOMAIN moves = D /\ Len(moves) \in Nat /\ \A i \in D : moves[i] \in Move
  OBVIOUS
<1>1. /\ DOMAIN moves = D /\ Len(moves) \in Nat /\ \A i \in D : moves[i] \in Move
      /\ \A i \in D : moves[i].number \in Nat
  BY <1>0 DEF Move
<1>2. IsFiniteSet(D) /\ Cardinality(D) = Len(moves)
  BY SMTT(30), <1>1, FS_Interval
<1>3. \A i \in D : IsFiniteSet(Earlier(i)) /\ Cardinality(Earlier(i)) <= Len(moves) /\ Earlier(i) \subseteq D
  BY <1>1, <1>2, FS_Subset DEF Earlier
<1>4. \A i \in D : i \in Earlier(i)
  BY <1>1 DEF Earlier
<1>5. \A i \in D : rank[i] \in D
  <2> SUFFICES ASSUME NEW i \in D PROVE Cardinality(Earlier(i)) \in D
    OBVIOUS
  <2>1. IsFiniteSet({i}) /\ Cardinality({i}) = 1 /\ {i} \subseteq Earlier(i)
    BY <1>4, FS_Singleton
  <2>2. Cardinality({i}) <= Cardinality(Earlier(i))
    BY <1>3, <2>1, FS_Subset
  <2>3. Cardinality(Earlier(i)) \in Nat
    BY <1>3, FS_CardinalityType
  <2> QED BY <1>1, <1>3, <2>1, <2>2, <2>3
<1>6. ASSUME NEW i \in D, NEW j \in D, rank[i] = rank[j] PROVE i = j
  <2>1. Earlier(i) \subseteq Earlier(j) \/ Earlier(j) \subseteq Earlier(i)
    BY <1>1 DEF Earlier
  <2>2. Earlier(i) = Earlier(j)
    BY <1>3, <1>6, <2>1, FS_Subset
  <2>3. i \in Earlier(j) /\ j \in Earlier(i)
    BY <1>4, <2>2
  <2> QED BY <1>1, <2>3 DEF Earlier
<1>7. rank \in Injection(D, D)
  BY <1>5, <1>6 DEF Injection, IsInjective
<1>8. rank \in Surjection(D, D)
  BY <1>2, <1>7, FS_Injection
<1>9. PICK i \in D : Cardinality(Earlier(i)) = k
  BY <1>8 DEF Surjection
<1> QED BY <1>1, <1>9 DEF NthMove

\* The replay ends, within the recorded moves and on the board.
LEMMA ReplayEnds ==
  ASSUME moves \in Seq(Move)
  PROVE  /\ Replayed \in 0 .. MaxPly /\ Len(moves) \in Nat
         /\ Replayed # 0 => NthMove(Replayed).end \in Endings
<1> DEFINE T == {n \in 0 .. Len(moves) : Replays(Len(moves) - n)}
<1>1. Len(moves) \in Nat
  OBVIOUS
<1>2. Len(moves) \in T
  BY <1>1 DEF Replays
<1>3. T # {} /\ T \in SUBSET Nat
  BY <1>1, <1>2
<1> HIDE DEF T
<1>4. PICK n \in T : \A m \in T : n <= m
  BY <1>3, LeastNat
<1> USE DEF T
<1>5. \A l \in Len(moves) - n + 1 .. Len(moves) : ~Replays(l)
  <2> SUFFICES ASSUME NEW l \in Len(moves) - n + 1 .. Len(moves), Replays(l) PROVE FALSE
    OBVIOUS
  <2>1. Len(moves) - l \in 0 .. Len(moves) /\ Len(moves) - (Len(moves) - l) = l
    BY <1>1, <1>4
  <2> QED BY <1>1, <1>4, <2>1
<1>6. Len(moves) - n \in 0 .. Len(moves) /\ Replays(Len(moves) - n)
  BY <1>1, <1>4
<1>7. Replayed \in 0 .. Len(moves) /\ Replays(Replayed)
  BY <1>5, <1>6 DEF Replayed
<1>8. Replayed # 0 => NthMove(Replayed) \in Move /\ NthMove(Replayed).ply = Replayed
  BY <1>1, <1>7, EveryPlaceTaken DEF Replays
<1> QED BY <1>1, <1>7, <1>8, GameAssumption DEF Move
-----------------------------------------------------------------------------
(* GameStates *)

\* A game that is over stays over, with its board as it was.
Follows(o, p) ==
  /\ Sound(p)
  /\ o.status = "completed" => p.status = "completed" /\ p.ply = o.ply /\ p.end = o.end

\* What a call that puts a move or ends the game does to the game i, found as o: one new
\* task, and no clock stays behind but that of a move still to be stored.
Served(i, o, others) ==
  \E p, t :
    /\ objects' = [objects EXCEPT ![i] = p] /\ Follows(o, p)
    /\ tasks' = others \cup {t} /\ Filled(t) /\ t.obj = i
    /\ t.kind = "move" \/ (t.kind = "finish" /\ t.pc = "post" /\ p.status = "completed")

\* No game is not a game.
LEMMA NoGameUnsound == NoGame \notin GameState
BY DEF NoGame, GameState

\* A rearmed clock is the clock of the ply that is on the board.
LEMMA RearmedSound ==
  ASSUME NEW o \in GameState, o.finishes > 0 <=> o.status = "completed"
  PROVE  /\ Follows(o, Rearmed(o))
         /\ o.status # "completed" => Rearmed(o).timer = Rearmed(o).ply
<1>1. /\ Rearmed(o) \in GameState
      /\ Rearmed(o).timer = IF o.status = "completed" THEN NoTimer ELSE o.ply
      /\ Rearmed(o).status = o.status /\ Rearmed(o).ply = o.ply /\ Rearmed(o).end = o.end
      /\ Rearmed(o).finishes = o.finishes
  BY DEF Rearmed, GameState
<1>2. o.ply \in Nat
  BY GameAssumption DEF GameState
<1> QED BY <1>1, <1>2 DEF Follows, Sound, NoTimer

\* Finishing a game asks for its report.
LEMMA FinishedSound ==
  ASSUME NEW o, Sound(o), NEW i \in Objects, NEW winner \in Winner, NEW others,
         Finishes(i, o, winner, others)
  PROVE  Served(i, o, others)
<1> DEFINE n == o.finishes + 1
           p == [o EXCEPT !.status = "completed", !.timer = NoTimer, !.finishes = n]
           t == Task("finish", i, n, "post", winner)
<1>0. n \in Nat /\ n > 0 /\ o.ply \in Nat /\ i \in 0 .. MaxObjects /\ 0 \in 0 .. MaxPly
  BY GameAssumption DEF Sound, GameState, Objects
<1>3. objects' = [objects EXCEPT ![i] = p] /\ tasks' = others \cup {t}
  BY DEF Finishes
<1> HIDE DEF n
<1>1. /\ p \in GameState /\ p.status = "completed" /\ p.timer = NoTimer
      /\ p.ply = o.ply /\ p.end = o.end /\ p.finishes = n
  BY <1>0 DEF Sound, GameState
<1>2. t \in Work /\ t.obj = i /\ t.kind = "finish" /\ t.pc = "post" /\ t.note = winner
  BY <1>0 DEF Task, Work, Place, Note
<1> HIDE DEF p, t
<1>4. Follows(o, p)
  BY <1>0, <1>1 DEF Follows, Sound, NoTimer
<1> QED BY <1>1, <1>2, <1>3, <1>4 DEF Served, Filled

\* A flag or a mate on the board ends the game once.
LEMMA EndingServed ==
  ASSUME NEW o, Sound(o), NEW i \in Objects, NEW others,
         HandleTimeout(i, o, others) \/ HandleGameOver(i, o, others)
  PROVE  Served(i, o, others)
<1>1. LostBySideToMove(o) \in Winner /\ "Draw" \in Winner
  BY DEF LostBySideToMove, Winner
<1> QED BY <1>1, FinishedSound DEF HandleTimeout, HandleGameOver

\* Every handler leaves its game sound.
LEMMA ServesServed ==
  ASSUME NEW o, Sound(o), NEW i \in Objects, NEW others, Serves(i, o, others)
  PROVE  Served(i, o, others)
<1>1. CASE PutsMove(i, o, others)
  <2>1. PICK end \in Endings :
          /\ o.status # "completed" /\ o.ply < MaxPly
          /\ objects' = [objects EXCEPT ![i] =
                           [o EXCEPT !.ply = @ + 1, !.count = @ + 1, !.end = end]]
          /\ tasks' = others \cup {[Task("move", i, o.count + 1, "store", end)
                                      EXCEPT !.ply = o.ply + 1]}
    BY <1>1 DEF PutsMove
  <2> DEFINE n == o.ply + 1
             c == o.count + 1
             p == [o EXCEPT !.ply = n, !.count = c, !.end = end]
             t == [Task("move", i, c, "store", end) EXCEPT !.ply = n]
  <2>2. o.ply \in 0 .. MaxPly /\ c \in Nat /\ n \in 1 .. MaxPly /\ n \in 0 .. MaxPly
       /\ i \in 0 .. MaxObjects /\ 0 \in 0 .. MaxPly
    BY <2>1, GameAssumption DEF Sound, GameState, Objects
  <2>3. objects' = [objects EXCEPT ![i] = p] /\ tasks' = others \cup {t}
    BY <2>1
  <2>4. n = o.ply + 1
    OBVIOUS
  <2> HIDE DEF n, c
  <2>5. /\ p \in GameState /\ p.status = o.status /\ p.ply = n /\ p.timer = o.timer
        /\ p.finishes = o.finishes
    BY <2>2 DEF Sound, GameState
  <2>6. t \in Work /\ t.obj = i /\ t.kind = "move" /\ t.note = end /\ t.ply = n
    BY <2>2 DEF Task, Work, Place, Note
  <2> HIDE DEF p, t
  <2>7. p.timer \in Int /\ p.timer <= o.ply
    BY <2>5, GameAssumption DEF Sound, GameState, NoTimer
  <2>8. Follows(o, p)
    BY <2>1, <2>2, <2>4, <2>5, <2>7 DEF Follows, Sound
  <2>9. t.ply # 0
    BY <2>2, <2>6
  <2> QED BY <2>3, <2>6, <2>8, <2>9 DEF Served, Filled
<1>2. CASE HandleTimeout(i, o, others)
  BY <1>2, EndingServed
<1>3. CASE Resigns(i, o, others)
  BY <1>3, FinishedSound DEF Resigns, Winner
<1> QED BY <1>1, <1>2, <1>3 DEF Serves

\* An evaluation counts, and may lock the market, but never wakes a game that is over.
LEMMA CountedFollows ==
  ASSUME NEW o, Sound(o), NEW e \in Evaluations
  PROVE  /\ Follows(o, Counted(o, e.side)) /\ Follows(o, Lock(Counted(o, e.side)))
         /\ Counted(o, e.side).timer = o.timer /\ Lock(Counted(o, e.side)).timer = o.timer
         /\ Counted(o, e.side).ply = o.ply /\ Lock(Counted(o, e.side)).ply = o.ply
<1> DEFINE c == Counted(o, e.side)
<1>1. e.side \in {-1, 0, 1} /\ o \in GameState /\ o.streak \in Nat
  BY GameAssumption DEF Sound, GameState
<1>2. /\ c \in GameState /\ c.status = o.status /\ c.timer = o.timer /\ c.ply = o.ply
      /\ c.end = o.end /\ c.finishes = o.finishes
  <2> DEFINE n == o.streak + 1
             s == e.side
  <2>1. n \in Nat /\ s \in {-1, 0, 1}
    BY <1>1
  <2>2. c = IF s = 0 THEN [o EXCEPT !.side = 0, !.streak = 0]
            ELSE IF s = o.side THEN [o EXCEPT !.streak = n]
            ELSE [o EXCEPT !.side = s, !.streak = 1]
    BY DEF Counted
  <2> HIDE DEF n, s, c
  <2>3. CASE s = 0
    BY <1>1, <2>2, <2>3 DEF GameState
  <2>4. CASE s # 0 /\ s = o.side
    BY <1>1, <2>1, <2>2, <2>4 DEF GameState
  <2>5. CASE s # 0 /\ s # o.side
    BY <1>1, <2>1, <2>2, <2>5 DEF GameState
  <2> QED BY <2>3, <2>4, <2>5
<1>3. Follows(o, c)
  BY <1>2 DEF Follows, Sound
<1> HIDE DEF c
<1>4. /\ Lock(c) \in GameState /\ Lock(c).timer = c.timer /\ Lock(c).ply = c.ply
      /\ Lock(c).end = c.end /\ Lock(c).finishes = c.finishes
      /\ Lock(c).status = "completed" <=> c.status = "completed"
  BY <1>2 DEF Lock, GameState
<1>5. Follows(o, Lock(c))
  BY <1>2, <1>3, <1>4 DEF Follows, Sound
<1> QED BY <1>2, <1>3, <1>4, <1>5 DEF c

\* A game rebuilt from the rows, and a fresh one.
LEMMA NewSound ==
  ASSUME moves \in Seq(Move), NEW status \in {"active", "locked"}
  PROVE  /\ Sound(Rearmed(Rebuilt(status))) /\ Sound(Rearmed([NoGame EXCEPT !.status = status]))
         /\ Rearmed(Rebuilt(status)).timer = Rearmed(Rebuilt(status)).ply
         /\ LET o == Rearmed([NoGame EXCEPT !.status = status]) IN o.timer = o.ply
<1> DEFINE b == Rebuilt(status)
           n == [NoGame EXCEPT !.status = status]
           locked == status = "locked"
           end == IF Replayed = 0 THEN "no" ELSE NthMove(Replayed).end
<1>1. locked \in BOOLEAN /\ end \in Endings /\ Replayed \in 0 .. MaxPly /\ Len(moves) \in Nat
  BY ReplayEnds DEF Endings
<1>2. b = [NoGame EXCEPT !.ply = Replayed, !.count = Len(moves), !.end = end,
                         !.status = status, !.locked = locked]
  BY DEF Rebuilt
<1> HIDE DEF b, locked, end
<1>3. b \in GameState /\ b.finishes = 0 /\ b.status = status
  BY <1>1, <1>2 DEF NoGame, GameState
<1>4. n \in GameState /\ n.finishes = 0 /\ n.status = status
  <2>1. 0 \in 0 .. MaxPly /\ "no" \in Endings /\ 0 \in Nat /\ 0 \in {-1, 0, 1}
    BY GameAssumption DEF Endings
  <2> QED BY <2>1 DEF NoGame, GameState
<1> HIDE DEF n
<1>5. status # "completed" /\ ~(0 > 0)
  OBVIOUS
<1>6. /\ Sound(Rearmed(b)) /\ Rearmed(b).timer = Rearmed(b).ply
      /\ Sound(Rearmed(n)) /\ Rearmed(n).timer = Rearmed(n).ply
  BY <1>3, <1>4, <1>5, RearmedSound DEF Follows, Rearmed, GameState
<1> QED BY <1>6 DEF b, n
-----------------------------------------------------------------------------
(* Steps *)

\* A step that puts p in the place of the game i.
LEMMA ChangeStep ==
  ASSUME ObjectInv, ClockInv, NEW i \in Objects, NEW p, Follows(objects[i], p),
         objects' = [objects EXCEPT ![i] = p], failed \subseteq failed',
         \A t \in tasks' : t \in tasks \/ (Filled(t) /\ t.obj = i),
         \A t \in tasks : t.kind = "move" /\ t.obj # i => t \in tasks',
         \/ p.status = "completed" \/ p.timer = p.ply \/ "move" \in failed'
         \/ \E t \in tasks' : t.kind = "move" /\ t.obj = i
  PROVE  /\ ObjectInv' /\ ClockInv' /\ EndedKept
         /\ Built(i)' /\ \A j \in Objects : Built(j) => Built(j)'
<1>1. /\ objects' \in [Objects -> GameState \cup {NoGame}] /\ objects'[i] = p
      /\ \A j \in Objects : j # i => objects'[j] = objects[j]
  BY DEF ObjectInv, Follows, Sound
<1>2. Sound(p) /\ p # NoGame
  BY NoGameUnsound DEF Follows, Sound
<1>3. Built(i)' /\ \A j \in Objects : Built(j) => Built(j)'
  BY <1>1, <1>2 DEF Built
<1>4. \A j \in Objects : Built(j)' => Sound(objects'[j])
  BY <1>1, <1>2 DEF Built, ObjectInv
<1>5. \A t \in tasks' : Fits(t)'
  BY <1>3 DEF ObjectInv, Fits
<1>6. ClockInv'
  <2> SUFFICES ASSUME NEW j \in Objects, Built(j)', ~Ended(j)' PROVE Timed(j)'
    BY DEF ClockInv
  <2>1. CASE j = i
    BY <1>1, <2>1 DEF Timed, Ended
  <2>2. CASE j # i
    BY <1>1, <2>2 DEF Timed, Ended, Built, ClockInv
  <2> QED BY <2>1, <2>2
<1>7. EndedKept
  BY <1>1, <1>2, NoGameUnsound DEF EndedKept, Ended, Follows, Sound, ObjectInv, Built, NoGame
<1> QED BY <1>1, <1>3, <1>4, <1>5, <1>6, <1>7 DEF ObjectInv

\* A step that leaves the objects alone.
LEMMA QuietStep ==
  ASSUME ObjectInv, ClockInv, UNCHANGED objects, failed \subseteq failed',
         \A t \in tasks' : t \in tasks \/ Fits(t),
         "move" \in failed' \/ \A t \in tasks : t.kind = "move" => t \in tasks'
  PROVE  ObjectInv' /\ ClockInv' /\ EndedKept /\ \A j : Built(j)' <=> Built(j)
<1>1. \A j : Built(j)' <=> Built(j)
  BY DEF Built
<1>2. \A t \in tasks' : Fits(t)'
  BY <1>1 DEF ObjectInv, Fits
<1>3. ClockInv'
  BY <1>1 DEF ClockInv, Timed, Ended
<1>4. EndedKept
  BY DEF EndedKept, Ended, ObjectInv, Built, Sound, NoGame
<1> QED BY <1>1, <1>2, <1>3, <1>4 DEF ObjectInv, Built

\* A call that is served, by a game in the map or one that was just rebuilt.
LEMMA ServedStep ==
  ASSUME ObjectInv, ClockInv, NEW i \in Objects, NEW o, o = objects[i] \/ objects[i] = NoGame,
         NEW others \in SUBSET tasks, \A t \in tasks \ others : t.kind = "move" => t.obj = i,
         Served(i, o, others), UNCHANGED failed
  PROVE  /\ ObjectInv' /\ ClockInv' /\ EndedKept
         /\ Built(i)' /\ \A j \in Objects : Built(j) => Built(j)'
         /\ \A t \in tasks' : t.kind = "finish" /\ t.pc = "record" => t \in tasks
<1>1. PICK p, u :
        /\ objects' = [objects EXCEPT ![i] = p] /\ Follows(o, p)
        /\ tasks' = others \cup {u} /\ Filled(u) /\ u.obj = i
        /\ u.kind = "move" \/ (u.kind = "finish" /\ u.pc = "post" /\ p.status = "completed")
  BY DEF Served
<1>2. Follows(objects[i], p)
  BY <1>1 DEF Follows, NoGame
<1>3. p.status = "completed" \/ \E t \in tasks' : t.kind = "move" /\ t.obj = i
  BY <1>1
<1>4. \A t \in tasks' : t.kind = "finish" /\ t.pc = "record" => t \in tasks
  BY <1>1
<1> QED BY <1>1, <1>2, <1>3, <1>4, ChangeStep

Kept == GameInv' /\ EndedKept

\* What is written down stays well-formed when only the objects and the tasks change.
LEMMA BooksKept ==
  ASSUME BooksInv, UNCHANGED dbVars, UNCHANGED chain, games' \in 0 .. MaxObjects,
         (games # 0 => Built(games))'
  PROVE  BooksInv'
BY DEF BooksInv, dbVars

\* What the players ask for, and the clock running out.
LEMMA RequestSteps ==
  ASSUME GameInv, PlayerActs \/ \E i \in Objects : FlagFalls(i)
  PROVE  Kept
<1>1. PICK i \in Objects : Served(i, objects[i], tasks)
  <2>1. CASE PlayerActs
    <3>1. games \in Objects /\ Sound(objects[games])
      BY <2>1, GameAssumption DEF PlayerActs, GameInv, BooksInv, ObjectInv, Objects
    <3> QED BY <2>1, <3>1, ServesServed DEF PlayerActs
  <2>2. CASE \E i \in Objects : FlagFalls(i)
    <3>1. PICK i \in Objects : FlagFalls(i)
      BY <2>2
    <3>2. Sound(objects[i])
      BY <3>1 DEF FlagFalls, GameInv, ObjectInv, Built, NoGame
    <3> QED BY <3>1, <3>2, EndingServed DEF FlagFalls
  <2> QED BY <2>1, <2>2
<1>2. UNCHANGED <<games, dbVars, chain, failed>>
  BY DEF PlayerActs, FlagFalls
<1>3. /\ ObjectInv' /\ ClockInv' /\ EndedKept /\ \A j \in Objects : Built(j) => Built(j)'
      /\ \A t \in tasks' : t.kind = "finish" /\ t.pc = "record" => t \in tasks
  BY <1>1, <1>2, ServedStep DEF GameInv
<1>4. BooksInv'
  <2>1. games' = games /\ (games # 0 => games \in Objects)
    BY <1>2, GameAssumption DEF GameInv, BooksInv, Objects
  <2>2. (games # 0 => Built(games))'
    BY <1>3, <2>1 DEF GameInv, BooksInv, Built
  <2> QED BY <1>2, <2>1, <2>2, BooksKept DEF GameInv, BooksInv
<1>5. ReportInv'
  BY <1>2, <1>3 DEF GameInv, ReportInv, dbVars
<1> QED BY <1>3, <1>4, <1>5 DEF Kept, GameInv

\* The row of a move is stored and the rest of its handler runs.
LEMMA MoveStoredStep ==
  ASSUME GameInv, NEW t \in tasks, MoveStored(t)
  PROVE  Kept
<1> DEFINE i == t.obj
           m == [number |-> t.number, ply |-> t.ply, end |-> t.note]
<1>1. /\ i \in Objects /\ Built(i) /\ Sound(objects[i]) /\ Filled(t) /\ t.kind = "move"
      /\ ObjectInv /\ BooksInv /\ ReportInv /\ ClockInv
  BY DEF MoveStored, GameInv, ObjectInv, Fits
<1>2. m \in Move
  BY <1>1, GameAssumption DEF Filled, Work, Move
<1> HIDE DEF m
<1>3. /\ UNCHANGED <<games, row, settlement, chain, crashes>>
      /\ moves' \in Seq(Move)
  <2>1. moves' \in {moves, Append(moves, m)}
    BY DEF MoveStored, m
  <2>2. moves \in Seq(Move)
    BY <1>1 DEF BooksInv
  <2>3. moves' \in Seq(Move)
    BY <1>2, <2>1, <2>2
  <2> QED BY <2>3 DEF MoveStored
<1>4. /\ ObjectInv' /\ ClockInv' /\ EndedKept /\ \A j \in Objects : Built(j) => Built(j)'
      /\ \A u \in tasks' : u.kind = "finish" /\ u.pc = "record" => u \in tasks
  <2>1. CASE objects[i].end # "no" /\ HandleGameOver(i, objects[i], Done(t)) /\ UNCHANGED failed
    <3>1. Served(i, objects[i], Done(t))
      BY <1>1, <2>1, EndingServed
    <3>2. Done(t) \in SUBSET tasks /\ \A u \in tasks \ Done(t) : u.kind = "move" => u.obj = i
      BY DEF Done
    <3> QED BY <1>1, <2>1, <3>1, <3>2, ServedStep
  <2>2. CASE /\ objects[i].end = "no" /\ objects' = [objects EXCEPT ![i] = Rearmed(@)]
             /\ tasks' = Done(t) \cup {Task("eval", i, t.number, "post", "")} /\ UNCHANGED failed
    <3> DEFINE p == Rearmed(objects[i])
               u == Task("eval", i, t.number, "post", "")
    <3>1. Follows(objects[i], p) /\ (p.status = "completed" \/ p.timer = p.ply)
      BY <1>1, RearmedSound DEF Sound, Rearmed, GameState
    <3>2. Filled(u) /\ u.obj = i /\ u.kind = "eval"
      <4>1. 0 \in 0 .. MaxPly /\ i \in 0 .. MaxObjects /\ t.number \in Nat
        BY <1>1, GameAssumption DEF Filled, Work, Objects
      <4> QED BY <4>1 DEF Filled, Work, Task, Place, Note
    <3> HIDE DEF p, u
    <3>3. objects' = [objects EXCEPT ![i] = p] /\ tasks' = Done(t) \cup {u}
      BY <2>2 DEF p, u
    <3>4. /\ \A v \in tasks' : v \in tasks \/ (Filled(v) /\ v.obj = i)
          /\ \A v \in tasks : v.kind = "move" /\ v.obj # i => v \in tasks'
          /\ \A v \in tasks' : v.kind = "finish" => v \in tasks
      BY <3>2, <3>3 DEF Done
    <3> QED BY <1>1, <2>2, <3>1, <3>3, <3>4, ChangeStep
  <2>3. CASE Fails("move") /\ tasks' = Done(t) /\ UNCHANGED objects
    <3>1. failed \subseteq failed' /\ "move" \in failed' /\ tasks' \subseteq tasks
      BY <2>3 DEF Fails, Done
    <3> QED BY <1>1, <2>3, <3>1, QuietStep
  <2> QED BY <2>1, <2>2, <2>3 DEF MoveStored
<1>5. BooksInv'
  <2>1. games # 0 => games \in Objects
    BY <1>1, GameAssumption DEF BooksInv, Objects
  <2> QED BY <1>1, <1>3, <1>4, <2>1 DEF BooksInv, Built
<1>6. ReportInv'
  BY <1>1, <1>3, <1>4 DEF ReportInv
<1> QED BY <1>4, <1>5, <1>6 DEF Kept, GameInv

\* A handler that goes on to its next await keeps what it holds.
LEMMA GoesOn ==
  ASSUME NEW t \in tasks, Fits(t), NEW pc \in Place, tasks' = Goes(t, pc)
  PROVE  \A u \in tasks' : \/ u \in tasks
                           \/ /\ u.kind = t.kind /\ u.pc = pc /\ u.note = t.note /\ u.obj = t.obj
                              /\ Filled(u) /\ Fits(u)
<1> DEFINE v == [t EXCEPT !.pc = pc]
<1>1. /\ v \in Work /\ v.kind = t.kind /\ v.pc = pc /\ v.note = t.note /\ v.obj = t.obj
      /\ v.ply = t.ply
  BY DEF Fits, Filled, Work
<1>2. Filled(v) /\ Fits(v)
  BY <1>1 DEF Fits, Filled
<1>3. tasks' = (tasks \ {t}) \cup {v}
  BY DEF Goes
<1> HIDE DEF v
<1> QED BY <1>1, <1>2, <1>3

\* The evaluation is posted, or the lock is stored.
LEMMA EvalSteps ==
  ASSUME GameInv, NEW t \in tasks, EvalPosted(t) \/ LockStored(t)
  PROVE  Kept
<1> DEFINE i == t.obj
<1>1. /\ i \in Objects /\ Built(i) /\ Sound(objects[i]) /\ Fits(t) /\ t.kind = "eval"
      /\ ObjectInv /\ BooksInv /\ ReportInv /\ ClockInv
  BY DEF EvalPosted, LockStored, GameInv, ObjectInv, Fits
<1>2. /\ tasks' \in {Done(t), Goes(t, "row")} /\ failed \subseteq failed'
      /\ UNCHANGED <<games, moves, settlement, chain, crashes>>
      /\ row' \in {row, [row EXCEPT !.status = "locked"]}
  BY DEF EvalPosted, LockStored, Fails, dbVars
<1>3. /\ \A u \in tasks' : u \in tasks \/ (Filled(u) /\ Fits(u) /\ u.obj = i /\ u.kind = "eval")
      /\ \A u \in tasks : u.kind = "move" => u \in tasks'
  BY <1>1, <1>2, GoesOn DEF Done, Goes, Place
<1>4. ObjectInv' /\ ClockInv' /\ EndedKept /\ \A j \in Objects : Built(j) => Built(j)'
  <2>1. ASSUME NEW p, Follows(objects[i], p), objects' = [objects EXCEPT ![i] = p],
               p.timer = objects[i].timer, p.ply = objects[i].ply
        PROVE  ObjectInv' /\ ClockInv' /\ EndedKept /\ \A j \in Objects : Built(j) => Built(j)'
    <3>1. \/ p.status = "completed" \/ p.timer = p.ply \/ "move" \in failed'
          \/ \E u \in tasks' : u.kind = "move" /\ u.obj = i
      BY <1>1, <1>2, <1>3, <2>1 DEF Follows, Ended, ClockInv, Timed
    <3> QED BY <1>1, <1>2, <1>3, <2>1, <3>1, ChangeStep
  <2>2. CASE UNCHANGED objects
    BY <1>1, <1>2, <1>3, <2>2, QuietStep
  <2>3. CASE EvalPosted(t) /\ ~UNCHANGED objects
    <3>1. PICK e \in Evaluations :
            LET c == Counted(objects[i], e.side) IN
            objects' \in {[objects EXCEPT ![i] = Lock(c)], [objects EXCEPT ![i] = c]}
      BY <2>3 DEF EvalPosted
    <3> QED BY <1>1, <2>1, <3>1, CountedFollows
  <2> QED BY <2>2, <2>3 DEF LockStored
<1>5. BooksInv'
  <2>1. games # 0 => games \in Objects
    BY <1>1, GameAssumption DEF BooksInv, Objects
  <2>2. row' \in [status : {"open", "active", "locked", "completed"}, winner : Winner \cup {"None"}]
    BY <1>1, <1>2 DEF BooksInv
  <2> QED BY <1>1, <1>2, <1>4, <2>1, <2>2 DEF BooksInv, Built
<1>6. ReportInv'
  BY <1>1, <1>2, <1>3 DEF ReportInv
<1> QED BY <1>4, <1>5, <1>6 DEF Kept, GameInv

\* Everything that a handler with kind and pc of finishMatch does to the database and the
\* chain: only the first result is applied, and only its handler goes on to record it.
LEMMA FinishSteps ==
  ASSUME GameInv, NEW t \in tasks,
         ResultPosted(t) \/ SettlementRecorded(t) \/ GameCompleted(t) \/ GameForgotten(t)
  PROVE  Kept
<1>1. /\ Fits(t) /\ t.kind = "finish" /\ t.note \in Winner
      /\ ObjectInv /\ BooksInv /\ ReportInv /\ ClockInv
  BY DEF ResultPosted, SettlementRecorded, GameCompleted, GameForgotten, GameInv, ObjectInv,
     Fits, Filled
<1>2. /\ \/ tasks' = Done(t)
         \/ \E pc \in {"record", "complete", "flags"} :
              /\ tasks' = Goes(t, pc)
              /\ pc = "record" => chain = "None" /\ chain' = t.note
      /\ chain' = chain \/ (chain = "None" /\ chain' = t.note /\ settlement' = settlement)
      /\ settlement' = settlement \/ (settlement' = t.note /\ t.pc = "record" /\ chain' = chain)
      /\ row' \in {row, [row EXCEPT !.status = "completed", !.winner = t.note]}
      /\ games' \in {games, 0} /\ failed \subseteq failed' /\ UNCHANGED <<objects, moves>>
  BY DEF ResultPosted, Reported, SettlementRecorded, GameCompleted, GameForgotten, Fails, dbVars
<1>3. /\ \A u \in tasks' : u \in tasks \/ (Fits(u) /\ (u.pc = "record" => chain = "None" /\ chain' = u.note))
      /\ \A u \in tasks : u.kind = "move" => u \in tasks'
  <2>1. CASE tasks' = Done(t)
    BY <1>1, <2>1 DEF Done
  <2>2. ASSUME NEW pc \in {"record", "complete", "flags"}, tasks' = Goes(t, pc),
               pc = "record" => chain = "None" /\ chain' = t.note
        PROVE  <1>3!1 /\ <1>3!2
    <3>1. pc \in Place
      BY DEF Place
    <3> QED BY <1>1, <2>2, <3>1, GoesOn DEF Goes
  <2> QED BY <1>2, <2>1, <2>2
<1>4. ObjectInv' /\ ClockInv' /\ EndedKept /\ \A j : Built(j)' <=> Built(j)
  BY <1>1, <1>2, <1>3, QuietStep
<1>5. BooksInv'
  <2>1. row' \in [status : {"open", "active", "locked", "completed"}, winner : Winner \cup {"None"}]
    BY <1>1, <1>2 DEF BooksInv
  <2>2. chain' \in Winner \cup {"None"} /\ settlement' \in Winner \cup {"None"} /\ moves' \in Seq(Move)
    BY <1>1, <1>2 DEF BooksInv
  <2>3. games' \in 0 .. MaxObjects /\ (games # 0 => Built(games))'
    BY <1>1, <1>2, GameAssumption DEF BooksInv, Built
  <2> QED BY <2>1, <2>2, <2>3 DEF BooksInv
<1>6. ReportInv'
  <2>1. "None" \notin Winner
    BY DEF Winner
  <2>2. chain # "None" => chain' = chain
    BY <1>2
  <2>3. (settlement # "None" => settlement = chain)'
    BY <1>1, <1>2, <2>1, <2>2 DEF ReportInv
  <2>4. ASSUME NEW u \in tasks', u.kind = "finish", u.pc = "record" PROVE chain' = u.note
    <3>1. CASE u \in tasks
      <4>1. chain = u.note /\ u.note \in Winner
        BY <1>1, <2>4, <3>1 DEF ReportInv, ObjectInv, Fits, Filled
      <4> QED BY <2>1, <2>2, <4>1
    <3>2. CASE u \notin tasks
      BY <1>3, <2>4, <3>2
    <3> QED BY <3>1, <3>2
  <2> QED BY <2>3, <2>4 DEF ReportInv
<1> QED BY <1>4, <1>5, <1>6 DEF Kept, GameInv

\* A request is waiting for the rows of a game that is not in the map; then it puts the
\* game there and is served, or only reads.
LEMMA LoadSteps ==
  ASSUME GameInv, LoadAsked \/ \E t \in tasks : Rehydrated(t)
  PROVE  Kept
<1>1. ObjectInv /\ BooksInv /\ ReportInv /\ ClockInv
  BY DEF GameInv
<1>2. CASE LoadAsked
  <2>1. PICK n \in 1 .. MaxLoads : tasks' = tasks \cup {Task("load", 0, n, "moves", row.status)}
    BY <1>2 DEF LoadAsked
  <2> DEFINE u == Task("load", 0, n, "moves", row.status)
  <2>2. Fits(u) /\ u.kind = "load"
    <3>1. n \in Nat /\ 0 \in 0 .. MaxPly /\ 0 \in 0 .. MaxObjects /\ row.status \in {"active", "locked"}
      BY <1>2, GameAssumption DEF LoadAsked
    <3> QED BY <3>1 DEF Task, Fits, Filled, Work, Place, Note
  <2> HIDE DEF u
  <2>3. tasks' = tasks \cup {u}
    BY <2>1 DEF u
  <2>4. UNCHANGED <<objects, games, row, moves, settlement, chain, failed>>
    BY <1>2 DEF LoadAsked, dbVars
  <2>5. ObjectInv' /\ ClockInv' /\ EndedKept
    BY <1>1, <2>2, <2>3, <2>4, QuietStep
  <2>6. BooksInv' /\ ReportInv'
    BY <1>1, <2>2, <2>3, <2>4 DEF BooksInv, ReportInv, Built
  <2> QED BY <2>5, <2>6 DEF Kept, GameInv
<1>3. ASSUME NEW t \in tasks, Rehydrated(t) PROVE Kept
  <2> DEFINE o == Rearmed(Rebuilt(t.note))
  <2>1. PICK i \in Objects :
          /\ Installs(i)
          /\ \/ Serves(i, o, Done(t))
             \/ objects' = [objects EXCEPT ![i] = o] /\ tasks' = Done(t)
    BY <1>3 DEF Rehydrated
  <2>2. /\ t.kind = "load" /\ t.note \in {"active", "locked"}
        /\ UNCHANGED <<row, moves, settlement, chain, failed>>
    BY <1>1, <1>3 DEF Rehydrated, ObjectInv, Fits, Filled, dbVars
  <2>3. Sound(o) /\ o.timer = o.ply
    BY <1>1, <2>2, NewSound DEF BooksInv
  <2> HIDE DEF o
  <2>4. /\ objects[i] = NoGame /\ games' = i /\ Done(t) \in SUBSET tasks
        /\ \A u \in tasks \ Done(t) : u.kind # "move"
    BY <2>1, <2>2 DEF Installs, Done
  <2>5. /\ ObjectInv' /\ ClockInv' /\ EndedKept /\ Built(i)'
        /\ \A u \in tasks' : u.kind = "finish" /\ u.pc = "record" => u \in tasks
    <3>1. CASE Serves(i, o, Done(t))
      <4>1. Served(i, o, Done(t))
        BY <2>3, <3>1, ServesServed
      <4> QED BY <1>1, <2>2, <2>4, <4>1, ServedStep
    <3>2. CASE objects' = [objects EXCEPT ![i] = o] /\ tasks' = Done(t)
      <4>1. Follows(objects[i], o)
        BY <2>3, <2>4 DEF Follows, NoGame
      <4> QED BY <1>1, <2>2, <2>3, <2>4, <3>2, <4>1, ChangeStep
    <3> QED BY <2>1, <3>1, <3>2
  <2>6. BooksInv'
    <3>1. games' \in 0 .. MaxObjects /\ (games # 0 => Built(games))'
      BY <2>4, <2>5, GameAssumption DEF Objects, Built
    <3> QED BY <1>1, <2>2, <3>1 DEF BooksInv
  <2>7. ReportInv'
    BY <1>1, <2>2, <2>5 DEF ReportInv
  <2> QED BY <2>5, <2>6, <2>7 DEF Kept, GameInv
<1> QED BY <1>2, <1>3

\* MatchActive is seen, the row is activated, and a fresh game is put in the map.
LEMMA EventSteps ==
  ASSUME GameInv, ActiveSeen \/ \E t \in tasks : Activated(t) \/ GameInitialised(t)
  PROVE  Kept
<1>1. ObjectInv /\ BooksInv /\ ReportInv /\ ClockInv
  BY DEF GameInv
<1>2. ASSUME UNCHANGED <<objects, games, moves, settlement, chain, failed>>,
             row' \in {row, [row EXCEPT !.status = IF @ = "open" THEN "active" ELSE @]},
             \A u \in tasks' : u \in tasks \/ (Fits(u) /\ u.kind = "event"),
             \A u \in tasks : u.kind # "event" => u \in tasks'
      PROVE  Kept
  <2>1. ObjectInv' /\ ClockInv' /\ EndedKept
    BY <1>1, <1>2, QuietStep
  <2>2. row' \in [status : {"open", "active", "locked", "completed"}, winner : Winner \cup {"None"}]
    BY <1>1, <1>2 DEF BooksInv
  <2>3. BooksInv' /\ ReportInv'
    BY <1>1, <1>2, <2>2 DEF BooksInv, ReportInv, Built
  <2> QED BY <2>1, <2>3 DEF Kept, GameInv
<1>3. CASE ActiveSeen
  <2> DEFINE u == Task("event", 0, 0, "activate", "")
  <2>1. Fits(u) /\ u.kind = "event"
    <3>1. 0 \in Nat /\ 0 \in 0 .. MaxPly /\ 0 \in 0 .. MaxObjects
      BY GameAssumption
    <3> QED BY <3>1 DEF Task, Fits, Filled, Work, Place, Note
  <2> HIDE DEF u
  <2>2. tasks' = tasks \/ tasks' = tasks \cup {u}
    BY <1>3 DEF ActiveSeen, u
  <2> QED BY <1>2, <1>3, <2>1, <2>2 DEF ActiveSeen, dbVars
<1>4. ASSUME NEW t \in tasks, Activated(t) PROVE Kept
  <2>1. Fits(t) /\ t.kind = "event" /\ tasks' = Goes(t, "init") /\ "init" \in Place
    BY <1>1, <1>4 DEF Activated, ObjectInv, Place
  <2> QED BY <1>2, <1>4, <2>1, GoesOn DEF Activated, Goes
<1>5. ASSUME NEW t \in tasks, GameInitialised(t) PROVE Kept
  <2>1. /\ t.kind = "event" /\ tasks' = Done(t)
        /\ UNCHANGED <<row, moves, settlement, chain, failed>>
    BY <1>5 DEF GameInitialised, dbVars
  <2>2. CASE UNCHANGED <<objects, games>>
    BY <1>2, <2>1, <2>2 DEF Done
  <2>3. CASE ~UNCHANGED <<objects, games>>
    <3> DEFINE o == Rearmed([NoGame EXCEPT !.status = "active"])
    <3>1. PICK i \in Objects : Installs(i) /\ objects' = [objects EXCEPT ![i] = o]
      BY <1>5, <2>3 DEF GameInitialised
    <3>2. Sound(o) /\ o.timer = o.ply
      BY <1>1, NewSound DEF BooksInv
    <3> HIDE DEF o
    <3>3. objects[i] = NoGame /\ games' = i /\ Follows(objects[i], o)
      BY <3>1, <3>2 DEF Installs, Follows, NoGame
    <3>4. ObjectInv' /\ ClockInv' /\ EndedKept /\ Built(i)'
      BY <1>1, <2>1, <3>1, <3>2, <3>3, ChangeStep DEF Done
    <3>5. BooksInv' /\ ReportInv'
      BY <1>1, <2>1, <3>3, <3>4, GameAssumption DEF BooksInv, ReportInv, Objects, Built, Done
    <3> QED BY <3>4, <3>5 DEF Kept, GameInv
  <2> QED BY <2>2, <2>3
<1> QED BY <1>3, <1>4, <1>5

\* After a restart the games are those of the rows.
LEMMA RestartStep ==
  ASSUME GameInv, crashes \in Nat, Restart
  PROVE  Kept
<1>1. /\ \A i \in Objects : objects'[i] = NoGame
      /\ objects' \in [Objects -> GameState \cup {NoGame}]
      /\ tasks' = {} /\ games' = 0 /\ UNCHANGED <<row, moves, settlement, chain>>
      /\ crashes' # crashes
  BY DEF Restart, dbVars
<1>2. \A i \in Objects : ~Built(i)'
  BY <1>1 DEF Built
<1>3. ObjectInv' /\ ClockInv'
  BY <1>1, <1>2 DEF ObjectInv, ClockInv
<1>4. BooksInv' /\ ReportInv'
  BY <1>1, GameAssumption DEF GameInv, BooksInv, ReportInv
<1>5. EndedKept
  BY <1>1 DEF EndedKept
<1> QED BY <1>3, <1>4, <1>5 DEF Kept, GameInv

\* The number of restarts is one.
LEMMA CrashesCounted == Spec => [](crashes \in Nat)
<1>1. Init => crashes \in Nat
  BY DEF Init
<1>2. crashes \in Nat /\ [Next]_vars => (crashes \in Nat)'
  <2> SUFFICES ASSUME crashes \in Nat, [Next]_vars PROVE crashes' = crashes \/ crashes' = crashes + 1
    OBVIOUS
  <2>1. CASE PlayerActs \/ LoadAsked \/ ActiveSeen \/ Restart \/ UNCHANGED vars
    BY <2>1 DEF PlayerActs, LoadAsked, ActiveSeen, Restart, vars
  <2>2. CASE \E i \in Objects : FlagFalls(i)
    BY <2>2 DEF FlagFalls
  <2>3. CASE MoveStep \/ EvalStep
    BY <2>3 DEF MoveStep, MoveStored, EvalStep, EvalPosted, LockStored
  <2>4. CASE FinishStep
    BY <2>4 DEF FinishStep, ResultPosted, SettlementRecorded, GameCompleted, GameForgotten
  <2>5. CASE LoadStep \/ EventStep
    BY <2>5 DEF LoadStep, Rehydrated, EventStep, Activated, GameInitialised
  <2> QED BY <2>1, <2>2, <2>3, <2>4, <2>5 DEF Next
<1> QED BY <1>1, <1>2, PTL DEF Spec

\* Every step.
LEMMA GameStep ==
  ASSUME GameInv, crashes \in Nat, [Next]_vars
  PROVE  GameInv' /\ EndedKept
<1>1. CASE UNCHANGED vars
  <2>1. ObjectInv' /\ ClockInv' /\ EndedKept
    BY <1>1, QuietStep DEF GameInv, vars
  <2> QED BY <1>1, <2>1 DEF GameInv, BooksInv, ReportInv, Built, vars, dbVars
<1>2. CASE PlayerActs \/ \E i \in Objects : FlagFalls(i)
  BY <1>2, RequestSteps DEF Kept
<1>3. CASE MoveStep \/ EvalStep
  BY <1>3, MoveStoredStep, EvalSteps DEF MoveStep, EvalStep, Kept
<1>4. CASE FinishStep
  BY <1>4, FinishSteps DEF FinishStep, Kept
<1>5. CASE LoadAsked \/ LoadStep
  BY <1>5, LoadSteps DEF LoadStep, Kept
<1>6. CASE ActiveSeen \/ EventStep
  BY <1>6, EventSteps DEF EventStep, Kept
<1>7. CASE Restart
  BY <1>7, RestartStep DEF Kept
<1> QED BY <1>1, <1>2, <1>3, <1>4, <1>5, <1>6, <1>7 DEF Next
-----------------------------------------------------------------------------
(* The theorems *)

\* The inductive invariant that the theorems about the game manager rest on.
LEMMA GameInvariant == Spec => []GameInv
<1>1. Init => GameInv
  <2> SUFFICES ASSUME Init PROVE GameInv
    OBVIOUS
  <2>1. objects \in [Objects -> GameState \cup {NoGame}] /\ \A i \in Objects : ~Built(i)
    BY DEF Init, Built
  <2>2. ObjectInv /\ ClockInv /\ ReportInv
    BY <2>1 DEF Init, ObjectInv, ClockInv, ReportInv
  <2>3. BooksInv
    BY GameAssumption DEF Init, BooksInv
  <2> QED BY <2>2, <2>3 DEF GameInv
<1>2. GameInv /\ crashes \in Nat /\ [Next]_vars => GameInv'
  BY GameStep
<1> QED BY <1>1, <1>2, CrashesCounted, PTL DEF Spec

\* Every GameState, waiting handler's game and database row (gameManager.ts) is one that
\* the code could have meant, whatever is rebuilt from the recorded moves.
THEOREM GameTypes == Spec => []GameTypeOK
<1>1. GameInv => GameTypeOK
  <2> SUFFICES ASSUME GameInv PROVE GameTypeOK
    OBVIOUS
  <2>1. ASSUME NEW i \in Objects
        PROVE  /\ objects[i] = NoGame \/ objects[i] \in GameState
               /\ objects[i].timer <= objects[i].ply
               /\ objects[i].finishes > 0 <=> Ended(i)
    <3>1. CASE Built(i)
      BY <3>1 DEF GameInv, ObjectInv, Sound, Ended
    <3>2. CASE ~Built(i)
      BY <3>2 DEF Built, NoGame, NoTimer, Ended
    <3> QED BY <3>1, <3>2
  <2> QED BY <2>1 DEF GameInv, BooksInv, Built, GameTypeOK
<1> QED BY <1>1, GameInvariant, PTL

\* finishMatch (gameManager.ts) records no winner that the chain did not settle for,
\* whichever endings race and whichever transaction or write fails.
THEOREM RecordedIsReported == Spec => []SettlementIsReported
<1>1. GameInv => SettlementIsReported
  BY DEF GameInv, ReportInv, SettlementIsReported
<1> QED BY <1>1, GameInvariant, PTL

\* scheduleFlagFall (gameManager.ts): no live game is without a clock, and the clock is
\* that of the player on the move once every move is stored.
THEOREM ClocksRun == Spec => []ClockRuns
<1>1. GameInv => ClockRuns
  <2> SUFFICES ASSUME GameInv, NEW i \in Objects, Live(i)
               PROVE  objects[i].timer # NoTimer /\ Timed(i)
    BY DEF ClockRuns, Timed
  <2>1. Built(i) /\ ~Ended(i)
    BY DEF Live, Built, Ended, NoGame
  <2> QED BY <2>1 DEF GameInv, ObjectInv, Sound, Ended, ClockInv
<1> QED BY <1>1, GameInvariant, PTL

\* No handler that resumes after the end of its game (submitMove, runEvaluation) revives
\* it, arms its timer again or changes its board, up to a restart.
THEOREM EndedStaysEnded == Spec => EndedIsFinal
<1>1. GameInv /\ crashes \in Nat /\ [Next]_vars => [EndedKept]_vars
  BY GameStep
<1>2. [][EndedKept]_vars => EndedIsFinal
  BY PTL DEF EndedKept, EndedIsFinal
<1> QED BY <1>1, <1>2, GameInvariant, CrashesCounted, PTL DEF Spec
=============================================================================
