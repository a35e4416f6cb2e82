---------------------------- MODULE EngineProofs ----------------------------
(***************************************************************************)
(* Proofs about the engine queue: which answers can be trusted, where the  *)
(* analyses are filed, and what the anti-cheat flags rest on.              *)
(***************************************************************************)
EXTENDS EngineProperties, SequenceTheorems, FiniteSetTheorems, TLAPS

Kind    == {"eval", "check"}
Answer  == Position \cup {Nothing}
Asking  == [kind : Kind, ply : Position, number : Position, asks : Position,
            about : Answer, clean : BOOLEAN]
Row     == [ply : Position, move_number : Position, matches_engine : BOOLEAN,
            clean : BOOLEAN, late : BOOLEAN]
Flag    == [player : Players, moves : Nat, agreed : Nat]

\* The questions that wait, and the engine that they wait for.
QueueTyped ==
  /\ engine \in {"starting", "ready", "degraded", "failed"}
  /\ queue \in Seq(Asking) /\ searches \in Seq(Position)
  /\ writes \subseteq Asking

GameTyped ==
  /\ played \in Seq(BOOLEAN) /\ Len(played) <= MaxMoves
  /\ storing \subseteq 1 .. Len(played)
  /\ rows \subseteq Row /\ IsFiniteSet(rows)
  /\ \A r \in rows : r.ply \in 1 .. Len(played)
  /\ over \in BOOLEAN /\ overlap \in BOOLEAN
  /\ tally \in {"no", "due", "recording", "failed"}
  /\ suspects \subseteq Flag /\ flags \subseteq Flag

Answered(a) == a.clean => a.about = a.asks \/ (a.kind = "check" /\ a.about = Nothing)

\* Strengthening of AnswersCatchUp: only an engine that is ready owes searches, and a
\* request that was sent when it owed nothing is the only one it has been sent.
AnswersInv ==
  /\ \A a \in writes : Answered(a)
  /\ \A i \in 1 .. Len(queue) : queue[i].about = Nothing
  /\ engine # "ready" => searches = <<>>
  /\ engine \in {"degraded", "failed"} => queue = <<>>
  /\ engine = "ready" /\ queue # <<>> =>
       searches # <<>> /\ (queue[1].clean => searches = <<queue[1].asks>>)

QueueInv == QueueTyped /\ AnswersInv

\* Strengthening of FiledUnderItsMove.
Filed(r) ==
  /\ r.ply \in 1 .. Len(played)
  /\ r.kind = "eval" => r.number = r.asks
  /\ r.kind = "check" => r.asks < r.number /\ (r.number = r.ply \/ overlap)

FiledInv ==
  /\ \A r \in Asked \cup writes : Filed(r)
  /\ ~overlap => storing \subseteq {Len(played)}
After(f)  == {r \in rows : Mover(r.ply) = f.player /\ r.move_number > ANTICHEAT_OPENING_CUTOFF_PLY}
Earned(f) == {r \in After(f) : played[r.ply] \/ ~r.clean}

\* Strengthening of FlagsAreEarned: it holds of the flags still to be recorded, and the
\* rows of clean answers say what was played.
EarnedInv ==
  /\ \A r \in rows : r.matches_engine => played[r.ply] \/ ~r.clean
  /\ \A f \in suspects \cup flags :
       /\ f.moves >= ANTICHEAT_MIN_MOVES /\ Cardinality(After(f)) >= f.moves
       /\ Cardinality(Earned(f)) * 100 >= ANTICHEAT_SUSPICION_THRESHOLD * f.moves

Flagged(p) == \E f \in suspects \cup flags : f.player = p
Late(p)    == \E r \in rows : r.late /\ Mover(r.ply) = p

\* Strengthening of FlagsFollowEvidence: the flags are drawn once, when none are there.
DrawnInv ==
  /\ ~over => tally = "no"
  /\ tally \in {"no", "due"} => suspects = {} /\ flags = {}
  /\ tally = "recording" => \A p \in Players : (Flagged(p) <=> Suspicious(p)) \/ Late(p)
-----------------------------------------------------------------------------
(* The queue *)

\* The same question; .clean and .about are the engine's business.
Like(a, b) == a.kind = b.kind /\ a.ply = b.ply /\ a.number = b.number /\ a.asks = b.asks

\* After a step, only questions of S wait for an answer or are being written.
OnlyFrom(S) == \A a \in (Asked \cup writes)' : \E b \in S : Like(a, b)

\* Sending may change .clean of the first request, and nothing else.
LEMMA SendsTyped ==
  ASSUME NEW q \in Seq(Asking), NEW s \in Seq(Position), Sends(q, s)
  PROVE  /\ queue' \in Seq(Asking) /\ searches' \in Seq(Position)
         /\ Len(queue') = Len(q)
         /\ \A i \in 1 .. Len(q) : Like(queue'[i], q[i]) /\ queue'[i].about = q[i].about
         /\ queue' # <<>> =>
              searches' # <<>> /\ (queue'[1].clean => searches' = <<queue'[1].asks>>)
         /\ q = <<>> => searches' = s
<1>1. CASE q = <<>>
  BY <1>1 DEF Sends
<1>2. CASE q # <<>>
  <2>1. q[1] \in Asking /\ 1 \in 1 .. Len(q) /\ Len(q) \in Nat
    BY <1>2
  <2>2. DEFINE sent == [q[1] EXCEPT !.clean = (s = <<>>)]
  <2>3. /\ sent \in Asking /\ Like(sent, q[1]) /\ sent.about = q[1].about
        /\ sent.clean <=> s = <<>>
    BY <2>1 DEF Asking, Like
  <2>4. queue' = [q EXCEPT ![1] = sent]
    BY <1>2 DEF Sends
  <2> HIDE DEF sent
  <2>5. queue' \in Seq(Asking) /\ Len(queue') = Len(q) /\ queue'[1] = sent
    BY <2>1, <2>3, <2>4, ExceptSeq
  <2>6. searches' = Append(s, q[1].asks) /\ searches' # <<>> /\ q[1].asks \in Position
    BY <1>2, <2>1 DEF Sends, Asking
  <2>7. sent.clean => searches' = <<sent.asks>>
    BY <2>3, <2>6 DEF Like
  <2> QED BY <1>2, <2>1, <2>3, <2>4, <2>5, <2>6, <2>7 DEF Like
<1> QED BY <1>1, <1>2

\* The next request is sent, or there is none: what waits is what q holds.
LEMMA SendsKeeps ==
  ASSUME NEW q \in Seq(Asking), NEW s \in Seq(Position), Sends(q, s),
         engine' = "ready", writes' \subseteq Asking, \A a \in writes' : Answered(a),
         NEW S, \A i \in 1 .. Len(q) : q[i].about = Nothing /\ \E b \in S : Like(q[i], b),
         \A a \in writes' : \E b \in S : Like(a, b)
  PROVE  QueueInv' /\ OnlyFrom(S)
<1>1. QueueInv'
  BY SendsTyped DEF QueueInv, QueueTyped, AnswersInv, Answered
<1>2. \A i \in 1 .. Len(queue') : \E b \in S : Like(queue'[i], b)
  BY SendsTyped DEF Like
<1>3. queue' \in Seq(Asking) /\ DOMAIN queue' = 1 .. Len(queue')
  BY SendsTyped
<1>4. ASSUME NEW a \in (Asked \cup writes)' PROVE \E b \in S : Like(a, b)
  <2>1. CASE a \in writes'
    BY <2>1
  <2>2. CASE \E i \in DOMAIN queue' : a = queue'[i]
    BY <1>2, <1>3, <2>2
  <2> QED BY <1>4, <2>1, <2>2 DEF Asked
<1> QED BY <1>1, <1>4 DEF OnlyFrom

\* What the queue and the awaited searches are made of.
LEMMA AskedTyped ==
  ASSUME QueueTyped
  PROVE  /\ DOMAIN queue = 1 .. Len(queue) /\ Len(queue) \in Nat
         /\ \A i \in 1 .. Len(queue) : queue[i] \in Asking /\ queue[i] \in Asked
         /\ Asked \cup writes \subseteq Asking
         /\ \A a \in Asking : Like(a, a)
<1>1. /\ DOMAIN queue = 1 .. Len(queue) /\ Len(queue) \in Nat
      /\ \A i \in 1 .. Len(queue) : queue[i] \in Asking
  BY DEF QueueTyped
<1> QED BY <1>1 DEF Asked, QueueTyped, Like

\* The first request is answered with a, and the engine goes on to the next one.
LEMMA FinishKeeps ==
  ASSUME QueueInv, engine = "ready", queue # <<>>, NEW a \in Asking, Like(a, queue[1]),
         Answered(a), NEW s \in Seq(Position), Finish(a, s), UNCHANGED engine
  PROVE  QueueInv' /\ OnlyFrom(Asked \cup writes)
<1>1. /\ 1 \in 1 .. Len(queue) /\ Tail(queue) \in Seq(Asking)
      /\ Len(Tail(queue)) = Len(queue) - 1
      /\ \A i \in 1 .. Len(Tail(queue)) : Tail(queue)[i] = queue[i + 1]
  BY DEF QueueInv, QueueTyped
<1>2. \A i \in 1 .. Len(Tail(queue)) :
        Tail(queue)[i].about = Nothing /\ \E b \in Asked \cup writes : Like(Tail(queue)[i], b)
  BY <1>1, AskedTyped DEF QueueInv, AnswersInv
<1>3. writes' \subseteq Asking /\ \A b \in writes' : Answered(b)
  BY DEF Finish, QueueInv, QueueTyped, AnswersInv
<1>4. \A b \in writes' : \E c \in Asked \cup writes : Like(b, c)
  BY <1>1, AskedTyped DEF Finish, QueueInv
<1> QED BY <1>1, <1>2, <1>3, <1>4, SendsKeeps DEF Finish

\* The engine starting, or failing to, answers or drops requests only.
LEMMA EngineSteps ==
  ASSUME QueueInv, EngineReady \/ EngineMissing \/ HandshakeTimeout
  PROVE  QueueInv' /\ OnlyFrom(Asked \cup writes)
<1>1. /\ \A i \in 1 .. Len(queue) :
           queue[i].about = Nothing /\ \E b \in Asked \cup writes : Like(queue[i], b)
      /\ \A b \in writes : \E c \in Asked \cup writes : Like(b, c)
  BY AskedTyped DEF QueueInv, AnswersInv
<1>2. CASE EngineReady
  BY <1>1, <1>2, SendsKeeps DEF EngineReady, QueueInv, QueueTyped, AnswersInv
<1>3. CASE EngineMissing
  <2>1. /\ queue' = <<>> /\ searches' = <<>> /\ engine' = "degraded"
        /\ writes' = writes \cup {Heuristic(queue[i]) : i \in DOMAIN queue}
    BY <1>3 DEF EngineMissing, QueueInv, AnswersInv
  <2>2. ASSUME NEW i \in 1 .. Len(queue)
        PROVE  /\ Heuristic(queue[i]) \in Asking /\ Like(Heuristic(queue[i]), queue[i])
               /\ Answered(Heuristic(queue[i]))
    <3>1. queue[i] \in Asking /\ queue[i].about = Nothing
      BY <1>1, AskedTyped DEF QueueInv
    <3>2. CASE queue[i].kind = "eval"
      BY <3>1, <3>2 DEF Heuristic, Asking, Answer, Like, Answered
    <3>3. CASE queue[i].kind # "eval"
      BY <3>1, <3>3 DEF Heuristic, Asking, Kind, Like, Answered
    <3> QED BY <3>2, <3>3
  <2>3. writes' \subseteq Asking /\ \A b \in writes' : Answered(b)
    BY <2>1, <2>2, AskedTyped DEF QueueInv, QueueTyped, AnswersInv
  <2>4. \A b \in writes' : \E c \in Asked \cup writes : Like(b, c)
    BY <1>1, <2>1, <2>2, AskedTyped DEF QueueInv
  <2>5. QueueInv'
    BY <2>1, <2>3 DEF QueueInv, QueueTyped, AnswersInv
  <2>6. queue' = <<>>
    BY <2>1
  <2>7. \A b \in (Asked \cup writes)' : b \in writes'
    BY <2>6 DEF Asked
  <2> QED BY <2>4, <2>5, <2>7 DEF OnlyFrom
<1>4. CASE HandshakeTimeout
  BY <1>1, <1>4 DEF HandshakeTimeout, QueueInv, QueueTyped, AnswersInv, OnlyFrom, Asked
<1> QED BY <1>2, <1>3, <1>4

\* A line settles the request that waits, whatever search it ends; when that one was
\* sent to an engine that owed nothing, it is its own.
LEMMA LineSteps ==
  ASSUME QueueInv, BestMoveLine \/ EvaluationTimeout
  PROVE  QueueInv' /\ OnlyFrom(Asked \cup writes)
<1>1. \A b \in Asked \cup writes : Like(b, b)
  BY DEF Like
<1>2. searches # <<>> => Head(searches) \in Position /\ Tail(searches) \in Seq(Position)
  BY DEF QueueInv, QueueTyped
<1>3. CASE BestMoveLine /\ queue = <<>>
  BY <1>1, <1>2, <1>3 DEF BestMoveLine, QueueInv, QueueTyped, AnswersInv, OnlyFrom, Asked
<1>4. CASE BestMoveLine /\ queue # <<>>
  <2>1. PICK about \in {Head(searches), Nothing} :
          /\ about = Nothing => Head(queue).kind = "eval" /\ ~Head(queue).clean
          /\ Finish([Head(queue) EXCEPT !.about = about], Tail(searches))
    BY <1>4 DEF BestMoveLine
  <2>2. DEFINE a == [Head(queue) EXCEPT !.about = about]
  <2>3. /\ Head(queue) = queue[1] /\ queue[1] \in Asking
        /\ engine = "ready" /\ searches # <<>> /\ engine' = engine
    BY <1>4 DEF BestMoveLine, QueueInv, QueueTyped, AnswersInv
  <2>4. queue[1].clean => Head(searches) = queue[1].asks
    BY <1>4, <2>3 DEF QueueInv, AnswersInv
  <2>5. a \in Asking /\ Like(a, queue[1]) /\ Answered(a)
    BY <1>2, <2>1, <2>3, <2>4 DEF Asking, Answer, Like, Answered
  <2> QED BY <1>2, <1>4, <2>1, <2>3, <2>5, FinishKeeps
<1>5. CASE EvaluationTimeout
  <2>1. PICK about \in {Head(searches), Nothing} :
          Finish([Head(queue) EXCEPT !.about = about, !.clean = FALSE], searches)
    BY <1>5 DEF EvaluationTimeout
  <2>2. DEFINE a == [Head(queue) EXCEPT !.about = about, !.clean = FALSE]
  <2>3. Head(queue) = queue[1] /\ queue[1] \in Asking /\ queue # <<>> /\ engine' = engine
    BY <1>5 DEF EvaluationTimeout, QueueInv, QueueTyped
  <2>4. searches # <<>>
    BY <1>5, <2>3 DEF EvaluationTimeout, QueueInv, AnswersInv
  <2>5. a \in Asking /\ Like(a, queue[1]) /\ Answered(a)
    BY <1>2, <2>1, <2>3, <2>4 DEF Asking, Answer, Like, Answered
  <2> QED BY <1>5, <2>1, <2>3, <2>5, FinishKeeps DEF EvaluationTimeout, QueueInv, QueueTyped
<1> QED BY <1>3, <1>4, <1>5

\* The analyses of a stored move wait, are answered at once, or are dropped.
LEMMA EvaluateKeeps ==
  ASSUME QueueInv, NEW x \in Asking, NEW y \in Asking, x.about = Nothing, y.about = Nothing,
         x.kind = "eval", y.kind = "check", Evaluate(<<x, y>>)
  PROVE  QueueInv' /\ OnlyFrom(Asked \cup writes \cup {x, y})
<1> DEFINE S == Asked \cup writes \cup {x, y}
<1>1. /\ \A i \in 1 .. Len(queue) : queue[i].about = Nothing /\ \E b \in S : Like(queue[i], b)
      /\ \A b \in writes : \E c \in S : Like(b, c)
      /\ Like(x, x) /\ Like(y, y)
  BY AskedTyped DEF QueueInv, AnswersInv
<1>2. <<x, y>> \in Seq(Asking) /\ DOMAIN <<x, y>> = 1 .. 2
  OBVIOUS
<1>3. CASE engine = "degraded"
  <2>1. DEFINE z == [x EXCEPT !.about = x.asks]
  <2>2. z \in Asking /\ Like(z, x) /\ Answered(z) /\ Answered(y)
    BY DEF Asking, Answer, Like, Answered
  <2>3. Heuristic(x) = z /\ Heuristic(y) = y
    BY DEF Heuristic
  <2> HIDE DEF z
  <2>4. UNCHANGED <<engine, queue, searches>> /\ writes' = writes \cup {z, y}
    BY <1>2, <1>3, <2>3 DEF Evaluate, queueVars
  <2>5. QueueInv'
    BY <1>3, <2>2, <2>4 DEF QueueInv, QueueTyped, AnswersInv
  <2>6. queue = <<>>
    BY <1>3 DEF QueueInv, AnswersInv
  <2> QED BY <1>1, <2>2, <2>4, <2>5, <2>6 DEF OnlyFrom, Asked
<1>4. CASE engine = "failed"
  BY <1>1, <1>4 DEF Evaluate, queueVars, OnlyFrom, Asked, QueueInv, QueueTyped, AnswersInv
<1>5. CASE engine = "ready" /\ queue = <<>>
  <2>1. Sends(<<x, y>>, searches) /\ engine' = engine /\ writes' = writes
    BY <1>5 DEF Evaluate
  <2>2. searches \in Seq(Position) /\ writes \subseteq Asking /\ \A a \in writes : Answered(a)
    BY DEF QueueInv, QueueTyped, AnswersInv
  <2>3. \A i \in 1 .. Len(<<x, y>>) :
          <<x, y>>[i].about = Nothing /\ \E b \in S : Like(<<x, y>>[i], b)
    BY <1>1
  <2> HIDE DEF S
  <2>4. QueueInv' /\ OnlyFrom(S)
    BY <1>1, <1>2, <1>5, <2>1, <2>2, <2>3, SendsKeeps
  <2> QED BY <2>4 DEF S
<1>6. CASE ~(engine \in {"degraded", "failed"} \/ (engine = "ready" /\ queue = <<>>))
  <2>1. queue' = queue \o <<x, y>> /\ UNCHANGED <<engine, searches, writes>>
    BY <1>6 DEF Evaluate
  <2>2. /\ queue' \in Seq(Asking) /\ Len(queue') = Len(queue) + 2
        /\ \A i \in 1 .. Len(queue) : queue'[i] = queue[i]
        /\ queue'[Len(queue) + 1] = x /\ queue'[Len(queue) + 2] = y
    BY <1>2, <2>1 DEF QueueInv, QueueTyped
  <2>3. \A i \in 1 .. Len(queue') : queue'[i].about = Nothing /\ \E b \in S : Like(queue'[i], b)
    BY <1>1, <2>2, AskedTyped DEF QueueInv
  <2>4. queue # <<>> => queue'[1] = queue[1]
    BY <2>2, AskedTyped DEF QueueInv, QueueTyped
  <2>5. QueueInv'
    BY <1>6, <2>1, <2>2, <2>3, <2>4 DEF QueueInv, QueueTyped, AnswersInv
  <2>6. DOMAIN queue' = 1 .. Len(queue')
    BY <2>2
  <2> QED BY <1>1, <2>1, <2>3, <2>5, <2>6 DEF OnlyFrom, Asked
<1> QED BY <1>3, <1>4, <1>5, <1>6
-----------------------------------------------------------------------------
(* The game *)

\* The moves played are no more than the bound, and rows are of positions.
LEMMA PlayedTyped ==
  ASSUME GameTyped
  PROVE  Len(played) \in 0 .. MaxMoves /\ MaxMoves \in Nat /\ storing \subseteq Position
BY EngineAssumption DEF GameTyped, Position

\* Nothing is queued and no move is played.
LEMMA InitTyped == Init => QueueInv /\ GameTyped
<1> SUFFICES ASSUME Init PROVE QueueInv /\ GameTyped
  OBVIOUS
<1>1. QueueInv
  BY DEF Init, QueueInv, QueueTyped, AnswersInv
<1>2. played \in Seq(BOOLEAN) /\ Len(played) = Opening /\ Opening <= MaxMoves
  BY EngineAssumption DEF Init
<1>3. IsFiniteSet(rows)
  <2>1. IsFiniteSet(1 .. Opening)
    BY FS_Interval, EngineAssumption
  <2>2. DEFINE RowOf(n) == [ply |-> n, move_number |-> n, matches_engine |-> TRUE,
                            clean |-> TRUE, late |-> FALSE]
  <2>3. DEFINE f == [n \in 1 .. Opening |-> RowOf(n)]
  <2>4. rows = {f[n] : n \in 1 .. Opening}
    BY DEF Init
  <2>5. f \in Surjection(1 .. Opening, rows)
    BY <2>4 DEF Surjection
  <2> QED BY <2>1, <2>5, FS_Surjection
<1>4. rows \subseteq Row /\ \A r \in rows : r.ply \in 1 .. Len(played)
  <2>1. ASSUME NEW n \in 1 .. Opening
        PROVE  [ply |-> n, move_number |-> n, matches_engine |-> TRUE,
                clean |-> TRUE, late |-> FALSE] \in Row
    BY EngineAssumption DEF Row, Position
  <2>2. ASSUME NEW r \in rows PROVE r \in Row /\ r.ply \in 1 .. Len(played)
    <3>1. PICK n \in 1 .. Opening : r = [ply |-> n, move_number |-> n, matches_engine |-> TRUE,
                                         clean |-> TRUE, late |-> FALSE]
      BY <2>2 DEF Init
    <3> QED BY <1>2, <2>1, <3>1
  <2> QED BY <2>2
<1> QED BY <1>1, <1>2, <1>3, <1>4 DEF Init, GameTyped

\* The game's own state keeps its type.
LEMMA GameTypedStep ==
  ASSUME QueueInv, GameTyped, [Next]_vars, \A r \in Asked \cup writes : r.ply \in 1 .. Len(played)
  PROVE  GameTyped'
<1> USE DEF GameTyped
<1>1. CASE EngineStarts \/ BestMoveLine \/ EvaluationTimeout
  BY <1>1 DEF EngineStarts, EngineReady, EngineMissing, HandshakeTimeout, BestMoveLine,
     EvaluationTimeout, gameVars, flagVars
<1>2. ASSUME NEW choice \in BOOLEAN, SubmitMove(choice) PROVE GameTyped'
  <2>1. played' \in Seq(BOOLEAN) /\ Len(played') = Len(played) + 1 /\ Len(played) \in Nat
    BY <1>2 DEF SubmitMove
  <2>2. Len(played') <= MaxMoves
    BY <1>2, <2>1, PlayedTyped DEF SubmitMove, moveCount
  <2>3. ASSUME NEW n \in storing' PROVE n \in 1 .. Len(played')
    <3>1. n \in 1 .. Len(played) \/ n = Len(played) + 1
      BY <1>2, <2>3 DEF SubmitMove, moveCount
    <3> HIDE DEF GameTyped
    <3> QED BY <2>1, <3>1
  <2>4. /\ rows' \subseteq Row /\ IsFiniteSet(rows') /\ over' \in BOOLEAN /\ overlap' \in BOOLEAN
        /\ UNCHANGED <<tally, suspects, flags, rows>>
    BY <1>2 DEF SubmitMove, flagVars
  <2>5. \A r \in rows' : r.ply \in 1 .. Len(played')
    BY <2>1, <2>4
  <2> QED BY <2>1, <2>2, <2>3, <2>4, <2>5
<1>3. ASSUME NEW ply \in storing, MoveStored(ply) \/ MoveNotStored(ply) PROVE GameTyped'
  BY <1>3 DEF MoveStored, MoveNotStored, flagVars
<1>4. ASSUME NEW w \in writes, Inserted(w) PROVE GameTyped'
  <2>1. UNCHANGED <<played, storing, over, overlap, tally, suspects, flags>>
    BY <1>4 DEF Inserted, flagVars, gameVars
  <2>2. CASE rows' = rows
    BY <2>1, <2>2
  <2>3. CASE rows' # rows
    <3> DEFINE late == tally \in {"recording", "failed"}
    <3> DEFINE row(m) == [ply |-> w.ply, move_number |-> w.number, matches_engine |-> m,
                          clean |-> w.clean, late |-> late]
    <3>1. PICK m \in BOOLEAN : rows' = rows \cup {row(m)}
      BY <1>4, <2>3 DEF Inserted
    <3>2. w \in Asking /\ w.ply \in 1 .. Len(played)
      BY DEF QueueInv, QueueTyped
    <3>3. late \in BOOLEAN
      OBVIOUS
    <3> HIDE DEF late
    <3>4. row(m) \in Row /\ row(m).ply \in 1 .. Len(played)
      BY <3>2, <3>3 DEF Row, Asking
    <3> HIDE DEF row
    <3>5. rows' \subseteq Row /\ IsFiniteSet(rows') /\ \A r \in rows' : r.ply \in 1 .. Len(played)
      BY <3>1, <3>4, FS_AddElement
    <3> QED BY <2>1, <3>5
  <2> QED BY <2>2, <2>3
<1>5. CASE FinishMatch \/ TallyFails
  BY <1>5 DEF FinishMatch, TallyFails, gameVars
<1>6. CASE FlagsTallied
  <2>1. \A p \in Players : Cardinality(Analyzed(p)) \in Nat /\ Cardinality(Agreed(p)) \in Nat
    BY FS_Subset, FS_CardinalityType DEF Analyzed, Agreed
  <2>2. suspects' \subseteq Flag
    BY <1>6, <2>1 DEF FlagsTallied, Flag
  <2> QED BY <1>6, <2>2 DEF FlagsTallied, gameVars
<1>7. ASSUME NEW f \in suspects, FlagRecorded(f) PROVE GameTyped'
  BY <1>7 DEF FlagRecorded, gameVars
<1>8. CASE Restart
  BY <1>8 DEF Restart
<1>9. CASE UNCHANGED vars
  BY <1>9 DEF vars, gameVars, flagVars
<1> QED BY <1>1, <1>2, <1>3, <1>4, <1>5, <1>6, <1>7, <1>8, <1>9 DEF Next

\* Only new questions could be filed elsewhere, and none are put before an analysis starts.
LEMMA FiledKept ==
  ASSUME FiledInv, OnlyFrom(Asked \cup writes), UNCHANGED gameVars
  PROVE  FiledInv'
BY DEF FiledInv, OnlyFrom, Like, Filed, gameVars

\* The questions of a stored move are filed under it, unless the game went on.
LEMMA StoredFiled ==
  ASSUME QueueInv, GameTyped, FiledInv, NEW ply \in storing, MoveStored(ply)
  PROVE  QueueInv' /\ FiledInv'
<1> DEFINE x == Request("eval", ply, moveCount)
           y == Request("check", ply, ply - 1)
<1>1. /\ ply \in 1 .. Len(played) /\ Len(played) \in Position
      /\ ply - 1 \in Position /\ ply \in Position
  BY PlayedTyped DEF GameTyped, Position
<1>2. x \in Asking /\ y \in Asking /\ x.about = Nothing /\ y.about = Nothing
      /\ x.kind = "eval" /\ y.kind = "check"
  BY <1>1 DEF Request, Asking, Kind, Answer, moveCount
<1>3. Filed(x) /\ Filed(y)
  <2>1. ~overlap => ply = Len(played)
    BY DEF FiledInv
  <2> QED BY <1>1, <2>1 DEF Filed, Request, moveCount
<1> HIDE DEF x, y
<1>4. Evaluate(<<x, y>>) /\ UNCHANGED <<played, overlap>> /\ storing' \subseteq storing
  BY DEF MoveStored, Analyses, x, y
<1>5. QueueInv' /\ OnlyFrom(Asked \cup writes \cup {x, y})
  BY <1>2, <1>4, EvaluateKeeps
<1>6. \A r \in (Asked \cup writes)' : Filed(r)'
  BY <1>3, <1>4, <1>5 DEF FiledInv, OnlyFrom, Like, Filed
<1> QED BY <1>4, <1>5, <1>6 DEF FiledInv

\* Each request and each row stay with the move that they were made for.
LEMMA QueueFiledStep ==
  ASSUME QueueInv, GameTyped, FiledInv, [Next]_vars
  PROVE  QueueInv' /\ FiledInv'
<1> DEFINE Same == UNCHANGED <<engine, queue, searches, gameVars>> /\ writes' \subseteq writes
<1>1. ASSUME Same PROVE QueueInv' /\ FiledInv'
  <2>1. QueueInv' /\ OnlyFrom(Asked \cup writes)
    BY <1>1 DEF QueueInv, QueueTyped, AnswersInv, OnlyFrom, Asked, Like
  <2> QED BY <1>1, <2>1, FiledKept
<1>2. CASE EngineStarts \/ BestMoveLine \/ EvaluationTimeout
  <2>1. UNCHANGED gameVars
    BY <1>2 DEF EngineStarts, EngineReady, EngineMissing, HandshakeTimeout, BestMoveLine,
       EvaluationTimeout
  <2> QED BY <1>2, <2>1, EngineSteps, LineSteps, FiledKept DEF EngineStarts
<1>3. ASSUME NEW choice \in BOOLEAN, SubmitMove(choice) PROVE QueueInv' /\ FiledInv'
  <2>1. /\ UNCHANGED <<engine, queue, searches, writes>> /\ Len(played') = Len(played) + 1
        /\ Len(played) \in Nat /\ storing' = storing \cup {Len(played) + 1}
    BY <1>3 DEF SubmitMove, moveCount, queueVars, GameTyped
  <2> (overlap => overlap') /\ (storing # {} => overlap')
    BY <1>3 DEF SubmitMove
  <2>2. QueueInv'
    BY <2>1 DEF QueueInv, QueueTyped, AnswersInv
  <2>3. (Asked \cup writes)' = Asked \cup writes
    BY <2>1 DEF Asked
  <2>4. \A r \in Asked \cup writes : Filed(r)
    BY DEF FiledInv
  <2>5. \A r \in (Asked \cup writes)' : Filed(r)'
    BY <2>1, <2>3, <2>4 DEF Filed
  <2> QED BY <2>1, <2>2, <2>5 DEF FiledInv
<1>4. ASSUME NEW ply \in storing, MoveStored(ply) PROVE QueueInv' /\ FiledInv'
  BY <1>4, StoredFiled
<1>5. ASSUME NEW ply \in storing, MoveNotStored(ply) PROVE QueueInv' /\ FiledInv'
  <2>1. /\ UNCHANGED <<engine, queue, searches, writes, played, overlap>>
        /\ storing' \subseteq storing
    BY <1>5 DEF MoveNotStored, queueVars
  <2> QED BY <2>1 DEF QueueInv, QueueTyped, AnswersInv, FiledInv, Filed, Asked
<1>6. ASSUME NEW w \in writes, Inserted(w) PROVE QueueInv' /\ FiledInv'
  BY <1>1, <1>6 DEF Inserted, queueVars
<1>7. CASE FinishMatch \/ FlagsTallied \/ TallyFails
  <2>1. UNCHANGED <<engine, queue, searches, writes, played, storing, overlap>>
    BY <1>7 DEF FinishMatch, FlagsTallied, TallyFails, queueVars, gameVars
  <2> QED BY <2>1 DEF QueueInv, QueueTyped, AnswersInv, FiledInv, Filed, Asked
<1>8. ASSUME NEW f \in suspects, FlagRecorded(f) PROVE QueueInv' /\ FiledInv'
  BY <1>1, <1>8 DEF FlagRecorded, queueVars
<1>9. CASE Restart
  <2>1. /\ queue' = <<>> /\ searches' = <<>> /\ writes' = {} /\ storing' = {}
        /\ engine' = "starting"
    BY <1>9 DEF Restart
  <2> QED BY <2>1 DEF QueueInv, QueueTyped, AnswersInv, FiledInv, Asked
<1>10. CASE UNCHANGED vars
  BY <1>1, <1>10 DEF vars, queueVars
<1> QED BY <1>2, <1>3, <1>4, <1>5, <1>6, <1>7, <1>8, <1>9, <1>10 DEF Next
-----------------------------------------------------------------------------
(* The flags *)

\* An answer to a clean request agrees with the move only when that was played.
LEMMA MatchIsPlayed ==
  ASSUME NEW w \in Asking, Answered(w), w.kind = "check", NEW m \in BOOLEAN, Matches(w, m), m
  PROVE  played[w.ply] \/ ~w.clean
<1>1. w.asks # Nothing
  BY EngineAssumption DEF Asking, Position, Nothing
<1> QED BY <1>1 DEF Answered, Matches

\* Rows are only added, and a half-move that was played stays played.
LEMMA RowsGrow ==
  ASSUME QueueInv, GameTyped, EarnedInv, [Next]_vars
  PROVE  /\ rows \subseteq rows'
         /\ \A r \in rows : played'[r.ply] = played[r.ply]
         /\ \A r \in rows' : r.matches_engine => played'[r.ply] \/ ~r.clean
         /\ \A r \in rows' \ rows : tally \in {"recording", "failed"} => r.late
<1> DEFINE Goal ==
      /\ rows \subseteq rows'
      /\ \A r \in rows : played'[r.ply] = played[r.ply]
      /\ \A r \in rows' : r.matches_engine => played'[r.ply] \/ ~r.clean
      /\ \A r \in rows' \ rows : tally \in {"recording", "failed"} => r.late
<1> SUFFICES Goal
  OBVIOUS
<1>1. \A r \in rows : r.matches_engine => played[r.ply] \/ ~r.clean
  BY DEF EarnedInv
<1>2. ASSUME UNCHANGED <<rows, played>> PROVE Goal
  BY <1>1, <1>2
<1>3. ASSUME NEW choice \in BOOLEAN, SubmitMove(choice) PROVE Goal
  <2>1. \A n \in 1 .. Len(played) : played'[n] = played[n]
    BY <1>3 DEF SubmitMove, GameTyped
  <2>2. rows' = rows
    BY <1>3 DEF SubmitMove
  <2>3. \A r \in rows : played'[r.ply] = played[r.ply]
    BY <2>1 DEF GameTyped
  <2> QED BY <1>1, <2>2, <2>3
<1>4. ASSUME NEW w \in writes, Inserted(w), rows' # rows PROVE Goal
  <2> DEFINE late == tally \in {"recording", "failed"}
  <2> DEFINE row(m) == [ply |-> w.ply, move_number |-> w.number, matches_engine |-> m,
                        clean |-> w.clean, late |-> late]
  <2>1. PICK m \in BOOLEAN : Matches(w, m) /\ rows' = rows \cup {row(m)}
    BY <1>4 DEF Inserted
  <2>2. w \in Asking /\ w.kind = "check" /\ Answered(w)
    BY <1>4 DEF Inserted, QueueInv, QueueTyped, AnswersInv, Asking, Kind
  <2>3. m => played[w.ply] \/ ~w.clean
    BY <2>1, <2>2, MatchIsPlayed
  <2>4. played' = played
    BY <1>4 DEF Inserted, gameVars
  <2>5. row(m).matches_engine => played[row(m).ply] \/ ~row(m).clean
    BY <2>3
  <2>6. late => row(m).late
    OBVIOUS
  <2> HIDE DEF row
  <2>7. \A r \in rows' \ rows : r = row(m)
    BY <2>1
  <2> QED BY <1>1, <2>1, <2>4, <2>5, <2>6, <2>7
<1>5. CASE EngineStarts \/ BestMoveLine \/ EvaluationTimeout
  BY <1>2, <1>5 DEF EngineStarts, EngineReady, EngineMissing, HandshakeTimeout, BestMoveLine,
     EvaluationTimeout, gameVars
<1>6. ASSUME NEW ply \in storing, MoveStored(ply) \/ MoveNotStored(ply)
      PROVE  Goal
  BY <1>2, <1>6 DEF MoveStored, MoveNotStored
<1>7. CASE FinishMatch \/ FlagsTallied \/ TallyFails \/ Restart \/ UNCHANGED vars
  BY <1>2, <1>7 DEF FinishMatch, FlagsTallied, TallyFails, Restart, vars, gameVars
<1>8. ASSUME NEW f \in suspects, FlagRecorded(f) PROVE Goal
  BY <1>2, <1>8 DEF FlagRecorded, gameVars
<1>9. ASSUME NEW w \in writes, Inserted(w) PROVE Goal
  <2>1. played' = played
    BY <1>9 DEF Inserted, gameVars
  <2> QED BY <1>2, <1>4, <1>9, <2>1
<1> HIDE DEF Goal
<1> QED BY <1>2, <1>3, <1>4, <1>5, <1>6, <1>7, <1>8, <1>9 DEF Next

\* What a flag rests on is only added to.
LEMMA EvidenceGrows ==
  ASSUME GameTyped, GameTyped', rows \subseteq rows',
         \A r \in rows : played'[r.ply] = played[r.ply], NEW f
  PROVE  /\ Cardinality(After(f)) \in Nat /\ Cardinality(After(f)') \in Nat
         /\ Cardinality(Earned(f)) \in Nat /\ Cardinality(Earned(f)') \in Nat
         /\ Cardinality(After(f)) <= Cardinality(After(f)')
         /\ Cardinality(Earned(f)) <= Cardinality(Earned(f)')
<1>1. IsFiniteSet(After(f)') /\ IsFiniteSet(Earned(f)')
  BY FS_Subset DEF GameTyped, After, Earned
<1>2. After(f) \subseteq After(f)' /\ Earned(f) \subseteq Earned(f)'
  BY DEF After, Earned
<1>3. /\ IsFiniteSet(After(f)) /\ Cardinality(After(f)) <= Cardinality(After(f)')
      /\ IsFiniteSet(Earned(f)) /\ Cardinality(Earned(f)) <= Cardinality(Earned(f)')
  BY <1>1, <1>2, FS_Subset
<1> QED BY <1>1, <1>3, FS_CardinalityType

\* A flag as it is drawn: every row that agreed with the engine was earned.
LEMMA DrawnEarned ==
  ASSUME GameTyped, EarnedInv, NEW p \in Players, Suspicious(p),
         NEW f, f = [player |-> p, moves |-> Cardinality(Analyzed(p)), agreed |-> Cardinality(Agreed(p))]
  PROVE  /\ f \in Flag /\ f.moves >= ANTICHEAT_MIN_MOVES /\ Cardinality(After(f)) >= f.moves
         /\ Cardinality(Earned(f)) * 100 >= ANTICHEAT_SUSPICION_THRESHOLD * f.moves
<1>1. After(f) = Analyzed(p) /\ Agreed(p) \subseteq Earned(f) /\ Earned(f) \subseteq rows
  BY DEF After, Analyzed, Agreed, Earned, EarnedInv
<1>2. IsFiniteSet(Analyzed(p)) /\ IsFiniteSet(Earned(f))
  BY <1>1, FS_Subset DEF GameTyped, Analyzed
<1>3. IsFiniteSet(Agreed(p)) /\ Cardinality(Agreed(p)) <= Cardinality(Earned(f))
  BY <1>1, <1>2, FS_Subset
<1>4. /\ Cardinality(Analyzed(p)) \in Nat /\ Cardinality(Agreed(p)) \in Nat
      /\ Cardinality(Earned(f)) \in Nat
  BY <1>2, <1>3, FS_CardinalityType
<1>5. 100 * Cardinality(Agreed(p)) >= ANTICHEAT_SUSPICION_THRESHOLD * f.moves
  BY DEF Suspicious
<1>6. ANTICHEAT_SUSPICION_THRESHOLD * f.moves \in Int
  BY <1>4, EngineAssumption
<1>7. Cardinality(Earned(f)) * 100 >= ANTICHEAT_SUSPICION_THRESHOLD * f.moves
  BY <1>3, <1>4, <1>5, <1>6
<1>8. f.moves >= ANTICHEAT_MIN_MOVES /\ Cardinality(After(f)) >= f.moves
  BY <1>1, <1>4, EngineAssumption DEF Suspicious
<1>9. f \in Flag
  BY <1>4 DEF Flag
<1> QED BY <1>7, <1>8, <1>9

\* A flag is raised by the step that stores the row it is earned by.
LEMMA EarnedStep ==
  ASSUME QueueInv, GameTyped, GameTyped', EarnedInv, [Next]_vars
  PROVE  EarnedInv'
<1>1. ASSUME NEW f \in suspects \cup flags
      PROVE  /\ f.moves >= ANTICHEAT_MIN_MOVES /\ Cardinality(After(f)') >= f.moves
             /\ Cardinality(Earned(f)') * 100 >= ANTICHEAT_SUSPICION_THRESHOLD * f.moves
  <2>1. f.moves \in Nat /\ ANTICHEAT_SUSPICION_THRESHOLD * f.moves \in Int
    BY EngineAssumption DEF GameTyped, Flag
  <2> QED BY <2>1, RowsGrow, EvidenceGrows DEF EarnedInv
<1>2. ASSUME (suspects \cup flags)' \subseteq suspects \cup flags PROVE EarnedInv'
  BY <1>1, <1>2, RowsGrow DEF EarnedInv
<1>3. CASE FlagsTallied
  <2>1. \A f \in suspects' : \E p \in Players : /\ Suspicious(p)
          /\ f = [player |-> p, moves |-> Cardinality(Analyzed(p)), agreed |-> Cardinality(Agreed(p))]
    BY <1>3 DEF FlagsTallied
  <2>2. flags' = flags /\ UNCHANGED <<rows, played>>
    BY <1>3 DEF FlagsTallied, gameVars
  <2>3. \A f : After(f)' = After(f) /\ Earned(f)' = Earned(f)
    BY <2>2 DEF After, Earned
  <2>4. ASSUME NEW f \in suspects'
        PROVE  /\ f.moves >= ANTICHEAT_MIN_MOVES /\ Cardinality(After(f)') >= f.moves
               /\ Cardinality(Earned(f)') * 100 >= ANTICHEAT_SUSPICION_THRESHOLD * f.moves
    BY <2>1, <2>3, DrawnEarned
  <2> QED BY <1>1, <2>2, <2>4, RowsGrow DEF EarnedInv
<1>4. CASE EngineStarts \/ BestMoveLine \/ EvaluationTimeout
  BY <1>2, <1>4 DEF EngineStarts, EngineReady, EngineMissing, HandshakeTimeout, BestMoveLine,
     EvaluationTimeout, flagVars
<1>5. ASSUME NEW choice \in BOOLEAN, SubmitMove(choice) PROVE EarnedInv'
  BY <1>2, <1>5 DEF SubmitMove, flagVars
<1>6. ASSUME NEW ply \in storing, MoveStored(ply) \/ MoveNotStored(ply) PROVE EarnedInv'
  BY <1>2, <1>6 DEF MoveStored, MoveNotStored, flagVars
<1>7. ASSUME NEW w \in writes, Inserted(w) PROVE EarnedInv'
  BY <1>2, <1>7 DEF Inserted, flagVars
<1>8. ASSUME NEW f \in suspects, FlagRecorded(f) PROVE EarnedInv'
  BY <1>2, <1>8 DEF FlagRecorded
<1>9. CASE FinishMatch \/ TallyFails \/ Restart \/ UNCHANGED vars
  BY <1>2, <1>9 DEF FinishMatch, TallyFails, Restart, vars, flagVars
<1> QED BY <1>3, <1>4, <1>5, <1>6, <1>7, <1>8, <1>9 DEF Next

\* A player is judged by the analyzed rows alone.
LEMMA SuspicionFromRows ==
  ASSUME NEW p, Analyzed(p)' = Analyzed(p) PROVE Suspicious(p)' <=> Suspicious(p)
<1>1. Agreed(p)' = Agreed(p)
  BY DEF Agreed
<1> QED BY <1>1 DEF Suspicious

\* What has been drawn from the rows stays so until the next answer.
LEMMA DrawnStep ==
  ASSUME QueueInv, GameTyped, EarnedInv, DrawnInv, [Next]_vars
  PROVE  DrawnInv'
<1>1. ASSUME UNCHANGED <<over, tally, suspects, flags, rows>> PROVE DrawnInv'
  <2>1. \A p : Suspicious(p)' <=> Suspicious(p)
    BY <1>1 DEF Suspicious, Analyzed, Agreed
  <2>2. \A p : (Flagged(p)' <=> Flagged(p)) /\ (Late(p)' <=> Late(p))
    BY <1>1 DEF Flagged, Late
  <2> QED BY <1>1, <2>1, <2>2 DEF DrawnInv
<1>2. CASE EngineStarts \/ BestMoveLine \/ EvaluationTimeout
  BY <1>1, <1>2 DEF EngineStarts, EngineReady, EngineMissing, HandshakeTimeout, BestMoveLine,
     EvaluationTimeout, flagVars, gameVars
<1>3. ASSUME NEW choice \in BOOLEAN, SubmitMove(choice) PROVE DrawnInv'
  BY <1>1, <1>3 DEF SubmitMove, flagVars
<1>4. ASSUME NEW ply \in storing, MoveStored(ply) \/ MoveNotStored(ply) PROVE DrawnInv'
  BY <1>1, <1>4 DEF MoveStored, MoveNotStored, flagVars
<1>5. ASSUME NEW w \in writes, Inserted(w) PROVE DrawnInv'
  <2>1. UNCHANGED <<over, tally, suspects, flags>>
    BY <1>5 DEF Inserted, flagVars, gameVars
  <2>2. ASSUME tally = "recording", NEW p \in Players, ~Late(p)'
        PROVE  Flagged(p)' <=> Suspicious(p)'
    <3>1. \A r \in rows' \ rows : r.late
      BY <2>2, RowsGrow
    <3>2. \A r \in rows' \ rows : Mover(r.ply) # p
      BY <2>2, <3>1 DEF Late
    <3>3. rows \subseteq rows'
      BY RowsGrow
    <3>4. Analyzed(p)' = Analyzed(p) /\ ~Late(p)
      BY <2>2, <3>2, <3>3 DEF Analyzed, Late
    <3>5. Flagged(p)' <=> Flagged(p)
      BY <2>1 DEF Flagged
    <3> QED BY <2>2, <3>4, <3>5, SuspicionFromRows DEF DrawnInv
  <2> QED BY <2>1, <2>2 DEF DrawnInv
<1>6. CASE FinishMatch
  BY <1>6 DEF FinishMatch, DrawnInv
<1>7. CASE FlagsTallied
  <2>1. tally' = "recording" /\ flags = {} /\ flags' = {} /\ over' = over /\ rows' = rows /\ over
    BY <1>7 DEF FlagsTallied, DrawnInv, gameVars
  <2>2. ASSUME NEW p \in Players PROVE Flagged(p)' <=> Suspicious(p)
    <3> DEFINE Drawn(q) == [player |-> q, moves |-> Cardinality(Analyzed(q)),
                            agreed |-> Cardinality(Agreed(q))]
    <3>1. suspects' = {Drawn(q) : q \in {q \in Players : Suspicious(q)}}
      BY <1>7 DEF FlagsTallied
    <3>2. \A q : Drawn(q).player = q
      OBVIOUS
    <3> HIDE DEF Drawn
    <3> QED BY <2>1, <3>1, <3>2 DEF Flagged
  <2>3. \A p : Suspicious(p)' <=> Suspicious(p)
    BY <2>1 DEF Suspicious, Analyzed, Agreed
  <2> QED BY <2>1, <2>2, <2>3 DEF DrawnInv
<1>8. CASE TallyFails
  BY <1>8 DEF TallyFails, DrawnInv, gameVars
<1>9. ASSUME NEW f \in suspects, FlagRecorded(f) PROVE DrawnInv'
  <2>1. UNCHANGED <<over, tally, rows>> /\ tally \notin {"no", "due"}
    BY <1>9 DEF FlagRecorded, gameVars, DrawnInv
  <2>2. \A p : Flagged(p)' <=> Flagged(p)
    BY <1>9 DEF FlagRecorded, Flagged
  <2>3. \A p : (Suspicious(p)' <=> Suspicious(p)) /\ (Late(p)' <=> Late(p))
    BY <2>1 DEF Suspicious, Analyzed, Agreed, Late
  <2> QED BY <2>1, <2>2, <2>3 DEF DrawnInv
<1>10. CASE Restart
  <2>1. CASE tally = "due" \/ suspects # {}
    BY <1>10, <2>1 DEF Restart, DrawnInv
  <2>2. CASE ~(tally = "due" \/ suspects # {})
    BY <1>1, <1>10, <2>2 DEF Restart
  <2> QED BY <2>1, <2>2
<1>11. CASE UNCHANGED vars
  BY <1>1, <1>11 DEF vars, gameVars, flagVars
<1> QED BY <1>2, <1>3, <1>4, <1>5, <1>6, <1>7, <1>8, <1>9, <1>10, <1>11 DEF Next
-----------------------------------------------------------------------------
(* The theorems *)

EngineInv == QueueInv /\ GameTyped /\ FiledInv /\ EarnedInv /\ DrawnInv

\* The inductive invariant that the four theorems about the engine rest on.
LEMMA EngineInvariant == Spec => []EngineInv
<1>1. Init => EngineInv
  <2> SUFFICES ASSUME Init PROVE EngineInv
    OBVIOUS
  <2>1. FiledInv
    BY DEF Init, FiledInv, Asked
  <2>2. DrawnInv
    BY DEF Init, DrawnInv
  <2>3. \A n \in 1 .. Opening : played[n] = TRUE
    BY DEF Init
  <2>4. EarnedInv
    BY <2>3 DEF Init, EarnedInv
  <2> QED BY <2>1, <2>2, <2>4, InitTyped DEF EngineInv
<1>2. EngineInv /\ [Next]_vars => EngineInv'
  <2> SUFFICES ASSUME EngineInv, [Next]_vars PROVE EngineInv'
    OBVIOUS
  <2>1. QueueInv /\ GameTyped /\ FiledInv /\ EarnedInv /\ DrawnInv
    BY DEF EngineInv
  <2>2. \A r \in Asked \cup writes : r.ply \in 1 .. Len(played)
    BY <2>1 DEF FiledInv, Filed
  <2>3. GameTyped'
    BY <2>1, <2>2, GameTypedStep
  <2> QED BY <2>1, <2>3, QueueFiledStep, EarnedStep, DrawnStep DEF EngineInv
<1> QED BY <1>1, <1>2, PTL DEF Spec

\* An answer that came in time to a question sent to an idle engine is its own: the
\* late answers of earlier searches (engine.ts, evaluateExclusive) are used up by then.
THEOREM AnswersAreTheirOwn == Spec => []AnswersCatchUp
<1>1. EngineInv => AnswersCatchUp
  BY DEF EngineInv, QueueInv, AnswersInv, Answered, AnswersCatchUp
<1> QED BY <1>1, EngineInvariant, PTL

\* runEvaluation and runAntiCheatCheck (gameManager.ts) file under the half-move that
\* they were started for, unless another was accepted while it was stored.
THEOREM AnalysesFiled == Spec => []FiledUnderItsMove
<1>1. EngineInv => FiledUnderItsMove
  BY DEF EngineInv, FiledInv, Filed, FiledUnderItsMove
<1> QED BY <1>1, EngineInvariant, PTL

\* checkAntiCheatFlags (gameManager.ts) records no flag without enough rows, or enough
\* moves that the engine would have played.
THEOREM FlagsEarned == Spec => []FlagsAreEarned
<1>1. EngineInv => FlagsAreEarned
  BY DEF EngineInv, EarnedInv, After, Earned, FlagsAreEarned
<1> QED BY <1>1, EngineInvariant, PTL

\* The flags recorded once and the evidence recomputed by the endpoint agree on every
\* player none of whose analyses was stored late.
THEOREM FlagsAndEvidence == Spec => []FlagsFollowEvidence
<1>1. EngineInv => FlagsFollowEvidence
  BY DEF EngineInv, DrawnInv, Flagged, Late, FlagsFollowEvidence
<1> QED BY <1>1, EngineInvariant, PTL
=============================================================================
