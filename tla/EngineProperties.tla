-------------------------- MODULE EngineProperties --------------------------
(***************************************************************************)
(* What can be relied on in the engine's answers and in the flags, with    *)
(* late answers, overlapping moves, failing writes and restarts.           *)
(***************************************************************************)
EXTENDS EngineQueue

Asked == {queue[i] : i \in DOMAIN queue}

\* An evaluation that timed out is answered later, by a line that settles the
\* request then running, and that one's by the next.  The shift ends at the
\* first request sent to an engine that owes nothing: its answer is its own.
AnswersCatchUp ==
  \A a \in writes : a.clean =>
    a.about = a.asks \/ (a.kind = "check" /\ a.about = Nothing)

\* submitMove reads the move number after its writes: an analysis is filed
\* under its own half-move unless another was accepted during those writes, and
\* an evaluation is always filed under the position that it is about.
FiledUnderItsMove ==
  \A r \in Asked \cup writes :
    /\ r.kind = "eval" => r.number = r.asks
    /\ r.kind = "check" => r.asks < r.number /\ (r.number = r.ply \/ overlap)

\* A recorded flag rests on enough rows after the opening, and on moves that the
\* engine really would have played, except for answers that came late.
FlagsAreEarned ==
  \A f \in flags :
    LET after  == {r \in rows : /\ Mover(r.ply) = f.player
                               /\ r.move_number > ANTICHEAT_OPENING_CUTOFF_PLY}
        earned == {r \in after : played[r.ply] \/ ~r.clean} IN
    /\ f.moves >= ANTICHEAT_MIN_MOVES /\ Cardinality(after) >= f.moves
    /\ Cardinality(earned) * 100 >= ANTICHEAT_SUSPICION_THRESHOLD * f.moves

\* The flags say what the evidence endpoint computes from the rows, once all of
\* them are recorded, unless an analysis was stored after they were drawn.
FlagsFollowEvidence ==
  tally = "recording" /\ suspects = {} =>
    \A p \in Players :
      \/ (\E f \in flags : f.player = p) <=> Suspicious(p)
      \/ \E r \in rows : r.late /\ Mover(r.ply) = p

\* Timers fire; the engine itself need not say anything at all.
Fairness ==
  /\ WF_vars(EngineStarts) /\ WF_vars(EvaluationTimeout)
  /\ WF_vars(\E w \in writes : Inserted(w))

FairSpec == Spec /\ Fairness

\* Every request is settled and its write ends, even if the engine hangs, never
\* answers the handshake or is missing: a failure does not stop the chain.
EveryRequestSettles == []<>(queue = <<>> /\ writes = {})
=============================================================================
