--------------------------- MODULE OracleHistory ---------------------------
(***************************************************************************)
(* MateFiChain with the evaluations posted for each match kept as a        *)
(* history, to say when a market may and must be locked without mention of *)
(* the streak counter that the contract uses to decide it.                 *)
(***************************************************************************)
EXTENDS MateFiChain, Sequences

CONSTANT MaxEvaluations   \* bound: evaluations posted for one match

ASSUME EvaluationAssumption == MaxEvaluations \in Nat

\* The streak is an i32 and the confirmations are a u32: either a match has no
\* more evaluations than the streak can count, which in the source are more
\* than its relayer could post in sixty years, or no lock takes more.
ASSUME StreakAssumption ==
  \/ MaxEvaluations <= MaxStreak
  \/ Confirmations \cup {DEFAULT_LOCK_CONFIRMATIONS} \subseteq 0 .. MaxStreak

VARIABLE evaluations   \* match id -> evaluations in the order they were posted

historyVars == <<vars, evaluations>>

\* A posted score, whether it was decisive under the threshold of the time,
\* and how many confirmations a lock then took.
Evaluation(score) ==
  [score |-> score, decisive |-> Crosses(score), needed |-> confirmations]

HistoryInit ==
  /\ Init
  /\ evaluations = [m \in MatchIds |-> <<>>]

PostAndKeep(m, score) ==
  /\ Len(evaluations[m]) < MaxEvaluations
  /\ PostEvaluation(m, score)
  /\ evaluations' = [evaluations EXCEPT ![m] = Append(@, Evaluation(score))]

OtherSteps ==
  \/ RegistryNext
  \/ PoolNext
  \/ SettlementNext
  \/ \E m \in MatchIds, winner \in Outcome : PostResult(m, winner)
  \/ \E t \in Thresholds : SetThreshold(t)
  \/ \E c \in Confirmations : SetConfirmations(c)

HistoryNext ==
  \/ \E m \in MatchIds, score \in Scores : PostAndKeep(m, score)
  \/ OtherSteps /\ UNCHANGED evaluations

HistorySpec == HistoryInit /\ [][HistoryNext]_historyVars
-----------------------------------------------------------------------------
\* The i-th evaluation calls for a lock: it announces mate, or it ends a run
\* of enough decisive evaluations, all on its own side.
CallsForLock(es, i) ==
  \/ IsMate(es[i].score)
  \/ /\ es[i].needed <= i
     /\ \A j \in (i - es[i].needed + 1) .. i :
          es[j].decisive /\ (es[j].score > 0 <=> es[i].score > 0)

\* A market is locked exactly when some evaluation called for it: neither by
\* a spike that recovered or changed sides, nor later than the evaluation
\* that completed the run, whatever the relayer did to the threshold and the
\* confirmations in between.
LockedExactlyWhenSustained ==
  \A m \in MatchIds :
    markets[m].locked <=>
      \E i \in DOMAIN evaluations[m] : CallsForLock(evaluations[m], i)
=============================================================================
