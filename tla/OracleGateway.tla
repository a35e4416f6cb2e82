--------------------------- MODULE OracleGateway ---------------------------
(***************************************************************************)
(* The OracleGateway contract: evaluations posted by the whitelisted       *)
(* relayer, and the signed streak of decisive ones that locks a market.    *)
(*                                                                         *)
(* An evaluation is reduced to its score: the stored EvalRecord (FEN,      *)
(* depth, timestamp) is never read by a contract.  The gating of every     *)
(* entry point to the relayer account is implicit: only the relayer posts. *)
(***************************************************************************)
EXTENDS MateFiTypes

CONSTANTS
  Scores,          \* evaluations the relayer may post, in centipawns
  Thresholds,      \* thresholds the relayer may set, invalid ones included
  Confirmations,   \* confirmation counts the relayer may set, 0 included
  MATE_SCORE,
  DEFAULT_EVAL_THRESHOLD,
  DEFAULT_LOCK_CONFIRMATIONS,
  MaxStreak        \* i32::MAX, where the streak saturates

ASSUME OracleAssumption ==
  /\ Scores \subseteq Int
  /\ Thresholds \subseteq Int
  /\ Confirmations \subseteq Nat
  /\ MATE_SCORE \in Nat
  /\ DEFAULT_EVAL_THRESHOLD \in Nat \ {0}
  /\ DEFAULT_LOCK_CONFIRMATIONS \in Nat \ {0}
  /\ MaxStreak \in Nat \ {0}

VARIABLES
  threshold,       \* DataKey::Threshold
  confirmations,   \* DataKey::Confirmations
  streak           \* DataKey::Streak: signed count of decisive evaluations

oracleVars == <<threshold, confirmations, streak>>

OracleTypeOK ==
  /\ threshold \in Int /\ threshold > 0
  /\ confirmations \in Nat /\ confirmations > 0
  /\ streak \in [MatchIds -> -(MaxStreak + 1) .. MaxStreak]

OracleInit ==
  /\ threshold = DEFAULT_EVAL_THRESHOLD
  /\ confirmations = DEFAULT_LOCK_CONFIRMATIONS
  /\ streak = [m \in MatchIds |-> 0]

Crosses(score) == score >= threshold \/ score <= -threshold

\* Mutant of NextStreak: decisive evaluations count whichever side is ahead.
StreakIgnoresSide(prev, score) ==
  IF ~Crosses(score) THEN 0 ELSE IF prev = MaxStreak THEN prev ELSE prev + 1

\* The streak after an evaluation: zero when it is not decisive, one step
\* further when it is on the same side, else started anew.  The additions
\* saturate at the ends of i32.
NextStreak(prev, score) ==
  IF ~Crosses(score) THEN 0
  ELSE IF score > 0
       THEN IF prev > 0 THEN IF prev = MaxStreak THEN prev ELSE prev + 1
                        ELSE 1
       ELSE IF prev < 0 THEN IF prev = -(MaxStreak + 1) THEN prev ELSE prev - 1
                        ELSE -1

IsMate(score) == score >= MATE_SCORE \/ score <= -MATE_SCORE

\* Does this evaluation lock the market?
Locks(m, score) ==
  LET s == NextStreak(streak[m], score) IN
  \/ IsMate(score)
  \/ s >= confirmations
  \/ -s >= confirmations

post_evaluation(m, score) ==
  /\ streak' = [streak EXCEPT ![m] = NextStreak(@, score)]
  /\ UNCHANGED <<threshold, confirmations>>

set_threshold(t) ==
  /\ t > 0
  /\ threshold' = t
  /\ UNCHANGED <<confirmations, streak>>

set_confirmations(c) ==
  /\ c >= 1
  /\ confirmations' = c
  /\ UNCHANGED <<threshold, streak>>
=============================================================================
