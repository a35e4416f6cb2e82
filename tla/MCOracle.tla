------------------------------ MODULE MCOracle -----------------------------
(* OracleHistory on a small instance: one match, no bets, and every order  *)
(* of evaluations, threshold changes and confirmation changes.             *)
EXTENDS OracleHistory, TLC

Symm == Permutations(Accounts)

\* Decisive for either side, quiet once the threshold is 300, and mate.
EvalScores == {-9999, -250, 250, 300}
=============================================================================
