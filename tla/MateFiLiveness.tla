-------------------------- MODULE MateFiLiveness ---------------------------
(***************************************************************************)
(* Every reported match is eventually settled.                             *)
(*                                                                         *)
(* Fairness.  Ledger time passes.  finalize is permissionless and the      *)
(* relayer's keeper retries it on every tick (disputeWindowKeeper.ts), so  *)
(* it is not put off for ever once its window is over.  A dispute is a     *)
(* promise of the arbiter to decide.  No player, trader or oracle is fair, *)
(* and the arbiter may keep changing the window, to any length that does   *)
(* not overflow the deadline.                                              *)
(***************************************************************************)
EXTENDS MateFiSafety

ArbiterDecides(m) ==
  \E who \in Accounts, outcome \in DisputeOutcome : ResolveDispute(m, who, outcome)

Fairness ==
  /\ WF_vars(PassTime)
  /\ \A m \in MatchIds : WF_vars(Finalize(m)) /\ WF_vars(ArbiterDecides(m))

FairSpec == Spec /\ Fairness

\* A result that reached the chain, disputed or not, ends in a completed
\* match with its stakes paid out: the contracts never leave them frozen.
DecidedMatchesSettle ==
  \A m \in MatchIds :
    Decided(m) ~> (matches[m].state = "Completed" /\ Outstanding(m) = 0)
=============================================================================
