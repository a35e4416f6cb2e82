------------------------------ MODULE MCChain ------------------------------
(* MateFiChain on small instances, whose bounds are in the cfgs: how often    *)
(* accounts trade is bounded by their funds.                                 *)
EXTENDS MateFiRefinement, TLC

Symm == Permutations(Accounts)
=============================================================================
