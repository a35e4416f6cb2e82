------------------------------- MODULE MCLive ------------------------------
(* MateFiLiveness on a small instance. *)
EXTENDS MateFiLiveness
=============================================================================
