------------------------------- MODULE MCMirror -------------------------------
(* One match on a chain of a few ledgers, with pages of five events. *)
EXTENDS MirrorProperties
=============================================================================
