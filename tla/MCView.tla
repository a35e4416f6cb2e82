-------------------------------- MODULE MCView --------------------------------
(* One page of one match. *)
EXTENDS ViewProperties
=============================================================================
