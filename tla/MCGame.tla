------------------------------- MODULE MCGame -------------------------------
(* Instances of the game manager for TLC. *)
EXTENDS GameProperties

\* What the engine says: a mate against white; or an advantage to white that
\* may evaporate.
Mate    == {[side |-> -1, mate |-> TRUE]}
Decided == {[side |-> 1, mate |-> FALSE], [side |-> 0, mate |-> FALSE]}
=============================================================================
