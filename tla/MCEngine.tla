------------------------------ MODULE MCEngine ------------------------------
(* The instance of the engine queue for TLC is all in MCEngine.cfg. *)
EXTENDS EngineProperties
=============================================================================
