-------------------------- MODULE MCPauseController --------------------------
(* Small instances of PauseController for TLC. *)
EXTENDS PauseController

CONSTANTS r1, r2
=============================================================================
