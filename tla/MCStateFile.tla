----------------------------- MODULE MCStateFile -----------------------------
(* Small instances of StateFile for TLC. *)
EXTENDS StateFile

CONSTANTS s1, s2, stop
=============================================================================
