--------------------------- MODULE MCIdleController ---------------------------
(* Small instances of IdleController for TLC. *)
EXTENDS IdleController, TLC

CONSTANTS r1, r2, a, b

MCRefSets == {{a}, {a, b}}

RequestSymmetry == Permutations(Requests)
=============================================================================
