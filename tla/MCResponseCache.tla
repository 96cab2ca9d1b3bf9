-------------------------- MODULE MCResponseCache --------------------------
(* Model values and bounds for ResponseCache. *)
EXTENDS ResponseCache, TLC

CONSTANTS n1, n2, r1, r2, r3, a, b

MCNodeOf == r1 :> n1 @@ r2 :> n1 @@ r3 :> n2

\* The two header values are interchangeable, and so are the two requests of n1.
MCSymmetry == Permutations({a, b}) \cup Permutations({r1, r2})
=============================================================================
