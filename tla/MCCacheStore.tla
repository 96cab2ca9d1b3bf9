---------------------------- MODULE MCCacheStore ----------------------------
(* Model values and bounds for CacheStore. *)
EXTENDS CacheStore

CONSTANTS k1, k2, s1, s2, p1, p2

MCService == k1 :> s1 @@ k2 :> s2

\* Callers are interchangeable.
MCSymmetry == Permutations({p1, p2})
=============================================================================
