---------------------------- MODULE MCLoadBalancer ----------------------------
(* Small instances of LoadBalancer for TLC. *)
EXTENDS LoadBalancer, TLC

CONSTANTS t1, t2, r1, r2

TargetSymmetry == Permutations(Targets)
BothSymmetries == Permutations(Targets) \cup Permutations(Requests)
=============================================================================
