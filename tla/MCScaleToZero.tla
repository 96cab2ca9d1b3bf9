---------------------------- MODULE MCScaleToZero ----------------------------
(* Small instances of ScaleToZero for TLC: every load balancer has its own   *)
(* container, as when each deploy starts a new container.                    *)
EXTENDS ScaleToZero, TLC

CONSTANTS r1, r2, a, b, c, l1, l2, l3

MCRefSets == SUBSET Containers
MCContainerOf == [lb \in LBs |-> CASE lb = l1 -> a [] lb = l2 -> b [] OTHER -> c]

\* A busy service: operators deploy, and stops may fail.
Busy == [requests |-> {r1}, deploys |-> TRUE, stopsFail |-> TRUE, restarts |-> {}]

\* A steady one, with two clients, whose proxy is restarted.
Steady == [requests |-> {r1, r2}, deploys |-> FALSE, stopsFail |-> FALSE, restarts |-> {"graceful"}]

MCWorlds == {Busy, Steady}

\* Deploys alone, and a proxy that is killed.
Deploying == {[Busy EXCEPT !.stopsFail = FALSE]}
Crashing == {[Steady EXCEPT !.restarts = {"crash"}]}
=============================================================================
