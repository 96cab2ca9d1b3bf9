--------------------------- MODULE MCServiceTraffic ---------------------------
(* Small instances of ServiceTraffic for TLC. *)
EXTENDS ServiceTraffic

CONSTANTS r1, r2

AllSettings == [retries : BOOLEAN, overlaps : BOOLEAN]
OnlyRetries == {[retries |-> TRUE, overlaps |-> FALSE]}
OnlyOverlaps == {[retries |-> FALSE, overlaps |-> TRUE]}
=============================================================================
