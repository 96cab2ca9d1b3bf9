----------------------------- MODULE LossyCache -----------------------------
(***************************************************************************)
(* What a CacheStore promises (internal/server/cache_store.go): a key holds *)
(* the last entry that was written to it or nothing, it may lose any entry  *)
(* at any time, and a Get answers with what the key holds or with nothing.  *)
(***************************************************************************)
CONSTANTS Key, Version, Proc, None

VARIABLES
    current,  \* the entry each key holds
    reply     \* what each caller's last Get returned

Init ==
    /\ current = [k \in Key |-> None]
    /\ reply = [p \in Proc |-> None]

\* One write, which may cost any other entries, or none: a loss.
Update ==
    /\ \E lost \in SUBSET Key, k \in Key, v \in Version :
         current' \in {[x \in Key |-> IF x \in lost THEN None ELSE current[x]],
                       [x \in Key |-> IF x \in lost THEN None
                                      ELSE IF x = k THEN v ELSE current[x]]}
    /\ UNCHANGED reply

\* A Get; it may discover that the entry it asked for is no longer of use.
Answer(p) ==
    \E k \in Key :
        \/ /\ reply' = [reply EXCEPT ![p] = [key |-> k, version |-> current[k]]]
           /\ UNCHANGED current
        \/ /\ reply' = [reply EXCEPT ![p] = [key |-> k, version |-> None]]
           /\ current' \in {current, [current EXCEPT ![k] = None]}

Next == Update \/ \E p \in Proc : Answer(p)

Spec == Init /\ [][Next]_<<current, reply>>
=============================================================================
