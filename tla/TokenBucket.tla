---------------------------- MODULE TokenBucket ----------------------------
(***************************************************************************)
(* The token bucket of internal/server/token_bucket.go, which bounds the   *)
(* certificate orders of the issuer and the warnings of the request gates. *)
(* A bucket is what the struct keeps: the tokens left and the instant up   *)
(* to which they have been restored.  Refilling is lazy: it happens when   *)
(* somebody takes, and moves lastRefill by whole intervals only.           *)
(***************************************************************************)
EXTENDS Integers

newTokenBucket(capacity, now) == [tokens |-> capacity, lastRefill |-> now]

refill(b, capacity, interval, now) ==
    IF b.tokens >= capacity
    THEN [b EXCEPT !.lastRefill = now]
    ELSE LET replenished == (now - b.lastRefill) \div interval
             sum         == b.tokens + replenished
         IN  [tokens     |-> IF sum < capacity THEN sum ELSE capacity,
              lastRefill |-> b.lastRefill + replenished * interval]

(* TryTake's answer, and the bucket it leaves behind. *)
MayTake(b, capacity, interval, now) == refill(b, capacity, interval, now).tokens # 0

TryTake(b, capacity, interval, now) ==
    LET f == refill(b, capacity, interval, now)
    IN  IF f.tokens = 0 THEN f ELSE [f EXCEPT !.tokens = @ - 1]
=============================================================================
