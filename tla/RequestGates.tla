---------------------------- MODULE RequestGates ----------------------------
(***************************************************************************)
(* The checks a request passes before it may reach a target:               *)
(* serviceRequestWithTarget of internal/server/service.go, with the deny   *)
(* list (deny_list.go), the allow list (ip_allow_list.go), the redirects,  *)
(* the per-client rate limit (rate_limit.go) and basic auth                *)
(* (basic_auth.go), in the order the handler runs them.                    *)
(*                                                                         *)
(* A client's request travels through a path of hops, each a proxy the     *)
(* operator declared, and every hop appends the address it was reached     *)
(* from to the forwarded header; what the client put there itself comes    *)
(* first.  Budgets are kept per network (KeyOf: an IPv4 address, or the    *)
(* /64 of an IPv6 one) as fractions of a request: a request costs Cost     *)
(* units, a bucket gains Gain units a tick and holds Burst requests.       *)
(*                                                                         *)
(* from, spent and warned are history: what the window that opened at from *)
(* has admitted and logged.                                                *)
(***************************************************************************)
EXTENDS TokenBucket, Sequences, FiniteSets

CONSTANTS
    Address,        \* addresses of clients
    Trusted,        \* addresses of the declared proxies (--trusted-proxy)
    Garbage,        \* a forwarded entry that is not an address
    None,           \* the zero netip.Addr
    Denied,         \* --deny-ip
    Exempt,         \* --rate-limit-exempt
    Key,            \* the networks budgets are kept for
    KeyOf,          \* [Address -> Key]
    Overflow,       \* the bucket of everyone who has none
    Burst, Cost, Gain,
    MaxTracked,     \* rateLimitMaxTrackedClients
    SweepInterval,  \* rateLimitSweepInterval
    LogBurst, LogInterval,
    ChainLimit,     \* forwardedChainLimit
    Window,         \* the instants an observed window may open at
    MaxTime,        \* bound on the clock
    Service         \* [allowed: the --allow-ip list, {} for none; requests]

Full == Burst * Cost
Bucket == Key \cup {Overflow}
Warning == {"denied", "disallowed", "limited"}

ASSUME GatesAssumption ==
    /\ Burst \in Nat \ {0} /\ Cost \in Nat \ {0} /\ Gain \in Nat
    /\ MaxTracked \in Nat /\ SweepInterval \in Nat
    /\ LogBurst \in Nat \ {0} /\ LogInterval \in Nat \ {0}
    /\ ChainLimit \in Nat \ {0} /\ MaxTime \in Nat /\ Window \subseteq Nat
    /\ Overflow \notin Key /\ KeyOf \in [Address -> Key]
    /\ None \notin Address /\ Garbage \notin Address
    /\ \A s \in Service : \A r \in s.requests :
          /\ r.client \in Address /\ r.hops \in Seq(Trusted)
          /\ r.sent \in Seq(Address \cup Trusted \cup {Garbage})
    /\ Trusted \cap Address = {} /\ Garbage \notin Trusted /\ None \notin Trusted

VARIABLES
    now,
    tracked,    \* the keys of rateLimiter.buckets
    level,      \* the units in each bucket
    lastSweep,
    log,        \* the token bucket behind each kind of warning
    service,    \* the service observed
    from, spent, warned

limiter == <<tracked, level, lastSweep>>
gateVars == <<now, tracked, level, lastSweep, log, service, from, spent, warned>>

GatesInit ==
    /\ now = 0 /\ tracked = {} /\ lastSweep = 0
    /\ level = [b \in Bucket |-> Full]
    /\ log = [w \in Warning |-> newTokenBucket(LogBurst, 0)]
    /\ service \in Service
    /\ from \in Window
    /\ spent = [b \in Bucket |-> 0]
    /\ warned = [w \in Warning |-> 0]

-----------------------------------------------------------------------------
(* What reaches the proxy: the address the connection comes from and the   *)
(* forwarded chain.  Declared proxies append; they do not rewrite.         *)
Peer(r) == IF r.hops = <<>> THEN r.client ELSE r.hops[Len(r.hops)]

Chain(r) ==
    IF r.hops = <<>> THEN r.sent
    ELSE r.sent \o <<r.client>> \o SubSeq(r.hops, 1, Len(r.hops) - 1)

(* The nearest entry a proxy of ours did not write, among the last         *)
(* ChainLimit entries; an entry that is no address ends the walk.          *)
forwardedAddr(r) ==
    LET chain == Chain(r)
        first == IF Len(chain) > ChainLimit THEN Len(chain) - ChainLimit + 1 ELSE 1
        foreign == {i \in first..Len(chain) : chain[i] \notin Trusted}
        nearest == CHOOSE i \in foreign : \A j \in foreign : j <= i
    IN  IF foreign = {} \/ chain[nearest] \notin Address THEN None ELSE chain[nearest]

clientAddr(r) == IF Peer(r) \in Trusted THEN forwardedAddr(r) ELSE Peer(r)

-----------------------------------------------------------------------------
(* The rate limiter. *)

(* Mutant: the sweep forgets buckets that are still in debt. *)
sweepIfDue_Everyone == IF now - lastSweep >= SweepInterval THEN {} ELSE tracked

sweepIfDue ==
    IF now - lastSweep >= SweepInterval
    THEN {k \in tracked : level[k] < Full}
    ELSE tracked

SweptAt == IF now - lastSweep >= SweepInterval THEN now ELSE lastSweep

bucketFor(addr) ==
    IF addr = None THEN Overflow
    ELSE IF KeyOf[addr] \in sweepIfDue \/ Cardinality(sweepIfDue) < MaxTracked
         THEN KeyOf[addr]
         ELSE Overflow

(* A bucket created now is full. *)
LevelOf(b) == IF b \in sweepIfDue \cup {Overflow} THEN level[b] ELSE Full

isExempt(addr) == addr # None /\ addr \in Exempt

allow(addr) == isExempt(addr) \/ LevelOf(bucketFor(addr)) >= Cost

(* allow's effect: nothing for an exempt client, who never reaches the     *)
(* buckets; otherwise the sweep, the bucket and, if it holds a request's   *)
(* worth, the charge.                                                      *)
Charge(addr) ==
    IF isExempt(addr)
    THEN UNCHANGED <<limiter, spent>>
    ELSE LET b    == bucketFor(addr)
             paid == IF allow(addr) THEN 1 ELSE 0
         IN  /\ tracked' = sweepIfDue \cup ({b} \ {Overflow})
             /\ level' = [level EXCEPT ![b] = LevelOf(b) - paid * Cost]
             /\ lastSweep' = SweptAt
             /\ spent' = [spent EXCEPT ![b] = @ + IF now >= from THEN paid ELSE 0]

-----------------------------------------------------------------------------
(* The gates.  Probes, the proxy's own requests and health checks, are     *)
(* never denied, limited or challenged.                                    *)
deniesAddr(addr) == addr # None /\ addr \in Denied
permits(addr) == addr # None /\ addr \in service.allowed

rejectDenied(r) == ~r.probe /\ (deniesAddr(clientAddr(r)) \/ r.badAgent)
rejectDisallowedIP(r) == service.allowed # {} /\ ~r.probe /\ ~permits(clientAddr(r))
rejectRateLimited(r) == ~r.probe /\ ~allow(clientAddr(r))
rejectUnauthenticated(r) == ~r.probe /\ ~r.password

(* serviceRequestWithTarget up to the pause gate.  r.answered stands for   *)
(* the requests it answers on the way: TLS on a plain service, redirects.  *)
Verdict(r) ==
    CASE rejectDenied(r) -> "denied"
      [] ~rejectDenied(r) /\ rejectDisallowedIP(r) -> "disallowed"
      [] ~rejectDenied(r) /\ ~rejectDisallowedIP(r) ->
            IF r.answered THEN "answered"
            ELSE IF rejectRateLimited(r) THEN "limited"
            ELSE IF rejectUnauthenticated(r) THEN "challenged"
            ELSE "served"

(* Each kind of refusal warns through a bucket of its own. *)
Warn(w) ==
    /\ log' = [log EXCEPT ![w] = TryTake(@, LogBurst, LogInterval, now)]
    /\ warned' = [warned EXCEPT ![w] =
                    @ + IF now >= from /\ MayTake(log[w], LogBurst, LogInterval, now)
                        THEN 1 ELSE 0]

Refuse(r) ==
    /\ Verdict(r) \in {"denied", "disallowed"}
    /\ Warn(Verdict(r))
    /\ UNCHANGED <<limiter, spent>>

Limit(r) ==
    /\ Verdict(r) = "limited"
    /\ Charge(clientAddr(r))
    /\ Warn("limited")

Pass(r) ==
    /\ Verdict(r) \in {"challenged", "served"}
    /\ IF r.probe THEN UNCHANGED <<limiter, spent>> ELSE Charge(clientAddr(r))
    /\ UNCHANGED <<log, warned>>

serviceRequestWithTarget(r) ==
    /\ Refuse(r) \/ Limit(r) \/ Pass(r)
    /\ UNCHANGED <<now, service, from>>

(* Buckets refill with the clock. *)
Tick ==
    /\ now < MaxTime
    /\ now' = now + 1
    /\ level' = [b \in Bucket |->
                    IF b \in tracked \cup {Overflow}
                    THEN IF level[b] + Gain < Full THEN level[b] + Gain ELSE Full
                    ELSE level[b]]
    /\ UNCHANGED <<tracked, lastSweep, log, service, from, spent, warned>>

GatesNext == Tick \/ \E r \in service.requests : serviceRequestWithTarget(r)
GatesSpec == GatesInit /\ [][GatesNext]_gateVars
-----------------------------------------------------------------------------
GatesTypeOK ==
    /\ now \in 0..MaxTime /\ lastSweep \in 0..now /\ tracked \subseteq Key
    /\ level \in [Bucket -> 0..Full]
    /\ log \in [Warning -> [tokens : 0..LogBurst, lastRefill : 0..now]]
    /\ service \in Service /\ from \in Window
    /\ spent \in [Bucket -> Nat] /\ warned \in [Warning -> Nat]

(* In any window, opened at any instant, no network gets more requests    *)
(* through than the burst plus what the rate restores meanwhile: neither   *)
(* the sweep that forgets buckets nor the cap on them hands a budget back  *)
(* ("forgetting it changes no decision").  The overflow bucket keeps the   *)
(* same promise for everyone who shares it.                                *)
Ceiling ==
    now >= from => \A b \in Bucket : spent[b] * Cost <= Full + Gain * (now - from)

(* A flood of refused requests cannot flood the log: in any window of t,   *)
(* at most LogBurst + 1 warnings of a kind beyond t / LogInterval.  The    *)
(* extra one is the fraction of an interval that lazy refilling keeps.     *)
WarningCeiling ==
    now >= from =>
        \A w \in Warning :
            warned[w] * LogInterval < (LogBurst + 1) * LogInterval + (now - from)

(* The map of buckets never outgrows its cap, whatever addresses arrive.   *)
TrackedBounded == Cardinality(tracked) <= MaxTracked

(* The lists are applied to the address the request really came from, as   *)
(* the nearest declared proxy saw it, whatever the client wrote in the     *)
(* header itself: served means on the allow list, if there is one, and not *)
(* on the deny list (for a path the chain limit does not cut).             *)
ServedOnTrueAddress ==
    \A r \in service.requests : Verdict(r) = "served" /\ ~r.probe =>
        /\ service.allowed # {} => r.client \in service.allowed
        /\ Len(r.hops) <= ChainLimit => r.client \notin Denied

(* The gates hold: budgets and warnings keep their ceilings with a bounded *)
(* table, and the lists see through the header (allow, bucketFor,          *)
(* sweepIfDue, forwardedAddr).                                             *)
GatesHold == Ceiling /\ WarningCeiling /\ TrackedBounded /\ ServedOnTrueAddress
=============================================================================
