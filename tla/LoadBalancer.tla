----------------------------- MODULE LoadBalancer -----------------------------
(***************************************************************************)
(* One load balancer, its targets and their health-check goroutines        *)
(* (internal/server/load_balancer.go, target.go, health_check.go).         *)
(*                                                                         *)
(* A prober's answer, HealthCheckCompleted's update of the target under    *)
(* its own lock, and the update of the pool under the load balancer's lock *)
(* are three steps, between which the prober may be closed, the pool       *)
(* suspended for sleep, or the target drained.                             *)
(***************************************************************************)
EXTENDS Naturals, FiniteSets

CONSTANTS
  Targets,        \* targets a load balancer may have, every one a writer
  Requests,
  MaxProbers,     \* bound on BeginHealthChecks per target
  MaxFlips,       \* bound on targets starting and ceasing to answer
  Races           \* the rare interleavings an instance lets happen:
                  \*   late report: a closed prober reports an answer it holds
                  \*   stray resume: a superseded wake resumes an awake pool
                  \*   drain across sleep: a drain overlaps a suspend or resume
                  \*   drain while probing: a drain of a pool in service

ASSUME TargetsAssumption == Targets # {} /\ IsFiniteSet(Targets)
ASSUME ProbersAssumption == MaxProbers \in Nat /\ MaxProbers >= 1
ASSUME RacesAssumption ==
  Races \subseteq {"late report", "stray resume", "drain across sleep", "drain while probing"}

VARIABLES
  all,         \* lb.all: the targets this load balancer has
  tstate,      \* t.state
  probe,       \* t's probers: whether open, and the answer each one holds
  probers,     \* how many probers t has had
  pool,        \* lb.writers
  marked,      \* markHealthy was called on the current waitForHealthyContext
  waiter,      \* the caller of WaitUntilHealthy: a deploy, or a wake
  persistent,  \* lb.persistentHealthChecks
  drain,       \* the Drain in progress on each target
  inflight,    \* t.inflight
  cancelled,   \* requests whose context was cancelled by a drain
  hijacked,    \* requests with inflightRequest.hijacked set
  suspended,   \* the last of SuspendForSleep and ResumeFromSleep was the former
  disposed,    \* Dispose was called: a deploy replaced this load balancer
  answered,    \* targets whose answer was reported since the context was armed
  alive,       \* external: targets that answer their health check
  flips

probeVars   == <<probe, probers>>
healthVars  == <<pool, marked, waiter, persistent, answered>>
requestVars == <<inflight, cancelled, hijacked>>
worldVars   == <<all, alive, flips>>
napVars     == <<suspended, disposed>>
vars == <<tstate, probeVars, healthVars, drain, requestVars, napVars, worldVars>>

TargetStates == {"adding", "draining", "healthy", "unhealthy"}
Held   == {"none", "ok", "fail", "notify"}
Probes == [open : BOOLEAN, held : Held]
Ids    == 1..MaxProbers
NoProbe == [open |-> FALSE, held |-> "none"]

Drains == [on : BOOLEAN, original : TargetStates, toCancel : SUBSET Requests]
NoDrain == [on |-> FALSE, original |-> "healthy", toCancel |-> {}]

multiTarget == Cardinality(all) > 1

-----------------------------------------------------------------------------
(* Health checks. *)

\* HealthCheck.Close: an outstanding request is abandoned; an answer already
\* received may still be reported.
Close(p) ==
  [open |-> FALSE,
   held |-> IF "late report" \in Races \/ p.held = "notify" THEN p.held ELSE "none"]

\* TargetList.StopHealthChecks
StopHealthChecks(ps) == [t \in Targets |-> [i \in Ids |-> Close(ps[t][i])]]

\* TargetList.BeginHealthChecks: each target replaces its prober.
BeginHealthChecks ==
  /\ \A t \in all : probers[t] < MaxProbers
  /\ probers' = [t \in Targets |-> IF t \in all THEN probers[t] + 1 ELSE probers[t]]
  /\ probe' = [t \in Targets |->
       [i \in Ids |-> IF t \in all /\ i = probers'[t] THEN [open |-> TRUE, held |-> "none"]
                     ELSE Close(probe[t][i])]]

\* check: the target answers, or does not, while the prober is open.
Check(t, i) ==
  /\ probe[t][i] = [open |-> TRUE, held |-> "none"]
  /\ probe' = [probe EXCEPT ![t][i].held = IF t \in alive THEN "ok" ELSE "fail"]
  /\ UNCHANGED <<tstate, probers, healthVars, drain, requestVars, napVars, worldVars>>

\* Mutant: a failed check changes the target's state without a notification.
HealthCheckCompleted_Silent(t, i) ==
  LET success == probe[t][i].held = "ok"
      new == IF success THEN "healthy"
             ELSE IF tstate[t] = "healthy" THEN "unhealthy" ELSE tstate[t]
  IN /\ probe[t][i].held \in {"ok", "fail"}
     /\ tstate' = [tstate EXCEPT ![t] = new]
     /\ probe' = [probe EXCEPT ![t][i].held =
                    IF success /\ new # tstate[t] THEN "notify" ELSE "none"]
     /\ answered' = IF success THEN answered \cup {t} ELSE answered
     /\ UNCHANGED <<probers, pool, marked, waiter, persistent, drain, requestVars,
                    napVars, worldVars>>

\* HealthCheckCompleted under the target's lock.  A success makes the target
\* healthy whatever it was; a failure only demotes a healthy one.
HealthCheckCompleted(t, i) ==
  LET success == probe[t][i].held = "ok"
      new == IF success THEN "healthy"
             ELSE IF tstate[t] = "healthy" THEN "unhealthy" ELSE tstate[t]
  IN /\ probe[t][i].held \in {"ok", "fail"}
     /\ tstate' = [tstate EXCEPT ![t] = new]
     /\ probe' = [probe EXCEPT ![t][i].held = IF new # tstate[t] THEN "notify" ELSE "none"]
     /\ answered' = IF success THEN answered \cup {t} ELSE answered
     /\ UNCHANGED <<probers, pool, marked, waiter, persistent, drain, requestVars,
                    napVars, worldVars>>

\* updateHealthyTargets: ps is the probers as the step leaves them otherwise.
updateHealthyTargets(ps) ==
  LET healthy == {t \in all : tstate[t] = "healthy"}
  IN /\ pool' = healthy
     /\ probe' = IF ~multiTarget /\ healthy # {} /\ ~persistent
                 THEN StopHealthChecks(ps) ELSE ps
     /\ marked' = (marked \/ healthy = all)

\* TargetStateChanged, outside the target's lock.
TargetStateChanged(t, i) ==
  /\ probe[t][i].held = "notify"
  /\ updateHealthyTargets([probe EXCEPT ![t][i].held = "none"])
  /\ UNCHANGED <<tstate, probers, waiter, persistent, answered, drain, requestVars,
                 napVars, worldVars>>

-----------------------------------------------------------------------------
(* Initial states. *)

InitCommon ==
  /\ drain = [t \in Targets |-> NoDrain]
  /\ inflight = [t \in Targets |-> {}]
  /\ cancelled = {} /\ hijacked = {}
  /\ suspended = FALSE /\ disposed = FALSE
  /\ alive \in SUBSET all /\ flips = 0
  /\ probers = [t \in Targets |-> 1]

FirstProber(open) == [i \in Ids |-> [open |-> open /\ i = 1, held |-> "none"]]

\* NewLoadBalancer, with createLoadBalancer waiting for it to become healthy
\* before it is installed, or a forced deploy not waiting.
NewLoadBalancer ==
  /\ all \in (SUBSET Targets) \ {{}}
  /\ tstate = [t \in Targets |-> "adding"]
  /\ probe = [t \in Targets |-> FirstProber(t \in all)]
  /\ pool = {} /\ marked = FALSE /\ waiter \in {"deploying", "none"}
  /\ persistent = FALSE /\ answered = {}
  /\ InitCommon

\* A restored one: MarkAllHealthy vouches for targets nobody has asked yet.
MarkAllHealthy ==
  /\ all \in (SUBSET Targets) \ {{}}
  /\ tstate = [t \in Targets |-> "healthy"]
  /\ probe = [t \in Targets |-> FirstProber(multiTarget /\ t \in all)]
  /\ pool = all /\ marked = TRUE /\ waiter = "none"
  /\ persistent = FALSE /\ answered = all
  /\ InitCommon

Init == NewLoadBalancer \/ MarkAllHealthy

-----------------------------------------------------------------------------
(* Operations on the load balancer. *)

NoDrainInTheWay == "drain across sleep" \in Races \/ \A t \in Targets : ~drain[t].on

\* RecheckHealth: a restored pool is probed for the rest of its life.  The
\* restore calls it before any sleep, drain or deploy.
RecheckHealth ==
  /\ ~persistent /\ ~suspended /\ ~disposed /\ \A t \in Targets : ~drain[t].on
  /\ persistent' = TRUE
  /\ BeginHealthChecks
  /\ UNCHANGED <<tstate, pool, marked, waiter, answered, drain, requestVars,
                 napVars, worldVars>>

\* SuspendForSleep, called by the idle controller when no request is in flight.
SuspendForSleep ==
  /\ ~suspended /\ ~disposed /\ waiter \in {"none", "healthy"}
  /\ \A t \in Targets : inflight[t] = {}
  /\ NoDrainInTheWay
  /\ probe' = StopHealthChecks(probe)
  /\ tstate' = [t \in Targets |-> "unhealthy"]
  /\ pool' = {}
  /\ suspended' = TRUE
  /\ UNCHANGED <<probers, marked, waiter, persistent, answered, drain, requestVars,
                 disposed, worldVars>>

\* Mutant: waitForHealthyContext is not re-armed.
ResumeFromSleep_KeepsContext ==
  /\ ~disposed /\ waiter # "deploying"
  /\ suspended \/ waiter = "failed" \/ "stray resume" \in Races
  /\ NoDrainInTheWay
  /\ waiter' = "waiting"
  /\ answered' = {}
  /\ tstate' = [t \in Targets |-> "adding"]
  /\ BeginHealthChecks
  /\ suspended' = FALSE
  /\ UNCHANGED <<pool, marked, persistent, drain, requestVars, disposed, worldVars>>

\* ResumeFromSleep, and the call to WaitUntilHealthy that follows it, of a wake
\* or of the retry of one that failed.  A caller still waiting on the replaced
\* context is left to its deadline.
ResumeFromSleep ==
  /\ ~disposed /\ waiter # "deploying"
  /\ suspended \/ waiter = "failed" \/ "stray resume" \in Races
  /\ NoDrainInTheWay
  /\ marked' = FALSE
  /\ waiter' = "waiting"
  /\ answered' = {}
  /\ tstate' = [t \in Targets |-> "adding"]
  /\ BeginHealthChecks
  /\ suspended' = FALSE
  /\ UNCHANGED <<pool, persistent, drain, requestVars, disposed, worldVars>>

\* WaitUntilHealthy returns: the context was cancelled, or the deadline passed,
\* and createLoadBalancer disposes of a load balancer that is not to be installed.
WaitUntilHealthy ==
  /\ waiter \in {"deploying", "waiting"}
  /\ waiter' = IF marked THEN "healthy" ELSE "failed"
  /\ IF waiter = "deploying" /\ ~marked
     THEN probe' = StopHealthChecks(probe) /\ disposed' = TRUE
     ELSE UNCHANGED <<probe, disposed>>
  /\ UNCHANGED <<tstate, probers, pool, marked, persistent, answered, drain,
                 requestVars, suspended, worldVars>>

\* Dispose: what a deploy does to the load balancer it replaced.
Dispose ==
  /\ waiter # "deploying"
  /\ probe' = StopHealthChecks(probe)
  /\ disposed' = TRUE
  /\ UNCHANGED <<tstate, probers, healthVars, drain, requestVars, suspended, worldVars>>

-----------------------------------------------------------------------------
(* Requests and draining. *)

ServedBy(r) == {t \in Targets : r \in inflight[t]}

\* Mutant: a draining target takes new requests.
claimTarget_WhileDraining(r, t) ==
  /\ waiter # "deploying" /\ ServedBy(r) = {}
  /\ t \in pool
  /\ inflight' = [inflight EXCEPT ![t] = @ \cup {r}]
  /\ cancelled' = cancelled \ {r}
  /\ hijacked' = hijacked \ {r}
  /\ UNCHANGED <<tstate, probeVars, healthVars, drain, napVars, worldVars>>

\* claimTarget: the rotation picks some target of the pool, and a draining one
\* turns the request away, which leaves everything as it was.
claimTarget(r, t) ==
  /\ waiter # "deploying" /\ ServedBy(r) = {}
  /\ t \in pool /\ tstate[t] # "draining"
  /\ inflight' = [inflight EXCEPT ![t] = @ \cup {r}]
  /\ cancelled' = cancelled \ {r}
  /\ hijacked' = hijacked \ {r}
  /\ UNCHANGED <<tstate, probeVars, healthVars, drain, napVars, worldVars>>

\* A WebSocket upgrade takes over the connection.
Hijack(r, t) ==
  /\ r \in inflight[t] /\ r \notin hijacked
  /\ hijacked' = hijacked \cup {r}
  /\ UNCHANGED <<tstate, probeVars, healthVars, drain, inflight, cancelled, napVars, worldVars>>

endInflightRequest(r, t) ==
  /\ r \in inflight[t]
  /\ inflight' = [inflight EXCEPT ![t] = @ \ {r}]
  /\ UNCHANGED <<tstate, probeVars, healthVars, drain, cancelled, hijacked, napVars, worldVars>>

NotProbed(t) == \A i \in Ids : probe[t][i] = NoProbe

\* Drain: a second call returns at once.  The requests in flight are noted and
\* the hijacked ones cancelled.
Drain(t) ==
  /\ waiter # "deploying" /\ tstate[t] # "draining" /\ ~drain[t].on
  /\ "drain while probing" \in Races \/ disposed \/ NotProbed(t)
  /\ drain' = [drain EXCEPT ![t] = [on |-> TRUE, original |-> tstate[t], toCancel |-> inflight[t]]]
  /\ tstate' = [tstate EXCEPT ![t] = "draining"]
  /\ cancelled' = cancelled \cup (inflight[t] \cap hijacked)
  /\ UNCHANGED <<probeVars, healthVars, inflight, hijacked, napVars, worldVars>>

\* The wait ends, with every noted request gone or at the deadline; the rest
\* are cancelled and the deferred update puts the original state back.
DrainReturns(t) ==
  /\ drain[t].on
  /\ cancelled' = cancelled \cup (drain[t].toCancel \cap inflight[t])
  /\ tstate' = [tstate EXCEPT ![t] = drain[t].original]
  /\ drain' = [drain EXCEPT ![t] = NoDrain]
  /\ UNCHANGED <<probeVars, healthVars, inflight, hijacked, napVars, worldVars>>

-----------------------------------------------------------------------------
(* External: a target starts or stops answering. *)

Flip(t) ==
  /\ flips < MaxFlips
  /\ flips' = flips + 1
  /\ alive' = IF t \in alive THEN alive \ {t} ELSE alive \cup {t}
  /\ UNCHANGED <<all, tstate, probeVars, healthVars, drain, requestVars, napVars>>

-----------------------------------------------------------------------------
(* The specification. *)

ProbeStep(t) ==
  \E i \in Ids : Check(t, i) \/ HealthCheckCompleted(t, i) \/ TargetStateChanged(t, i)

RequestStep ==
  \E r \in Requests, t \in all :
    claimTarget(r, t) \/ Hijack(r, t) \/ endInflightRequest(r, t)

DrainStep == \E t \in all : Drain(t) \/ DrainReturns(t)

Next ==
  \/ \E t \in all : ProbeStep(t) \/ Flip(t)
  \/ RecheckHealth \/ SuspendForSleep \/ ResumeFromSleep \/ WaitUntilHealthy \/ Dispose
  \/ RequestStep
  \/ DrainStep

Spec == Init /\ [][Next]_vars

-----------------------------------------------------------------------------
(* Properties. *)

\* Every variable holds a value of its type.
TypeOK ==
  /\ tstate \in [Targets -> TargetStates]
  /\ probe \in [Targets -> [Ids -> Probes]]
  /\ probers \in [Targets -> Ids]
  /\ all \subseteq Targets /\ pool \subseteq all /\ answered \subseteq all /\ alive \subseteq all
  /\ marked \in BOOLEAN /\ persistent \in BOOLEAN
  /\ suspended \in BOOLEAN /\ disposed \in BOOLEAN
  /\ waiter \in {"none", "deploying", "waiting", "healthy", "failed"}
  /\ drain \in [Targets -> Drains]
  /\ inflight \in [Targets -> SUBSET Requests]
  /\ cancelled \subseteq Requests /\ hijacked \subseteq Requests
  /\ flips \in 0..MaxFlips

NoNotify == \A t \in Targets, i \in Ids : probe[t][i].held # "notify"

\* The pool of a service that is awake or suspended offers exactly its healthy
\* targets whenever no update of it is on its way, through sleeps, wakes and
\* drains, and whatever the probers report.  (ResumeFromSleep leaves the pool
\* alone, so the retry of a failed wake may start with targets in it.)
PoolIsHealthyTargets ==
  LET settled == /\ NoNotify /\ \A t \in Targets : ~drain[t].on
                 /\ ~disposed /\ waiter \in {"none", "healthy"}
  IN settled => pool = {t \in all : tstate[t] = "healthy"}

\* ResumeFromSleep's comment: WaitUntilHealthy must not return nil "against a
\* container that has not started".  The context is cancelled only once every
\* target has answered since it was armed.
HealthyMeansAnswered == marked => answered = all

\* While a target drains, no request is on it that the drain will not wait for
\* or cancel.
DrainCoversInflight ==
  \A t \in Targets : drain[t].on => inflight[t] \subseteq drain[t].toCancel

\* SuspendForSleep's comment: a stopped container "is neither routed to nor
\* dialled ... for the whole nap".
SuspendedStaysEmpty == suspended => pool = {}

\* The pool is right: the healthy targets while the service is awake, none while
\* it is suspended (updateHealthyTargets, SuspendForSleep).
PoolIsRight == PoolIsHealthyTargets /\ SuspendedStaysEmpty
=============================================================================
