----------------------------- MODULE ScaleToZero -----------------------------
(***************************************************************************)
(* A service with its idle controller and its load balancers               *)
(* (internal/server/service_idle.go, with the parts of service.go,         *)
(* router.go and load_balancer.go it drives): the hooks the controller     *)
(* calls take targets out of the pool and put them back, deploys replace a *)
(* load balancer and reconfigure the controller, and a restart rebuilds    *)
(* both from the state file.                                               *)
(*                                                                         *)
(* Each load balancer here has one target, in one container.  Probes that  *)
(* report after their prober was closed are left to LoadBalancer.          *)
(***************************************************************************)
EXTENDS IdleController

CONSTANTS
  LBs,            \* load balancers, one per deploy
  NoLB,           \* the nil load balancer
  FirstLB,        \* the one the service starts with
  ContainerOf,    \* the container behind each load balancer's target
  RolloutLBs,     \* the ones deployed to the rollout slot, not the active one
  Worlds,         \* what may happen around the service: which requests come,
                  \* whether operators deploy, whether StopContainer may report
                  \* an error, and how the proxy may be restarted
  HooksMayLag,    \* whether sleepAfter or a backoff may elapse while a wake
                  \* goroutine stands between a returned call and its next hook
  MaxRestarts

ASSUME FirstLBAssumption == FirstLB \in LBs \ RolloutLBs /\ NoLB \notin LBs
ASSUME ContainerOfAssumption == ContainerOf \in [LBs -> Containers]
ASSUME WorldsAssumption ==
  /\ Worlds \subseteq [requests : SUBSET Requests, deploys : BOOLEAN, stopsFail : BOOLEAN,
                      restarts : SUBSET {"graceful", "crash"}]
  /\ MaxRestarts \in Nat

VARIABLES
  active,      \* s.active
  rollout,     \* s.rollout
  inPool,      \* load balancers whose target is in their writers list
  probing,     \* load balancers whose target has a running health check
  healthyCtx,  \* who re-armed lb.waitForHealthyContext last, 0 for nobody
  awaits,      \* the load balancer each wake waits on in WaitUntilHealthy
  fired,       \* <<wake, lb>>: markHealthy was called on the context it waits on
  fresh,       \* load balancers not deployed yet
  installing,  \* the deploy between initialize and UpdateLoadBalancer
  saved,       \* the service's entry in the state file
  restarts,
  world        \* the one of Worlds that applies

poolVars   == <<inPool, probing, healthyCtx, awaits, fired>>
deployVars == <<active, rollout, fresh, installing>>
svcVars    == <<poolVars, deployVars, saved, restarts, world>>
allVars    == <<vars, svcVars>>

Slots == {active, rollout} \ {NoLB}

\* containerRefs: the containers of the write targets of both slots.
containerRefs(lb1, lb2) == {ContainerOf[lb] : lb \in {lb1, lb2} \ {NoLB}}

ASSUME RefsAssumption ==
  \A lb1 \in LBs, lb2 \in LBs \cup {NoLB} : containerRefs(lb1, lb2) \in RefSets

\* MarshalJSON: the fields of marshalledService this model keeps.
MarshalJSON(st, lb1, lb2, on) == [idle |-> st, active |-> lb1, rollout |-> lb2, sleeps |-> on]

\* ParseIdleState folds the transient states down to sleeping.
ParseIdleState(name) == IF name = "active" THEN "active" ELSE "sleeping"

\* A first deploy has completed: its target answered a health check, which for
\* a single target ends the health checks.
SvcInit ==
  /\ NewIdleController
  /\ state = "active" /\ generation = 1
  /\ active = FirstLB /\ rollout = NoLB
  /\ refs = containerRefs(FirstLB, NoLB)
  /\ up = Containers
  /\ inPool = {FirstLB} /\ probing = {}
  /\ healthyCtx = [lb \in LBs |-> 0]
  /\ awaits = [g \in Generations |-> NoLB]
  /\ fired = {}
  /\ fresh = LBs \ {FirstLB} /\ installing = NoLB
  /\ saved = MarshalJSON("active", FirstLB, NoLB, TRUE)
  /\ restarts = 0
  /\ world \in Worlds

-----------------------------------------------------------------------------
(* The hooks. *)

\* Mutant: health checks stop but the targets stay in the pool.
suspendForSleep_KeepsPool ==
  /\ probing' = probing \ Slots
  /\ UNCHANGED <<inPool, healthyCtx, awaits, fired>>

\* suspendForSleep: SuspendForSleep on the load balancers of this moment.
suspendForSleep ==
  /\ inPool' = inPool \ Slots
  /\ probing' = probing \ Slots
  /\ UNCHANGED <<healthyCtx, awaits, fired>>

\* resumeFromSleep up to its wait: ResumeFromSleep re-arms each context and
\* probes; the pool itself is rebuilt only when a probe succeeds.
resumeFromSleep(g) ==
  /\ probing' = probing \cup Slots
  /\ healthyCtx' = [lb \in LBs |-> IF lb \in Slots THEN g ELSE healthyCtx[lb]]
  /\ UNCHANGED <<inPool, fired>>

persistState == saved' = MarshalJSON(state, active, rollout, sleeps)

\* Mutant: an answer ends the health checks without rebuilding the pool.
Probe_LeavesPool(lb) ==
  /\ lb \in probing /\ ContainerOf[lb] \in up
  /\ probing' = probing \ {lb}
  /\ UNCHANGED <<vars, inPool, healthyCtx, awaits, fired, deployVars, saved, restarts, world>>

\* A probe succeeds: HealthCheckCompleted, then updateHealthyTargets puts the
\* target in the pool, stops probing a lone target and calls markHealthy.
Probe(lb) ==
  /\ lb \in probing /\ ContainerOf[lb] \in up
  /\ inPool' = inPool \cup {lb}
  /\ probing' = probing \ {lb}
  /\ fired' = IF healthyCtx[lb] = 0 THEN fired ELSE fired \cup {<<healthyCtx[lb], lb>>}
  /\ UNCHANGED <<vars, healthyCtx, awaits, deployVars, saved, restarts, world>>

-----------------------------------------------------------------------------
(* The controller's steps with the effect of their hooks. *)

SvcSleepStep ==
  \/ SleepSuspend /\ suspendForSleep /\ UNCHANGED <<deployVars, saved, restarts, world>>
  \/ /\ \E c \in Containers, ok, stopped \in BOOLEAN :
          (ok \/ world.stopsFail) /\ SleepStop(c, ok, stopped)
     /\ UNCHANGED svcVars
  \/ SleepDecide /\ UNCHANGED svcVars
  \/ SleepResume /\ resumeFromSleep(0) /\ UNCHANGED <<awaits, deployVars, saved, restarts, world>>
  \/ /\ SleepReturn
     /\ IF sleeper.step = "persist" THEN persistState ELSE UNCHANGED saved
     /\ UNCHANGED <<poolVars, deployVars, restarts, world>>

SvcWakeStep(g) ==
  \/ /\ \/ \E c \in Containers : WakeStarted(g, c)
        \/ \E c \in Containers, started \in BOOLEAN : WakeStartFails(g, c, started)
        \/ WakeNoBudget(g)
        \/ finishWake(g)
     /\ UNCHANGED svcVars
  \/ /\ WakeResume(g) /\ resumeFromSleep(g)
     /\ awaits' = [awaits EXCEPT ![g] = active]
     /\ UNCHANGED <<deployVars, saved, restarts, world>>
  \/ /\ \E ok \in BOOLEAN : (ok => <<g, awaits[g]>> \in fired) /\ WakeAwait(g, ok)
     /\ awaits' = [awaits EXCEPT ![g] = NoLB]
     /\ fired' = {f \in fired : f[1] # g}
     /\ UNCHANGED <<inPool, probing, healthyCtx, deployVars, saved, restarts, world>>
  \/ /\ WakeReturn(g)
     /\ IF wake[g].step = "suspend"
        THEN suspendForSleep /\ UNCHANGED saved
        ELSE persistState /\ UNCHANGED poolVars
     /\ UNCHANGED <<deployVars, restarts, world>>

\* A wake goroutine is about to call a hook.
HookDue(g) == wake[g].step = "suspend" \/ (wake[g].step = "start" /\ wake[g].todo = {})

SvcTick ==
  /\ HooksMayLag \/ \A g \in Generations : ~HookDue(g)
  /\ Tick
  /\ UNCHANGED svcVars

-----------------------------------------------------------------------------
(* Deploys. *)

\* DeployService up to UpdateOptions: createLoadBalancer waited until the new
\* target answered, and initialize reconfigures the controller while s.active
\* is still the old load balancer.
DeployInitialize(lb, on) ==
  /\ world.deploys /\ installing = NoLB /\ lb \in fresh \ RolloutLBs /\ ContainerOf[lb] \in up
  /\ installing' = lb
  /\ fresh' = fresh \ {lb}
  /\ inPool' = inPool \cup {lb}
  /\ Configure(on, IF on THEN containerRefs(active, rollout) ELSE {})
  /\ UNCHANGED <<probing, healthyCtx, awaits, fired, active, rollout, saved, restarts, world>>

\* UpdateLoadBalancer, the deferred save, and Dispose of the replaced one.
DeployInstall ==
  /\ installing # NoLB
  /\ active' = installing
  /\ installing' = NoLB
  /\ Configure(sleeps, IF sleeps THEN containerRefs(installing, rollout) ELSE {})
  /\ saved' = MarshalJSON(state', installing, rollout, sleeps)
  /\ probing' = probing \ {active}
  /\ UNCHANGED <<inPool, healthyCtx, awaits, fired, rollout, fresh, restarts, world>>

\* SetRolloutTargets: the same for the rollout slot, options untouched.
SetRolloutTargets(lb) ==
  /\ world.deploys /\ installing = NoLB /\ lb \in fresh \cap RolloutLBs /\ ContainerOf[lb] \in up
  /\ rollout' = lb
  /\ fresh' = fresh \ {lb}
  /\ Configure(sleeps, IF sleeps THEN containerRefs(active, lb) ELSE {})
  /\ saved' = MarshalJSON(state', active, lb, sleeps)
  /\ inPool' = inPool \cup {lb}
  /\ probing' = probing \ {rollout}
  /\ UNCHANGED <<healthyCtx, awaits, fired, active, installing, restarts, world>>

-----------------------------------------------------------------------------
(* Restart: a graceful stop saves the state once more, a crash does not.     *)
(* RestoreLastSavedState decodes the file with every target marked healthy,  *)
(* then SetContainerLifecycle builds the controller and, for a sleeping      *)
(* service, suspends the pool again.                                         *)

Restart(kind) ==
  /\ restarts < MaxRestarts
  /\ restarts' = restarts + 1
  /\ saved' = IF kind = "graceful" THEN MarshalJSON(state, active, rollout, sleeps) ELSE saved
  /\ active' = saved'.active /\ rollout' = saved'.rollout
  /\ state' = IF saved'.sleeps THEN ParseIdleState(saved'.idle) ELSE "active"
  /\ generation' = CASE ~saved'.sleeps -> 0
                     [] saved'.sleeps /\ state' = "active" -> 1
                     [] OTHER -> 2
  /\ refs' = IF saved'.sleeps THEN containerRefs(saved'.active, saved'.rollout) ELSE {}
  /\ sleeps' = saved'.sleeps
  /\ inflight' = 0 /\ idle' = FALSE /\ lastErr' = FALSE /\ backoff' = FALSE
  /\ disabled' = FALSE /\ cancel' = 0 /\ closed' = FALSE /\ signalled' = TRUE
  /\ req' = [r \in Requests |-> "out"]
  /\ armed' = FALSE /\ sleeper' = Running("top")
  /\ wake' = [g \in Generations |-> NoWake]
  \* A stop already accepted by the runtime is carried out regardless
  /\ up' \in {up} \cup {up \ {c} : c \in {d \in sleeper.todo : sleeper.step = "stop"}}
  /\ inPool' = IF state' = "sleeping" THEN {} ELSE {active', rollout'} \ {NoLB}
  /\ probing' = {}
  /\ healthyCtx' = [lb \in LBs |-> 0]
  /\ awaits' = [g \in Generations |-> NoLB]
  /\ fired' = {} /\ installing' = NoLB
  /\ UNCHANGED <<fresh, world>>

-----------------------------------------------------------------------------
(* The specification. *)

SvcNext ==
  \/ \E r \in world.requests : RequestStep(r) /\ UNCHANGED svcVars
  \/ RunStep /\ UNCHANGED svcVars
  \/ SvcSleepStep
  \/ \E g \in Generations : SvcWakeStep(g)
  \/ SvcTick
  \/ \E lb \in LBs : Probe(lb)
  \/ \E lb \in LBs, on \in BOOLEAN : DeployInitialize(lb, on)
  \/ DeployInstall
  \/ \E lb \in LBs : SetRolloutTargets(lb)
  \/ \E kind \in world.restarts : Restart(kind)

SvcSpec == SvcInit /\ [][SvcNext]_allVars

\* Fairness.  Container calls run under a context with a deadline and the hooks
\* under a budget, so every step of a stop or of a wake is eventually taken.
\* run's goroutine is scheduled, and its timer, re-armed with no wait left on
\* every turn of the loop while the service is idle, is picked in the end even
\* when nudges keep arriving.  Probes of a running container keep being sent
\* until one succeeds.  Nothing is assumed of requests, of operators, or of
\* BeginRequest's own deadline.
SvcFairSpec ==
  /\ SvcSpec
  /\ WF_allVars(SvcSleepStep)
  /\ WF_allVars(RunArm /\ UNCHANGED svcVars)
  /\ SF_allVars(trySleep /\ UNCHANGED svcVars)
  /\ \A g \in Generations : WF_allVars(SvcWakeStep(g))
  /\ \A lb \in LBs : WF_allVars(Probe(lb))

-----------------------------------------------------------------------------
(* Properties. *)

\* Every variable holds a value of its type.
SvcTypeOK ==
  /\ TypeOK
  /\ active \in LBs /\ rollout \in LBs \cup {NoLB} /\ installing \in LBs \cup {NoLB}
  /\ inPool \subseteq LBs /\ probing \subseteq LBs /\ fresh \subseteq LBs
  /\ healthyCtx \in [LBs -> 0..MaxGeneration]
  /\ awaits \in [Generations -> LBs \cup {NoLB}]
  /\ fired \subseteq Generations \X LBs
  /\ saved \in [idle : IdleStates, active : LBs, rollout : LBs \cup {NoLB}, sleeps : BOOLEAN]
  /\ restarts \in 0..MaxRestarts /\ world \in Worlds

\* trySleep's comment: requests are held while the pool is empty, "so an empty
\* pool is never observable".  Whenever the controller admits requests, the
\* active load balancer has a target to give them, restarts included; a stop that
\* fails and a deploy are the exceptions (NoStrandedPool).
AwakeMeansServable ==
  ~world.deploys /\ ~world.stopsFail /\ state = "active" => active \in inPool

\* A pool found empty while requests are admitted is about to be refilled: its
\* target is being probed, or a resume or the rest of a deploy is still to come.
NoStrandedPool ==
  state = "active" /\ active \notin inPool =>
    active \in probing \/ sleeper.step = "resume" \/ installing # NoLB

\* Until a deploy, that is what trySleep promises: a failed stop or a restart
\* never leaves the service awake with a pool that nothing refills.
StrandedOnlyByDeploys == fresh = LBs \ {FirstLB} => NoStrandedPool

\* While the controller admits requests, no load balancer they can reach holds
\* a target whose container the proxy has stopped.
RoutedToRunning ==
  state = "active" => \A lb \in Slots \cap inPool : ContainerOf[lb] \in up

\* Once the goroutine that put the service to sleep, or failed to wake it, has
\* run its hooks, nothing probes the stopped containers and no pool holds them.
AsleepIsQuiet ==
  (/\ state = "sleeping"
   /\ \A g \in Generations : wake[g].step # "suspend")
  => Slots \cap (inPool \cup probing) = {}

\* What is in a pool or probed runs: an awake service routes to no container that
\* was stopped, and a sleeping one neither routes nor probes (suspendForSleep,
\* resumeFromSleep).
PoolsMatchContainers == RoutedToRunning /\ AsleepIsQuiet

\* A wake reports success only after the load balancer it resumed has passed a
\* health check, so held requests are released onto a target that answered.
WokenHasAnswered ==
  \A g \in Generations :
    wake[g].step = "finish" /\ ~wake[g].failed /\ g = generation
      => active \in inPool /\ refs \subseteq up

\* A request is not let through to an empty pool: neither by a service that is
\* awake, nor at the end of a wake, nor, before a deploy, for want of anybody who
\* would refill the pool (trySleep, finishWake, resumeFromSleep).
AdmittedMeansServable == AwakeMeansServable /\ WokenHasAnswered /\ StrandedOnlyByDeploys

\* After a failed stop the service is awake with an empty pool, but health
\* checks bring a container that is still running back into it, or a deploy
\* replaces it.
FailedStopHeals ==
  (/\ state = "active" /\ active \notin inPool /\ ContainerOf[active] \in up
   /\ fresh = LBs \ {FirstLB})
    ~> (\/ active \in inPool \/ state # "active" \/ ContainerOf[active] \notin up
        \/ fresh # LBs \ {FirstLB})
=============================================================================
