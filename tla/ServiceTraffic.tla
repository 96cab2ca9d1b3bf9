---------------------------- MODULE ServiceTraffic ----------------------------
(***************************************************************************)
(* Requests, deploys and pauses of one service meeting at its active load  *)
(* balancer: Service.startLoadBalancerRequest, Router.DeployService,       *)
(* Service.Pause and Stop, Target.StartRequest and Drain, and              *)
(* LoadBalancer.serveWithRetries.                                          *)
(*                                                                         *)
(* Each load balancer has one target, which answers.  A deploy's caller    *)
(* removes the replaced container once the deploy has returned.            *)
(***************************************************************************)
EXTENDS PauseController

CONSTANTS
  MaxLBs,          \* bound on the load balancers deployed, numbered in order
  Settings         \* how the service is deployed and operated: whether it has a
                   \* retry policy, and whether pauses and deploys overlap

ASSUME TrafficAssumption ==
  MaxLBs \in Nat \ {0} /\ Settings \subseteq [retries : BOOLEAN, overlaps : BOOLEAN]

VARIABLES
  active,      \* s.active
  tstate,      \* the state of each load balancer's target
  drain,       \* the Drain in progress on it
  job,         \* what each request past the gate is doing
  cancelled,   \* requests on a target whose context a drain cancelled
  answer,      \* what each request's last visit was answered with
  deploy,      \* the deploy in progress
  pausing,     \* the Service.Pause or Service.Stop in progress
  retired,     \* load balancers whose deploy has returned: their containers go
  setting      \* the one of Settings that applies

trafficVars == <<active, tstate, drain, job, cancelled, answer, deploy, pausing, retired,
                 setting>>
allVars     == <<gateVars, trafficVars>>

LBIds    == 1..MaxLBs
NoDrain  == [on |-> FALSE, toCancel |-> {}]
NoJob    == [at |-> "none", lb |-> 0]
NoCommand == [at |-> "idle", lb |-> 0]

TrafficInit ==
  /\ PauseInit
  /\ active = 1
  /\ tstate = [l \in LBIds |-> "healthy"]
  /\ drain = [l \in LBIds |-> NoDrain]
  /\ job = [r \in Requests |-> NoJob]
  /\ cancelled = {}
  /\ answer = [r \in Requests |-> "none"]
  /\ deploy = NoCommand /\ pausing = NoCommand
  /\ retired = {} /\ setting \in Settings

inflight(l) == {r \in Requests : job[r] = [at |-> "sent", lb |-> l]}

-----------------------------------------------------------------------------
(* Requests. *)

Finish(r, how) ==
  /\ job' = [job EXCEPT ![r] = NoJob]
  /\ answer' = [answer EXCEPT ![r] = how]
  /\ gate' = [gate EXCEPT ![r] = Out]

\* Target.StartRequest on l, or the refusal of a draining target.
claimTarget(r, l) ==
  /\ tstate[l] # "draining"
  /\ job' = [job EXCEPT ![r] = [at |-> "sent", lb |-> l]]
  /\ cancelled' = cancelled \ {r}
  /\ answer' = [answer EXCEPT ![r] = "none"]
  /\ UNCHANGED gate

\* startLoadBalancerRequest, under the service's read lock: the target is claimed
\* there, or the load balancer is kept for serveWithRetries to claim from later.
startLoadBalancerRequest(r) ==
  /\ gate[r].at = "through" /\ job[r] = NoJob
  /\ \/ /\ ~setting.retries
        /\ \/ claimTarget(r, active)
           \/ tstate[active] = "draining" /\ Finish(r, "503") /\ UNCHANGED cancelled
     \/ /\ setting.retries
        /\ job' = [job EXCEPT ![r] = [at |-> "trying", lb |-> active]]
        /\ UNCHANGED <<cancelled, answer, gate>>
  /\ UNCHANGED <<pauseVars, saved, dead, active, tstate, drain, deploy, pausing, retired, setting>>

\* A turn of the retry loop: the target is claimed, or the loop waits and tries
\* again, or its deadline passes.
serveWithRetries(r) ==
  /\ job[r].at = "trying"
  /\ \/ claimTarget(r, job[r].lb)
     \/ tstate[job[r].lb] = "draining" /\ Finish(r, "503") /\ UNCHANGED cancelled
  /\ UNCHANGED <<pauseVars, saved, dead, active, tstate, drain, deploy, pausing, retired, setting>>

\* SendRequest returns.  A retryable failure sends a replayable request back to
\* the loop, and a drain's cancellation is one.
SendRequest(r) ==
  /\ job[r].at = "sent"
  /\ \/ r \notin cancelled /\ Finish(r, "ok")
     \/ r \in cancelled /\ Finish(r, "504")
     \/ /\ setting.retries
        /\ job' = [job EXCEPT ![r].at = "trying"]
        /\ UNCHANGED <<answer, gate>>
  /\ cancelled' = cancelled \ {r}
  /\ UNCHANGED <<pauseVars, saved, dead, active, tstate, drain, deploy, pausing, retired, setting>>

-----------------------------------------------------------------------------
(* Target.Drain, as a deploy or a pause p calls it. *)

\* The target turns new requests away and the ones in flight are noted.
DrainBegins(l) ==
  /\ tstate[l] # "draining"
  /\ tstate' = [tstate EXCEPT ![l] = "draining"]
  /\ drain' = [drain EXCEPT ![l] = [on |-> TRUE, toCancel |-> inflight(l)]]

\* Mutant: the requests that outlast the drain are not cancelled.
DrainReturns_NoCancel(l) ==
  /\ UNCHANGED cancelled
  /\ tstate' = [tstate EXCEPT ![l] = "healthy"]
  /\ drain' = [drain EXCEPT ![l] = NoDrain]

\* The noted requests are gone or the deadline passed: the rest are cancelled.
DrainReturns(l) ==
  /\ cancelled' = cancelled \cup (drain[l].toCancel \cap inflight(l))
  /\ tstate' = [tstate EXCEPT ![l] = "healthy"]
  /\ drain' = [drain EXCEPT ![l] = NoDrain]

\* The target is draining already: the second call returns at once.
DrainRefused(l) == tstate[l] = "draining" /\ UNCHANGED <<tstate, drain>>

-----------------------------------------------------------------------------
(* Deploys. *)

\* Mutant: the drain begins before the new load balancer is swapped in.
installLoadBalancer_DrainsFirst ==
  /\ deploy = NoCommand /\ active < MaxLBs
  /\ setting.overlaps \/ pausing = NoCommand
  /\ deploy' = [at |-> "swapped", lb |-> active]
  /\ UNCHANGED <<gateVars, active, tstate, drain, job, cancelled, answer, pausing, retired, setting>>

\* createLoadBalancer has waited for the new target; installLoadBalancer swaps.
installLoadBalancer ==
  /\ deploy = NoCommand /\ active < MaxLBs
  /\ setting.overlaps \/ pausing = NoCommand
  /\ active' = active + 1
  /\ deploy' = [at |-> "swapped", lb |-> active]
  /\ UNCHANGED <<gateVars, tstate, drain, job, cancelled, answer, pausing, retired, setting>>

\* DrainAll on the replaced load balancer.
DeployDrain ==
  /\ deploy.at = "swapped"
  /\ \/ DrainBegins(deploy.lb) /\ deploy' = [deploy EXCEPT !.at = "draining"] /\ UNCHANGED retired
     \/ DrainRefused(deploy.lb) /\ deploy' = NoCommand /\ retired' = retired \cup {deploy.lb}
  /\ UNCHANGED <<gateVars, active, job, cancelled, answer, pausing, setting>>

DeployReturns ==
  /\ deploy.at = "draining"
  /\ DrainReturns(deploy.lb)
  /\ deploy' = NoCommand
  /\ retired' = retired \cup {deploy.lb}
  /\ UNCHANGED <<gateVars, active, job, answer, pausing, setting>>

-----------------------------------------------------------------------------
(* Pauses.  Service.Drain reads s.active after the gate has been shut. *)

PauseOrStop ==
  /\ pausing = NoCommand
  /\ setting.overlaps \/ deploy = NoCommand
  /\ Pause \/ Stop
  /\ pausing' = [at |-> "shut", lb |-> 0]
  /\ UNCHANGED <<active, tstate, drain, job, cancelled, answer, deploy, retired, setting>>

PauseDrain ==
  /\ pausing.at = "shut"
  /\ \/ DrainBegins(active) /\ pausing' = [at |-> "draining", lb |-> active]
     \/ DrainRefused(active) /\ pausing' = NoCommand
  /\ UNCHANGED <<gateVars, active, job, cancelled, answer, deploy, retired, setting>>

PauseReturns ==
  /\ pausing.at = "draining"
  /\ DrainReturns(pausing.lb)
  /\ pausing' = NoCommand
  /\ UNCHANGED <<gateVars, active, job, answer, deploy, retired, setting>>

-----------------------------------------------------------------------------
(* The specification. *)

TrafficNext ==
  \/ \E r \in Requests :
       \/ GateStep(r) /\ UNCHANGED trafficVars
       \/ startLoadBalancerRequest(r) \/ serveWithRetries(r) \/ SendRequest(r)
  \/ installLoadBalancer \/ DeployDrain \/ DeployReturns
  \/ PauseOrStop \/ PauseDrain \/ PauseReturns
  \/ (Resume \/ Save) /\ UNCHANGED trafficVars

TrafficSpec == TrafficInit /\ [][TrafficNext]_allVars

-----------------------------------------------------------------------------
(* Properties. *)

\* Every variable holds a value of its type.
TrafficTypeOK ==
  /\ PauseTypeOK
  /\ active \in LBIds
  /\ tstate \in [LBIds -> {"healthy", "draining"}]
  /\ drain \in [LBIds -> [on : BOOLEAN, toCancel : SUBSET Requests]]
  /\ job \in [Requests -> [at : {"none", "trying", "sent"}, lb : 0..MaxLBs]]
  /\ cancelled \subseteq Requests
  /\ answer \in [Requests -> {"none", "ok", "503", "504"}]
  /\ deploy \in [at : {"idle", "swapped", "draining"}, lb : 0..MaxLBs]
  /\ pausing \in [at : {"idle", "shut", "draining"}, lb : 0..MaxLBs]
  /\ retired \subseteq LBIds /\ setting \in Settings

\* README: "traffic is drained completely from old instances before they are
\* removed".  When a deploy has returned, what is still on the load balancer it
\* replaced has been cancelled.
DrainedBeforeRemoved == \A l \in retired : inflight(l) \subseteq cancelled

\* It holds for requests that are not retried and deploys that no pause overlaps.
DeployDrains == ~setting.retries /\ ~setting.overlaps => DrainedBeforeRemoved

Refused(r) == answer[r] # "503" /\ answer'[r] = "503"

\* No request is refused because of a deploy: the swap and a claim exclude each
\* other, and the drain starts after the swap.  Only a pause or a stop draining
\* the load balancer in service turns one away, or the end of its retries.
DeployRefusesNothing ==
  [][\A r \in Requests :
       Refused(r) => setting.retries \/ pausing.at = "draining"]_allVars

\* The pause command's --max-pause is "how long to enqueue requests before
\* shedding load": only a stopped service refuses a request at once.
PauseEnqueues ==
  [][\A r \in Requests : Refused(r) => pstate = "stopped"]_allVars

\* A drain in progress has noted every request on its target, so none outlives
\* it uncancelled.
DrainNotesAll == \A l \in LBIds : drain[l].on => inflight(l) \subseteq drain[l].toCancel
=============================================================================
