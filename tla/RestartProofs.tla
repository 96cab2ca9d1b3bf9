--------------------------- MODULE RestartProofs ----------------------------
(***************************************************************************)
(* What outlives a restart, for every instance: the pause gate of a service*)
(* and the traffic behind it, and the certificate store on disk.           *)
(***************************************************************************)
EXTENDS ServiceTraffic, CertStore, TLAPS

\* Zenon proves most leaves; one that needs SMT says so.
USE ZenonT(60)

-----------------------------------------------------------------------------
(***************************************************************************)
(* PauseController and ServiceTraffic, for any requests, any number of pauses*)
(* and deploys, with and without retries, overlapping pauses and restarts. *)
(***************************************************************************)
-----------------------------------------------------------------------------
(* The pause gate. *)

GateInv == PauseTypeOK /\ NoOrphanWaiter

\* A request that has left is one of the states of the pause gate.
LEMMA OutType == Out \in GateStates /\ Out.at = "out"
  BY MaxPausesAssumption, SMTT(60) DEF Out, GateStates, Channels

\* The gate's invariant holds when the proxy starts, and each step of a request,
\* an operator or a restart keeps it.
LEMMA GateStarts == PauseInit => GateInv
  <1>. SUFFICES ASSUME PauseInit PROVE GateInv
    OBVIOUS
  <1>1. gate \in [Requests -> GateStates] /\ \A r \in Requests : gate[r].at # "waiting"
    BY OutType DEF PauseInit
  <1>2. PauseTypeOK
    <2>1. pstate \in PauseStates /\ saved \in PauseStates /\ dead \in BOOLEAN
      BY DEF PauseInit, PauseStates
    <2>2. channel \in Channels /\ made \in Channels
      BY MaxPausesAssumption, SMTT(60) DEF PauseInit, Channels
    <2>3. closed \subseteq (Channels \ {0})
      BY DEF PauseInit
    <2>. QED  BY <1>1, <2>1, <2>2, <2>3 DEF PauseTypeOK
  <1>. QED  BY <1>1, <1>2 DEF GateInv, NoOrphanWaiter

\* Every step of the pause gate preserves its invariant.
LEMMA GateKept == GateInv /\ [PauseNext]_gateVars => GateInv'
  <1>. SUFFICES ASSUME GateInv, [PauseNext]_gateVars PROVE GateInv'
    OBVIOUS
  <1>. USE MaxPausesAssumption DEF GateInv, PauseTypeOK, NoOrphanWaiter, PauseStates, Channels
  <1>1. ASSUME NEW r \in Requests, Wait(r) PROVE GateInv'
    BY <1>1, SMTT(60) DEF Wait, pauseVars, GateStates
  <1>2. ASSUME NEW r \in Requests, WaitReleased(r) PROVE GateInv'
    BY <1>2, SMTT(60) DEF WaitReleased, pauseVars, GateStates
  <1>3. ASSUME NEW r \in Requests, WaitTimesOut(r) PROVE GateInv'
    BY <1>3, SMTT(60) DEF WaitTimesOut, pauseVars, GateStates
  <1>4. ASSUME NEW r \in Requests, Rejected(r) \/ Leave(r) PROVE GateInv'
    BY <1>4, OutType DEF Rejected, Leave, pauseVars
  <1>5. ASSUME NEW new \in {"running", "stopped"}, setState(new), UNCHANGED <<gate, saved>>
        PROVE GateInv'
    BY <1>5 DEF setState, pauseVars
  <1>6. CASE Pause
    BY <1>6, SMTT(60) DEF Pause
  <1>7. CASE Save
    BY <1>7 DEF Save, pauseVars
  <1>8. CASE Restart
    <2>1. gate' \in [Requests -> GateStates] /\ \A r \in Requests : gate'[r].at # "waiting"
      BY <1>8, OutType DEF Restart
    <2>2. pstate' \in PauseStates /\ saved' \in PauseStates /\ dead' \in BOOLEAN
      BY <1>8 DEF Restart
    <2>3. channel' \in Channels /\ made' \in Channels /\ closed' \subseteq (Channels \ {0})
      BY <1>8, SMTT(60) DEF Restart
    <2>. QED  BY <2>1, <2>2, <2>3
  <1>9. CASE UNCHANGED gateVars
    BY <1>9 DEF gateVars, pauseVars
  <1>. QED
    BY <1>1, <1>2, <1>3, <1>4, <1>5, <1>6, <1>7, <1>8, <1>9
    DEF PauseNext, GateStep, Stop, Resume

\* A request held by a pause waits on a channel that is closed or that the
\* pause in force closes when it ends (Wait, setState, Pause), whatever the
\* commands and across restarts.
THEOREM WaitersAreHeld == PauseSpec => []NoOrphanWaiter
  <1>1. GateInv => NoOrphanWaiter
    BY DEF GateInv
  <1>. QED  BY <1>1, GateStarts, GateKept, PTL DEF PauseSpec

-----------------------------------------------------------------------------
(* Traffic through deploys. *)

TrafficTypes ==
  /\ active \in LBIds
  /\ tstate \in [LBIds -> {"healthy", "draining"}]
  /\ drain \in [LBIds -> [on : BOOLEAN, toCancel : SUBSET Requests]]
  /\ job \in [Requests -> [at : {"none", "trying", "sent"}, lb : 0..MaxLBs]]
  /\ answer \in [Requests -> {"none", "ok", "503", "504"}]
  /\ deploy \in [at : {"idle", "swapped", "draining"}, lb : 0..MaxLBs]
  /\ pausing \in [at : {"idle", "shut", "draining"}, lb : 0..MaxLBs]
  /\ setting \in Settings

\* Requests are on load balancers that exist; only a retry policy makes one try.
JobInv ==
  \A r \in Requests :
    /\ job[r].at # "none" => job[r].lb \in 1..active
    /\ job[r].at = "trying" => setting.retries

\* A deploy drains a load balancer it has replaced.
DeployInv ==
  /\ deploy.at # "idle" => deploy.lb \in LBIds /\ deploy.lb < active
  /\ deploy.at = "idle" => deploy = NoCommand
  /\ pausing.at = "idle" => pausing = NoCommand
  /\ pausing.at = "draining" => pausing.lb \in LBIds
  /\ \A l \in retired : l \in LBIds /\ l < active
  /\ ~setting.overlaps => deploy = NoCommand \/ pausing = NoCommand

\* A draining target has one drain, and the drain one caller.
DrainInv ==
  /\ \A l \in LBIds :
       /\ drain[l].on <=> tstate[l] = "draining"
       /\ drain[l].on => \/ deploy = [at |-> "draining", lb |-> l]
                         \/ pausing = [at |-> "draining", lb |-> l]
  /\ deploy.at = "draining" => drain[deploy.lb].on
  /\ pausing.at = "draining" => drain[pausing.lb].on
  /\ deploy.at = "draining" /\ pausing.at = "draining" => deploy.lb # pausing.lb

TrafficInv ==
  TrafficTypes /\ JobInv /\ DeployInv /\ DrainInv /\ DrainNotesAll /\ DeployDrains

\* A service without traffic satisfies the inductive invariant.
LEMMA TrafficStarts == TrafficInit => TrafficInv
  BY TrafficAssumption, SMTT(60)
  DEF TrafficInit, TrafficInv, TrafficTypes, JobInv, DeployInv, DrainInv, DrainNotesAll,
      DeployDrains, DrainedBeforeRemoved, inflight, LBIds, NoDrain, NoJob, NoCommand

\* The settings are pairs of flags.
LEMMA SettingType == TrafficTypes => setting.retries \in BOOLEAN /\ setting.overlaps \in BOOLEAN
  BY TrafficAssumption DEF TrafficTypes

\* A request that is given a target, leaves one, or goes back to the loop.
LEMMA RequestKeeps ==
  ASSUME TrafficInv, NEW r \in Requests,
         startLoadBalancerRequest(r) \/ serveWithRetries(r) \/ SendRequest(r)
  PROVE  TrafficInv'
  <1>. USE TrafficAssumption DEF TrafficInv, LBIds
  <1>. DEFINE Job == [at : {"none", "trying", "sent"}, lb : 0..MaxLBs]
              Moves(j) == /\ job' = [job EXCEPT ![r] = j]
                          /\ j.at # "none" => j.lb \in 1..active
                          /\ j.at = "trying" => setting.retries
                          /\ j.at = "sent" => tstate[j.lb] # "draining"
                          /\ ~setting.retries /\ j.at # "none" => j.lb = active
  <1>0. setting.retries \in BOOLEAN /\ setting.overlaps \in BOOLEAN
    BY SettingType
  <1>1. /\ UNCHANGED <<active, tstate, drain, deploy, pausing, retired, setting>>
        /\ answer' \in [Requests -> {"none", "ok", "503", "504"}]
        /\ cancelled \subseteq cancelled' \cup {r}
    BY DEF startLoadBalancerRequest, serveWithRetries, SendRequest, claimTarget, Finish, TrafficTypes
  <1>2. PICK j \in Job : Moves(j)
    <2>0. NoJob \in Job /\ NoJob.at = "none" /\ job[r] \in Job /\ active \in 1..MaxLBs
      BY SMTT(60) DEF NoJob, TrafficTypes
    <2>1. ASSUME NEW how, Finish(r, how) PROVE Moves(NoJob)
      BY <2>0, <2>1 DEF Finish
    <2>2. ASSUME NEW l \in 1..active, claimTarget(r, l), ~setting.retries => l = active
          PROVE  [at |-> "sent", lb |-> l] \in Job /\ Moves([at |-> "sent", lb |-> l])
      BY <2>0, <2>2, SMTT(60) DEF claimTarget
    <2>3. ASSUME NEW l \in 1..active, setting.retries,
                 job' = [job EXCEPT ![r] = [at |-> "trying", lb |-> l]]
          PROVE  [at |-> "trying", lb |-> l] \in Job /\ Moves([at |-> "trying", lb |-> l])
      BY <2>0, <2>3, SMTT(60)
    <2>4. CASE startLoadBalancerRequest(r)
      BY <2>0, <2>1, <2>2, <2>3, <2>4, SMTT(60) DEF startLoadBalancerRequest
    <2>5. CASE serveWithRetries(r)
      BY <2>0, <2>1, <2>2, <2>5 DEF serveWithRetries, JobInv
    <2>6. CASE SendRequest(r)
      <3>1. job[r].lb \in 1..active
        BY <2>6 DEF SendRequest, JobInv
      <3>2. [job[r] EXCEPT !.at = "trying"] = [at |-> "trying", lb |-> job[r].lb]
        BY <2>0, SMTT(60)
      <3>. QED  BY <2>0, <2>1, <2>3, <2>6, <3>1, <3>2 DEF SendRequest, TrafficTypes
    <2>. QED  BY <2>4, <2>5, <2>6
  <1>3. TrafficTypes' /\ JobInv'
    BY <1>1, <1>2 DEF TrafficTypes, JobInv
  <1>4. DeployInv' /\ DrainInv'
    BY <1>1 DEF DeployInv, DrainInv
  <1>5. \A l \in LBIds : inflight(l)' \subseteq inflight(l) \cup {r}
    BY <1>2 DEF inflight, TrafficTypes
  <1>6. \A l \in LBIds : r \in inflight(l)' => j = [at |-> "sent", lb |-> l]
    BY <1>2 DEF inflight, TrafficTypes
  <1>7. DrainNotesAll'
    BY <1>1, <1>2, <1>5, <1>6, SMTT(60) DEF DrainNotesAll, DrainInv
  <1>8. DeployDrains'
    <2>. SUFFICES ASSUME ~setting.retries, ~setting.overlaps, NEW l \in retired
                  PROVE  inflight(l)' \subseteq cancelled'
      BY <1>1 DEF DeployDrains, DrainedBeforeRemoved
    <2>1. l \in LBIds /\ l # active
      BY SMTT(60) DEF DeployInv, TrafficTypes
    <2>2. r \notin inflight(l)'
      BY <1>2, <1>6, <2>1, SMTT(60)
    <2>3. inflight(l) \subseteq cancelled
      BY DEF DeployDrains, DrainedBeforeRemoved
    <2>. QED  BY <1>1, <1>5, <2>1, <2>2, <2>3
  <1>. QED  BY <1>3, <1>4, <1>7, <1>8

\* A deploy.
LEMMA DeployKeeps ==
  ASSUME TrafficInv, installLoadBalancer \/ DeployDrain \/ DeployReturns
  PROVE  TrafficInv'
  <1>. USE TrafficAssumption DEF TrafficInv, LBIds, NoCommand
  <1>0. setting.retries \in BOOLEAN /\ setting.overlaps \in BOOLEAN
    BY SettingType
  <1>1. CASE installLoadBalancer
    <2>1. TrafficTypes' /\ JobInv' /\ DeployInv'
      BY <1>1, SMTT(60) DEF installLoadBalancer, TrafficTypes, JobInv, DeployInv
    <2>2. DrainInv'
      BY <1>1 DEF installLoadBalancer, TrafficTypes, DeployInv, DrainInv
    <2>3. DrainNotesAll' /\ DeployDrains'
      BY <1>1 DEF installLoadBalancer, DrainNotesAll, DeployDrains, DrainedBeforeRemoved, inflight
    <2>. QED  BY <2>1, <2>2, <2>3
  <1>2. CASE DeployDrain
    <2>1. deploy.at = "swapped" /\ deploy.lb \in LBIds /\ deploy.lb < active
      BY <1>2 DEF DeployDrain, DeployInv
    <2>2. CASE DrainBegins(deploy.lb) /\ deploy' = [deploy EXCEPT !.at = "draining"]
                /\ UNCHANGED retired
      <3>0. deploy' = [at |-> "draining", lb |-> deploy.lb]
        BY <2>2 DEF TrafficTypes
      <3>1. TrafficTypes'
        BY <1>2, <2>1, <2>2, <3>0 DEF DeployDrain, DrainBegins, inflight, TrafficTypes
      <3>4. JobInv' /\ DeployInv'
        BY <1>2, <2>1, <2>2, <3>0, SMTT(60) DEF DeployDrain, JobInv, DeployInv
      <3>2. DrainInv'
        <4>1. /\ tstate[deploy.lb] # "draining" /\ ~drain[deploy.lb].on
              /\ UNCHANGED <<active, pausing>>
          BY <1>2, <2>1, <2>2 DEF DeployDrain, DrainBegins, DrainInv
        <4>2. \A l \in LBIds :
                /\ drain'[l].on <=> drain[l].on \/ l = deploy.lb
                /\ tstate'[l] = IF l = deploy.lb THEN "draining" ELSE tstate[l]
          BY <2>1, <2>2 DEF DrainBegins, TrafficTypes
        <4>. QED  BY <2>1, <3>0, <4>1, <4>2, SMTT(60) DEF DrainInv, DeployInv
      <3>3. DrainNotesAll' /\ DeployDrains'
        BY <1>2, <2>1, <2>2
        DEF DeployDrain, DrainBegins, inflight, TrafficTypes, DrainNotesAll, DeployDrains,
            DrainedBeforeRemoved
      <3>. QED  BY <3>1, <3>2, <3>3, <3>4
    <2>3. CASE DrainRefused(deploy.lb) /\ deploy' = NoCommand /\ retired' = retired \cup {deploy.lb}
      <3>1. setting.overlaps
        BY <1>0, <2>1, <2>3, SMTT(60) DEF DrainRefused, DrainInv, DeployInv
      <3>2. TrafficTypes' /\ JobInv' /\ DeployInv'
        BY <1>2, <2>1, <2>3, SMTT(60) DEF DeployDrain, DrainRefused, TrafficTypes, JobInv, DeployInv
      <3>3. DrainInv' /\ DrainNotesAll'
        BY <1>2, <2>1, <2>3, SMTT(60) DEF DeployDrain, DrainRefused, DrainInv, DrainNotesAll, inflight
      <3>4. DeployDrains'
        BY <1>2, <3>1 DEF DeployDrain, DeployDrains
      <3>. QED  BY <3>2, <3>3, <3>4
    <2>. QED  BY <1>2, <2>2, <2>3 DEF DeployDrain
  <1>3. CASE DeployReturns
    <2>1. deploy.at = "draining" /\ deploy.lb \in LBIds /\ deploy.lb < active /\ drain[deploy.lb].on
      BY <1>3 DEF DeployReturns, DeployInv, DrainInv
    <2>2. TrafficTypes' /\ JobInv' /\ DeployInv'
      BY <1>3, <2>1, SMTT(60)
      DEF DeployReturns, DrainReturns, NoDrain, TrafficTypes, JobInv, DeployInv
    <2>3. DrainInv'
      <3>1. \A l \in LBIds :
              /\ drain'[l].on <=> drain[l].on /\ l # deploy.lb
              /\ tstate'[l] = IF l = deploy.lb THEN "healthy" ELSE tstate[l]
        BY <1>3, <2>1 DEF DeployReturns, DrainReturns, NoDrain, TrafficTypes
      <3>2. deploy' = NoCommand /\ UNCHANGED pausing
        BY <1>3 DEF DeployReturns
      <3>. QED  BY <2>1, <3>1, <3>2, SMTT(60) DEF DrainInv, DeployInv
    <2>4. \A l \in LBIds : inflight(l)' = inflight(l)
      BY <1>3 DEF DeployReturns, inflight
    <2>5. DrainNotesAll'
      BY <1>3, <2>1, <2>4 DEF DeployReturns, DrainReturns, NoDrain, TrafficTypes, DrainNotesAll
    <2>6. inflight(deploy.lb) \subseteq cancelled' /\ cancelled \subseteq cancelled'
      BY <1>3, <2>1 DEF DeployReturns, DrainReturns, DrainNotesAll
    <2>7. DeployDrains'
      BY <1>3, <2>1, <2>4, <2>6
      DEF DeployReturns, DeployInv, DeployDrains, DrainedBeforeRemoved
    <2>. QED  BY <2>2, <2>3, <2>5, <2>7
  <1>. QED  BY <1>1, <1>2, <1>3

\* A pause or a stop.
LEMMA PauseKeeps ==
  ASSUME TrafficInv, PauseOrStop \/ PauseDrain \/ PauseReturns
  PROVE  TrafficInv'
  <1>. USE TrafficAssumption DEF TrafficInv, LBIds, NoCommand
  <1>1. CASE PauseOrStop
    <2>1. TrafficTypes' /\ JobInv' /\ DeployInv'
      BY <1>1 DEF PauseOrStop, TrafficTypes, JobInv, DeployInv
    <2>2. DrainInv' /\ DrainNotesAll' /\ DeployDrains'
      BY <1>1
      DEF PauseOrStop, DrainInv, DrainNotesAll, DeployDrains, DrainedBeforeRemoved, inflight
    <2>. QED  BY <2>1, <2>2
  <1>2. CASE PauseDrain
    <2>1. CASE DrainBegins(active) /\ pausing' = [at |-> "draining", lb |-> active]
      <3>1. TrafficTypes' /\ JobInv' /\ DeployInv'
        BY <1>2, <2>1, SMTT(60) DEF PauseDrain, DrainBegins, inflight, TrafficTypes, JobInv, DeployInv
      <3>2. DrainInv'
        BY <1>2, <2>1, SMTT(60) DEF PauseDrain, DrainBegins, inflight, TrafficTypes, DeployInv, DrainInv
      <3>3. DrainNotesAll' /\ DeployDrains'
        BY <1>2, <2>1
        DEF PauseDrain, DrainBegins, inflight, TrafficTypes, DrainNotesAll, DeployDrains,
            DrainedBeforeRemoved
      <3>. QED  BY <3>1, <3>2, <3>3
    <2>2. CASE DrainRefused(active) /\ pausing' = NoCommand
      <3>1. TrafficTypes' /\ JobInv' /\ DeployInv'
        BY <1>2, <2>2, SMTT(60) DEF PauseDrain, DrainRefused, TrafficTypes, JobInv, DeployInv
      <3>2. DrainInv' /\ DrainNotesAll' /\ DeployDrains'
        BY <1>2, <2>2, SMTT(60)
        DEF PauseDrain, DrainRefused, DrainInv, DrainNotesAll, DeployDrains,
            DrainedBeforeRemoved, inflight
      <3>. QED  BY <3>1, <3>2
    <2>. QED  BY <1>2, <2>1, <2>2 DEF PauseDrain
  <1>3. CASE PauseReturns
    <2>1. pausing.at = "draining" /\ pausing.lb \in LBIds
      BY <1>3 DEF PauseReturns, DeployInv
    <2>2. TrafficTypes' /\ JobInv' /\ DeployInv'
      BY <1>3, <2>1, SMTT(60) DEF PauseReturns, DrainReturns, NoDrain, TrafficTypes, JobInv, DeployInv
    <2>3. DrainInv'
      <3>1. \A l \in LBIds :
              /\ drain'[l].on <=> drain[l].on /\ l # pausing.lb
              /\ tstate'[l] = IF l = pausing.lb THEN "healthy" ELSE tstate[l]
        BY <1>3, <2>1 DEF PauseReturns, DrainReturns, NoDrain, TrafficTypes
      <3>2. pausing' = NoCommand /\ UNCHANGED deploy
        BY <1>3 DEF PauseReturns
      <3>. QED  BY <2>1, <3>1, <3>2, SMTT(60) DEF DrainInv, DeployInv
    <2>4. DrainNotesAll' /\ DeployDrains'
      BY <1>3, <2>1
      DEF PauseReturns, DrainReturns, NoDrain, inflight, TrafficTypes, DrainNotesAll,
          DeployDrains, DrainedBeforeRemoved
    <2>. QED  BY <2>2, <2>3, <2>4
  <1>. QED  BY <1>1, <1>2, <1>3

\* Every step of the traffic preserves the inductive invariant.
LEMMA TrafficKept == TrafficInv /\ [TrafficNext]_allVars => TrafficInv'
  <1>. SUFFICES ASSUME TrafficInv, [TrafficNext]_allVars PROVE TrafficInv'
    OBVIOUS
  <1>1. CASE UNCHANGED trafficVars
    BY <1>1
    DEF trafficVars, TrafficInv, TrafficTypes, JobInv, DeployInv, DrainInv, DrainNotesAll,
        DeployDrains, DrainedBeforeRemoved, inflight
  <1>. QED
    BY <1>1, RequestKeeps, DeployKeeps, PauseKeeps DEF TrafficNext, allVars

\* When a deploy returns, what is still on the load balancer it replaced was
\* cancelled (Target.Drain, DeployService), for a service without retries whose
\* pauses and deploys do not overlap, and any number of requests and deploys.
THEOREM DeploysDrain == TrafficSpec => []DeployDrains
  <1>1. TrafficInv => DeployDrains
    BY DEF TrafficInv
  <1>. QED  BY <1>1, TrafficStarts, TrafficKept, PTL DEF TrafficSpec

\* No request is refused because of a deploy (startLoadBalancerRequest and
\* installLoadBalancer): a draining load balancer in service is a pause's doing.
THEOREM DeploysRefuseNothing == TrafficSpec => DeployRefusesNothing
  <1>1. ASSUME TrafficInv, [TrafficNext]_allVars, NEW r \in Requests, Refused(r)
        PROVE  setting.retries \/ pausing.at = "draining"
    <2>1. PICK q \in Requests :
            startLoadBalancerRequest(q) \/ serveWithRetries(q) \/ SendRequest(q)
      BY <1>1
      DEF TrafficNext, Refused, allVars, trafficVars, installLoadBalancer, DeployDrain,
          DeployReturns, PauseOrStop, PauseDrain, PauseReturns
    <2>2. q = r
      BY <1>1, <2>1
      DEF Refused, startLoadBalancerRequest, serveWithRetries, SendRequest, claimTarget, Finish,
          TrafficInv, TrafficTypes
    <2>3. CASE startLoadBalancerRequest(r)
      BY <1>1, <2>3, SMTT(60)
      DEF Refused, startLoadBalancerRequest, claimTarget, Finish, TrafficInv, TrafficTypes,
          DrainInv, DeployInv
    <2>4. CASE serveWithRetries(r)
      BY <1>1, <2>4 DEF serveWithRetries, TrafficInv, JobInv
    <2>5. ~SendRequest(r)
      BY <1>1 DEF Refused, SendRequest, Finish, TrafficInv, TrafficTypes
    <2>. QED  BY <2>1, <2>2, <2>3, <2>4, <2>5
  <1>2. TrafficInv /\ [TrafficNext]_allVars
          => [\A r \in Requests : Refused(r) => setting.retries \/ pausing.at = "draining"]_allVars
    BY <1>1
  <1>. QED
    BY <1>2, TrafficStarts, TrafficKept, PTL DEF TrafficSpec, DeployRefusesNothing

-----------------------------------------------------------------------------
(***************************************************************************)
(* The certificate store on disk, for any certificates, domains and caches,*)
(* any number of restarts, and wherever an operation is cut short.         *)
(***************************************************************************)
StateRecord == [certs : [Id -> Nat], map : [Domain -> Id \cup {None}]]

CacheEntry == [id : Id, cert : Nat]

\* The variables but op.
StoreTypes ==
    /\ certificates \in [Id -> Nat] /\ loaded \in [Id -> Nat]
    /\ domainToCert \in [Domain -> Id \cup {None}]
    /\ certFile \in [Id -> Nat] /\ keyFile \in [Id -> Nat]
    /\ stateFile \in StateRecord \cup {None}
    /\ legacy \subseteq CacheEntry
    /\ issued \in Nat
    /\ archive # None => archive.state \in StateRecord /\ archive.pairs \in [Id -> Nat]

\* A step of writing a pair.
Writing == {"cert", "key", "written"}

\* The operation at work: what the proxy does, and the offline commands.
AdoptOp(o) ==
    o.kind = "adopt" =>
        /\ {"pc", "id", "cert", "boot"} \subseteq DOMAIN o
        /\ o.pc \in Writing /\ o.id \in Id /\ o.cert \in Nat \ {0}
        /\ o.boot # None => o.boot.todo \subseteq CacheEntry

RemoveOp(o) ==
    o.kind = "remove" => /\ {"pc", "id"} \subseteq DOMAIN o
                         /\ o.pc \in {"unlink", "removed"} /\ o.id \in Id

BootOp(o) ==
    o.kind = "boot" => /\ {"pc", "todo", "failed", "imported"} \subseteq DOMAIN o
                       /\ o.pc = "import" /\ o.todo \subseteq CacheEntry

RestoreOp(o) ==
    o.kind = "restore" =>
        /\ {"pc", "id", "cert", "todo", "fresh"} \subseteq DOMAIN o
        /\ o.pc \in Writing \cup {"next", "stale", "done"}
        /\ archive # None
        /\ o.pc \in Writing => /\ o.id \in Managed(archive.pairs)
                               /\ o.cert = archive.pairs[o.id]

ImportOp(o) ==
    o.kind = "import" =>
        /\ {"pc", "id", "cert", "k", "by", "state"} \subseteq DOMAIN o
        /\ o.pc \in Writing \cup {"entry"}
        /\ o.pc \in Writing => o.id \in Id /\ o.cert \in Nat \ {0}
        /\ o.k \in Nat \ {0}
        /\ o.state \in StateRecord

Kind == {None, "adopt", "remove", "boot", "restore", "import"}

OpShape ==
    /\ "kind" \in DOMAIN op /\ op.kind \in Kind
    /\ AdoptOp(op) /\ RemoveOp(op) /\ BootOp(op) /\ RestoreOp(op) /\ ImportOp(op)
    /\ op.kind \in {"boot", "restore", "import"} \/ (op.kind = "adopt" /\ op.boot # None) => ~up

\* What validateManagerState demands, also of the state an import builds.
Trusted ==
    /\ stateFile # None => validateManagerState(stateFile)
    /\ validateManagerState(Snapshot)
    /\ archive # None => validate(archive)
    /\ op.kind = "import" => validateManagerState(op.state)

\* The certificates the state file has a record of, and the pair on disk.
Recorded == IF stateFile = None THEN NoCert ELSE stateFile.certs

Pair(i) == IF Parses(i) THEN certFile[i] ELSE 0

\* The certificate in memory is the pair on disk, which is what the record says.
Kept(i) == loaded[i] = Pair(i) /\ Pair(i) \in {0, certificates[i]}

Written(i) == certFile[i] = op.cert /\ keyFile[i] = op.cert

\* As long as nothing failed and nothing was cut short: memory, state file and
\* pairs agree between operations, and but for its own certificate during one.
Settled ==
    op.kind \in {None, "boot"} =>
        /\ \A i \in Id : Recorded[i] # 0 => Pair(i) \in {0, Recorded[i]}
        /\ up \/ op.kind = "boot" => /\ certificates = Recorded
                                     /\ \A i \in Id : certificates[i] # 0 => Kept(i)

Working ==
    /\ op.kind = "adopt" =>
         /\ certificates[op.id] = op.cert /\ loaded[op.id] = op.cert
         /\ \A i \in Id \ {op.id} : certificates[i] # 0 => Kept(i)
         /\ op.pc = "key" => certFile[op.id] = op.cert
         /\ op.pc = "written" => Written(op.id)
    /\ op.kind = "remove" => certificates[op.id] = 0 /\ \A i \in Id : certificates[i] # 0 => Kept(i)

Importing ==
    op.kind = "import" =>
        /\ \A i \in Id : op.state.certs[i] # 0 /\ (op.pc \in {"key", "written"} => i # op.id) =>
              Pair(i) \in {0, op.state.certs[i]}
        /\ op.pc = "key" => certFile[op.id] = op.cert
        /\ op.pc = "written" => Written(op.id)

InSync == clean => Settled /\ Working /\ Importing

\* A restore has put in place what it is past, and the state file after all of it.
Restoring ==
    op.kind = "restore" =>
        /\ \A i \in Managed(archive.pairs) \ op.todo :
              i # op.id \/ op.pc \notin {"cert", "key"} =>
                 certFile[i] = archive.pairs[i] /\ keyFile[i] = archive.pairs[i]
        /\ op.todo \subseteq Managed(archive.pairs)
        /\ op.pc = "key" => certFile[op.id] = op.cert
        /\ op.pc \in {"stale", "done"} => op.todo = {} /\ stateFile = archive.state
        /\ op.pc = "done" => \A i \in Stale : certFile[i] = 0 /\ keyFile[i] = 0
        /\ op.fresh /\ op.pc \notin {"stale", "done"} => stateFile = None

StoreInv == StoreTypes /\ OpShape /\ Trusted /\ InSync /\ Restoring

\* None is told apart from the operations and from a state file.
LEMMA NoneIsApart ==
    ASSUME StoreConstants
    PROVE  None \notin {"adopt", "remove", "boot", "restore", "import"} /\ None \notin StateRecord
    BY DEF StoreConstants, StateRecord

\* What the CA issues and the caches hold are certificates of identifiers.
LEMMA EntriesTyped ==
    ASSUME StoreConstants
    PROVE  /\ Ordered \in Seq(Nat \ {0}) /\ Legacy \subseteq SUBSET CacheEntry
           /\ Traefik \in Seq([id : Id, cert : Nat \ {0}])
    BY DEF StoreConstants, CacheEntry

\* The invariant is what the runs check.
LEMMA StoreInvSuffices ==
    ASSUME StoreConstants, StoreInv
    PROVE  /\ StateIsTrustworthy /\ HealthyExports
           /\ RestartServesSame /\ RestoresWhole
<1>1. StateIsTrustworthy
    BY DEF StoreInv, Trusted, StateIsTrustworthy
<1>2. HealthyExports
    <2> SUFFICES ASSUME clean, op.kind = None, stateFile # None
                 PROVE  validate(Collected)
        BY DEF HealthyExports
    <2>1. Collected.state = stateFile /\ Collected.pairs = [i \in Id |-> Pair(i)]
        BY DEF Collected, Pair
    <2>2. \A i \in Id : stateFile.certs[i] # 0 => Pair(i) \in {0, stateFile.certs[i]}
        BY DEF StoreInv, InSync, Settled, Recorded
    <2>3. validateManagerState(stateFile)
        BY DEF StoreInv, Trusted
    <2> QED BY <2>1, <2>2, <2>3 DEF validate, Managed
<1>3. RestartServesSame
    <2> SUFFICES ASSUME clean, up, op.kind = None, certificates # NoCert
                 PROVE  /\ stateFile # None /\ stateFile.certs = certificates
                        /\ \A i \in Managed(certificates) : loaded[i] = Pair(i)
        BY DEF RestartServesSame, Pair
    <2>1. certificates = Recorded /\ \A i \in Id : certificates[i] # 0 => Kept(i)
        BY DEF StoreInv, InSync, Settled
    <2> QED BY <2>1 DEF Recorded, Kept, Managed
<1>4. RestoresWhole
    <2>1. RestoredAsArchived
        <3> SUFFICES ASSUME op.kind = "restore", op.pc = "done"
                     PROVE  /\ stateFile = archive.state
                            /\ \A i \in Managed(archive.pairs) \cup Managed(archive.state.certs) :
                                  certFile[i] = archive.pairs[i] /\ keyFile[i] = archive.pairs[i]
            BY DEF RestoredAsArchived
        <3>1. /\ stateFile = archive.state
              /\ \A i \in Managed(archive.pairs) :
                    certFile[i] = archive.pairs[i] /\ keyFile[i] = archive.pairs[i]
              /\ \A i \in Stale : certFile[i] = 0 /\ keyFile[i] = 0
            BY DEF StoreInv, Restoring
        <3>2. archive.pairs \in [Id -> Nat] /\ archive.state # None
            BY NoneIsApart DEF StoreInv, StoreTypes, StateRecord, OpShape, RestoreOp
        <3> QED BY <3>1, <3>2 DEF Managed, Stale
    <2>2. RestoreCommitsLast
        <3> SUFFICES ASSUME op.kind = "restore", op.fresh, stateFile # None,
                            NEW i \in Managed(archive.pairs)
                     PROVE  Parses(i)
            BY DEF RestoreCommitsLast
        <3>1. op.pc \in {"stale", "done"} /\ op.todo = {}
            BY DEF StoreInv, Restoring
        <3> QED BY <3>1, SMTT(60) DEF StoreInv, Restoring, Managed, Parses
    <2> QED BY <2>1, <2>2 DEF RestoresWhole
<1> QED BY <1>1, <1>2, <1>3, <1>4

-----------------------------------------------------------------------------
\* Moving an operation on changes only where it is.
Same(o, p) ==
    /\ DOMAIN o = DOMAIN p
    /\ "kind" \in DOMAIN p => o.kind = p.kind
    /\ "id" \in DOMAIN p => o.id = p.id
    /\ "cert" \in DOMAIN p => o.cert = p.cert
    /\ "boot" \in DOMAIN p => o.boot = p.boot
    /\ "todo" \in DOMAIN p => o.todo = p.todo
    /\ "fresh" \in DOMAIN p => o.fresh = p.fresh
    /\ "failed" \in DOMAIN p => o.failed = p.failed
    /\ "imported" \in DOMAIN p => o.imported = p.imported
    /\ "k" \in DOMAIN p => o.k = p.k
    /\ "by" \in DOMAIN p => o.by = p.by
    /\ "state" \in DOMAIN p => o.state = p.state

LEMMA OpMoves ==
    ASSUME NEW o, NEW x, "pc" \in DOMAIN o
    PROVE  [o EXCEPT !.pc = x].pc = x /\ Same([o EXCEPT !.pc = x], o)
    BY DEF Same

\* What leaves the files, the maps and the archive alone keeps their types.
LEMMA TypesStay ==
    ASSUME StoreInv, UNCHANGED <<certificates, loaded, domainToCert, certFile, keyFile, stateFile, legacy, archive>>,
           issued' \in Nat
    PROVE  StoreTypes'
    BY DEF StoreInv, StoreTypes

\* The first file of a pair is renamed into place.
LEMMA RenameCertKeeps ==
    ASSUME StoreConstants, StoreInv, RenameCert
    PROVE  StoreInv'
<1>1. /\ op.kind # None /\ op.pc = "cert" /\ certFile' = [certFile EXCEPT ![op.id] = op.cert]
      /\ op' = [op EXCEPT !.pc = "key"]
      /\ up' = up /\ certificates' = certificates /\ loaded' = loaded /\ domainToCert' = domainToCert /\ keyFile' = keyFile
      /\ stateFile' = stateFile /\ legacy' = legacy /\ archive' = archive /\ issued' = issued
      /\ clean' = clean
    BY DEF RenameCert, memory, counters
<1>2. /\ op.kind \in {"adopt", "restore", "import"} /\ op.id \in Id /\ op.cert \in Nat \ {0}
      /\ {"kind", "pc", "id", "cert"} \subseteq DOMAIN op
    BY <1>1 DEF StoreInv, StoreTypes, OpShape, Kind, Writing, AdoptOp, RemoveOp, BootOp, RestoreOp, ImportOp,
           Managed
<1>3. op'.pc = "key" /\ Same(op', op)
    BY <1>1, <1>2, OpMoves
<1>4. StoreTypes'
    BY <1>1, <1>2 DEF StoreInv, StoreTypes
<1>5. OpShape'
    BY <1>1, <1>2, <1>3 DEF StoreInv, OpShape, AdoptOp, RemoveOp, BootOp, RestoreOp, ImportOp, Writing, Same,
           Managed
<1>6. Trusted'
    BY <1>1, <1>2, <1>3, SMTT(60) DEF StoreInv, Trusted, Same, validateManagerState, validate, Snapshot,
           Managed
<1>7. InSync'
    <2>1. ASSUME NEW i \in Id \ {op.id} PROVE Pair(i)' = Pair(i) /\ Kept(i)' = Kept(i)
        BY <1>1, <1>2, <2>1 DEF Pair, Kept, Parses, StoreInv, StoreTypes
    <2>2. certFile'[op.id] = op.cert
        BY <1>1, <1>2 DEF StoreInv, StoreTypes
    <2>3. Settled'
        BY <1>2, <1>3, NoneIsApart DEF Settled, Same
    <2>4. ASSUME clean, op.kind = "adopt" PROVE Working'
        BY <1>1, <1>2, <1>3, <2>1, <2>2, <2>4, SMTT(60) DEF StoreInv, InSync, Working, Same
    <2>5. op.kind # "adopt" => Working'
        BY <1>2, <1>3 DEF Working, Same
    <2>6. ASSUME clean, op.kind = "import" PROVE Importing'
        BY <1>1, <1>2, <1>3, <2>1, <2>2, <2>6, SMTT(60) DEF StoreInv, InSync, Importing, Same
    <2>7. op.kind # "import" => Importing'
        BY <1>2, <1>3 DEF Importing, Same
    <2> QED BY <1>1, <2>3, <2>4, <2>5, <2>6, <2>7 DEF InSync
<1>8. Restoring'
    BY <1>1, <1>2, <1>3, SMTT(60) DEF StoreInv, StoreTypes, Restoring, Same, Managed
<1> QED BY <1>4, <1>5, <1>6, <1>7, <1>8 DEF StoreInv

\* The second file follows it.
LEMMA RenameKeyKeeps ==
    ASSUME StoreConstants, StoreInv, RenameKey
    PROVE  StoreInv'
<1>1. /\ op.kind # None /\ op.pc = "key" /\ keyFile' = [keyFile EXCEPT ![op.id] = op.cert]
      /\ op' = [op EXCEPT !.pc = "written"]
      /\ up' = up /\ certificates' = certificates /\ loaded' = loaded /\ domainToCert' = domainToCert /\ certFile' = certFile
      /\ stateFile' = stateFile /\ legacy' = legacy /\ archive' = archive /\ issued' = issued
      /\ clean' = clean
    BY DEF RenameKey, memory, counters
<1>2. /\ op.kind \in {"adopt", "restore", "import"} /\ op.id \in Id /\ op.cert \in Nat \ {0}
      /\ {"kind", "pc", "id", "cert"} \subseteq DOMAIN op
    BY <1>1 DEF StoreInv, StoreTypes, OpShape, Kind, Writing, AdoptOp, RemoveOp, BootOp, RestoreOp, ImportOp,
           Managed
<1>3. op'.pc = "written" /\ Same(op', op)
    BY <1>1, <1>2, OpMoves
<1>4. StoreTypes'
    BY <1>1, <1>2 DEF StoreInv, StoreTypes
<1>5. OpShape'
    BY <1>1, <1>2, <1>3 DEF StoreInv, OpShape, AdoptOp, RemoveOp, BootOp, RestoreOp, ImportOp, Writing, Same,
           Managed
<1>6. Trusted'
    BY <1>1, <1>2, <1>3, SMTT(60) DEF StoreInv, Trusted, Same, validateManagerState, validate, Snapshot,
           Managed
<1>7. InSync'
    <2>1. ASSUME NEW i \in Id \ {op.id} PROVE Pair(i)' = Pair(i) /\ Kept(i)' = Kept(i)
        BY <1>1, <1>2, <2>1 DEF Pair, Kept, Parses, StoreInv, StoreTypes
    <2>2. keyFile'[op.id] = op.cert
        BY <1>1, <1>2 DEF StoreInv, StoreTypes
    <2>3. Settled'
        BY <1>2, <1>3, NoneIsApart DEF Settled, Same
    <2>4. ASSUME clean, op.kind = "adopt" PROVE Working'
        BY <1>1, <1>2, <1>3, <2>1, <2>2, <2>4, SMTT(60) DEF StoreInv, InSync, Working, Same, Written
    <2>5. op.kind # "adopt" => Working'
        BY <1>2, <1>3 DEF Working, Same
    <2>6. ASSUME clean, op.kind = "import" PROVE Importing'
        BY <1>1, <1>2, <1>3, <2>1, <2>2, <2>6, SMTT(60) DEF StoreInv, InSync, Importing, Same, Written
    <2>7. op.kind # "import" => Importing'
        BY <1>2, <1>3 DEF Importing, Same
    <2> QED BY <1>1, <2>3, <2>4, <2>5, <2>6, <2>7 DEF InSync
<1>8. Restoring'
    BY <1>1, <1>2, <1>3, SMTT(60) DEF StoreInv, StoreTypes, Restoring, Same, Managed, OpShape, RestoreOp, Writing
<1> QED BY <1>4, <1>5, <1>6, <1>7, <1>8 DEF StoreInv

\* An operation that ends uncleanly leaves only what holds of the disk.
LEMMA EndsUnclean ==
    ASSUME StoreConstants, StoreInv, op' = Idle, ~clean', StoreTypes', Trusted'
    PROVE  StoreInv'
<1>1. op'.kind = None /\ "kind" \in DOMAIN op'
    BY DEF Idle
<1> QED BY <1>1, NoneIsApart DEF StoreInv, OpShape, Kind, AdoptOp, RemoveOp, BootOp, RestoreOp, ImportOp,
               InSync, Restoring

\* With the maps, the state file and the archive unchanged, what is trusted stays so.
LEMMA TrustStays ==
    ASSUME StoreInv, UNCHANGED <<certificates, domainToCert, stateFile, archive>>,
           op'.kind = "import" => op.kind = "import" /\ op'.state = op.state
    PROVE  Trusted'
    BY DEF StoreInv, Trusted, validateManagerState, validate, Snapshot, Managed

\* A write that fails: the manager goes on, an offline command gives up.
LEMMA WriteFailsKeeps ==
    ASSUME StoreConstants, StoreInv, WriteFails
    PROVE  StoreInv'
<1>1. /\ op.kind # None /\ op.pc \in {"cert", "key"} /\ clean' = FALSE
      /\ op' = IF op.kind = "adopt" THEN [op EXCEPT !.pc = "written"] ELSE Idle
      /\ up' = up /\ certificates' = certificates /\ loaded' = loaded /\ domainToCert' = domainToCert
      /\ certFile' = certFile /\ keyFile' = keyFile
      /\ stateFile' = stateFile /\ legacy' = legacy /\ archive' = archive /\ issued' = issued
    BY DEF WriteFails, memory, counters, files
<1>2. StoreTypes'
    BY <1>1, TypesStay DEF StoreInv, StoreTypes
<1>3. CASE op.kind = "adopt"
    <2>1. {"kind", "pc", "id", "cert", "boot"} \subseteq DOMAIN op
        BY <1>3 DEF StoreInv, OpShape, AdoptOp
    <2>0. op' = [op EXCEPT !.pc = "written"]
        BY <1>1, <1>3
    <2>2. op'.pc = "written" /\ Same(op', op)
        BY <2>0, <2>1, OpMoves
    <2>3. op'.kind = "adopt"
        BY <1>3, <2>1, <2>2 DEF Same
    <2>4. OpShape'
        BY <1>1, <2>1, <2>2, <2>3, SMTT(60) DEF StoreInv, OpShape, AdoptOp, RemoveOp, BootOp, RestoreOp, ImportOp,
               Writing, Same
    <2>5. Trusted'
        BY <1>1, <2>3, TrustStays
    <2> QED BY <1>1, <1>2, <2>3, <2>4, <2>5 DEF StoreInv, InSync, Restoring
<1>4. CASE op.kind # "adopt"
    <2>1. op' = Idle
        BY <1>1, <1>4
    <2>2. op'.kind = None
        BY <2>1 DEF Idle
    <2>3. Trusted'
        BY <1>1, <2>2, TrustStays, NoneIsApart
    <2> QED BY <1>1, <1>2, <2>1, <2>3, EndsUnclean
<1> QED BY <1>3, <1>4

\* Adopting a certificate in memory (adoptCertificateAt up to saveCertificate).
LEMMA AdoptKeeps ==
    ASSUME StoreConstants, StoreInv, NEW id \in Id, NEW cert \in Nat \ {0}, NEW boot,
           boot # None => boot.todo \subseteq CacheEntry /\ ~up,
           Adopt(id, cert, boot), op.kind \in {None, "boot"}, up \/ op.kind = "boot",
           UNCHANGED <<up, certFile, keyFile, stateFile, legacy, archive, clean>>, issued' \in Nat
    PROVE  StoreInv'
<1>1. /\ certificates' = [certificates EXCEPT ![id] = cert] /\ loaded' = [loaded EXCEPT ![id] = cert]
      /\ domainToCert' = [d \in Domain |-> IF d \in names[id] THEN id ELSE domainToCert[d]]
      /\ op' = [kind |-> "adopt", pc |-> "cert", id |-> id, cert |-> cert, boot |-> boot]
    BY DEF Adopt
<1>2. /\ op'.kind = "adopt" /\ op'.pc = "cert" /\ op'.id = id /\ op'.cert = cert /\ op'.boot = boot
      /\ {"kind", "pc", "id", "cert", "boot"} \subseteq DOMAIN op'
    BY <1>1
<1>3. StoreTypes'
    BY <1>1 DEF StoreInv, StoreTypes
<1>4. OpShape'
    BY <1>2 DEF OpShape, Kind, AdoptOp, RemoveOp, BootOp, RestoreOp, ImportOp, Writing
<1>5. Trusted'
    <2>1. validateManagerState(Snapshot)'
        <3>1. Snapshot'.certs = certificates' /\ Snapshot'.map = domainToCert'
            BY DEF Snapshot
        <3>2. ASSUME NEW d \in Domain, domainToCert'[d] # None
              PROVE  certificates'[domainToCert'[d]] # 0 /\ d \in names[domainToCert'[d]]
            <4>1. CASE d \in names[id]
                BY <1>1, <4>1 DEF StoreInv, StoreTypes
            <4>2. CASE d \notin names[id]
                <5>1. domainToCert'[d] = domainToCert[d] /\ domainToCert[d] \in Id
                    BY <1>1, <3>2, <4>2 DEF StoreInv, StoreTypes
                <5>2. certificates[domainToCert[d]] # 0 /\ d \in names[domainToCert[d]]
                    BY <3>2, <5>1 DEF StoreInv, Trusted, validateManagerState, Snapshot
                <5> QED BY <1>1, <5>1, <5>2 DEF StoreInv, StoreTypes
            <4> QED BY <4>1, <4>2
        <3> QED BY <3>1, <3>2 DEF validateManagerState
    <2> QED BY <1>2, <2>1 DEF StoreInv, Trusted, validateManagerState, validate, Managed
<1>6. InSync'
    <2> SUFFICES ASSUME clean PROVE Settled' /\ Working' /\ Importing'
        BY DEF InSync
    <2>1. \A i \in Id : certificates[i] # 0 => Kept(i)
        BY DEF StoreInv, InSync, Settled
    <2>2. \A i \in Id \ {id} : certificates'[i] = certificates[i] /\ (Kept(i) => Kept(i)')
        BY <1>1 DEF Kept, Pair, Parses, StoreInv, StoreTypes
    <2>3. certificates'[id] = cert /\ loaded'[id] = cert
        BY <1>1 DEF StoreInv, StoreTypes
    <2> QED BY <1>2, <2>1, <2>2, <2>3, NoneIsApart DEF Settled, Working, Importing
<1>7. Restoring'
    BY <1>2 DEF Restoring
<1> QED BY <1>3, <1>4, <1>5, <1>6, <1>7 DEF StoreInv

\* An order is adopted by the running proxy.
LEMMA AdoptCertificateKeeps ==
    ASSUME StoreConstants, StoreInv, NEW id \in Id, adoptCertificate(id)
    PROVE  StoreInv'
<1>1. /\ up /\ op.kind = None /\ issued < Len(Ordered) /\ issued' = issued + 1
      /\ Adopt(id, Ordered[issued'], None)
      /\ UNCHANGED <<up, certFile, keyFile, stateFile, legacy, archive, clean>>
    BY DEF adoptCertificate, files
<1>2. issued' \in Nat /\ Ordered[issued'] \in Nat \ {0}
    BY <1>1, EntriesTyped, SMTT(60) DEF StoreInv, StoreTypes
<1> QED BY <1>1, <1>2, AdoptKeeps

\* Taking a certificate off the maps.
LEMMA RemoveCertificateKeeps ==
    ASSUME StoreConstants, StoreInv, NEW id \in Id, removeCertificate(id)
    PROVE  StoreInv'
<1>1. /\ up /\ op.kind = None
      /\ certificates' = [certificates EXCEPT ![id] = 0] /\ loaded' = [loaded EXCEPT ![id] = 0]
      /\ domainToCert' = [d \in Domain |-> IF domainToCert[d] = id THEN None ELSE domainToCert[d]]
      /\ op' = [kind |-> "remove", pc |-> "unlink", id |-> id]
      /\ UNCHANGED <<up, certFile, keyFile, stateFile, legacy, archive, issued, clean>>
    BY DEF removeCertificate, files, counters
<1>2. /\ op'.kind = "remove" /\ op'.pc = "unlink" /\ op'.id = id
      /\ {"kind", "pc", "id"} \subseteq DOMAIN op'
    BY <1>1
<1>3. StoreTypes'
    BY <1>1 DEF StoreInv, StoreTypes
<1>4. OpShape'
    BY <1>2 DEF OpShape, Kind, AdoptOp, RemoveOp, BootOp, RestoreOp, ImportOp
<1>5. Trusted'
    <2>1. validateManagerState(Snapshot)'
        <3>1. Snapshot'.certs = certificates' /\ Snapshot'.map = domainToCert'
            BY DEF Snapshot
        <3>2. ASSUME NEW d \in Domain, domainToCert'[d] # None
              PROVE  certificates'[domainToCert'[d]] # 0 /\ d \in names[domainToCert'[d]]
            <4>1. domainToCert'[d] = domainToCert[d] /\ domainToCert[d] # id /\ domainToCert[d] \in Id
                BY <1>1, <3>2 DEF StoreInv, StoreTypes
            <4>2. certificates[domainToCert[d]] # 0 /\ d \in names[domainToCert[d]]
                BY <3>2, <4>1 DEF StoreInv, Trusted, validateManagerState, Snapshot
            <4> QED BY <1>1, <4>1, <4>2 DEF StoreInv, StoreTypes
        <3> QED BY <3>1, <3>2 DEF validateManagerState
    <2> QED BY <1>1, <1>2, <2>1 DEF StoreInv, Trusted, validateManagerState, validate, Managed
<1>6. InSync'
    <2> SUFFICES ASSUME clean PROVE Settled' /\ Working' /\ Importing'
        BY <1>1 DEF InSync
    <2>1. \A i \in Id : certificates[i] # 0 => Kept(i)
        BY <1>1 DEF StoreInv, InSync, Settled
    <2>2. \A i \in Id \ {id} : certificates'[i] = certificates[i] /\ (Kept(i) => Kept(i)')
        BY <1>1 DEF Kept, Pair, Parses, StoreInv, StoreTypes
    <2>3. certificates'[id] = 0
        BY <1>1 DEF StoreInv, StoreTypes
    <2> QED BY <1>2, <2>1, <2>2, <2>3, NoneIsApart DEF Settled, Working, Importing
<1>7. Restoring'
    BY <1>2 DEF Restoring
<1> QED BY <1>3, <1>4, <1>5, <1>6, <1>7 DEF StoreInv

\* The snapshot in memory is a state the file can hold.
LEMMA SnapshotRecord ==
    ASSUME StoreConstants, StoreInv
    PROVE  /\ Snapshot \in StateRecord /\ Snapshot # None
           /\ Snapshot.certs = certificates /\ Snapshot.map = domainToCert
<1>1. Snapshot \in StateRecord
    BY DEF StoreInv, StoreTypes, StateRecord, Snapshot
<1> QED BY <1>1, NoneIsApart DEF StateRecord, Snapshot

\* The state file is written after an adoption or a removal, or is not.
LEMMA PersistStateKeeps ==
    ASSUME StoreConstants, StoreInv, persistState
    PROVE  StoreInv'
<1>0. \/ op.kind = "adopt" /\ op.pc = "written"
      \/ op.kind = "remove" /\ op.pc = "removed"
    BY DEF persistState
<1>1. /\ \/ stateFile' = Snapshot /\ clean' = clean
         \/ stateFile' = stateFile /\ clean' = FALSE
      /\ UNCHANGED <<up, certificates, loaded, domainToCert, certFile, keyFile, legacy, archive, issued>>
    BY DEF persistState, memory, files, counters
<1>2. op' = IF op.kind = "adopt" /\ op.boot # None
            THEN [kind |-> "boot", pc |-> "import", todo |-> op.boot.todo, failed |-> op.boot.failed,
                  imported |-> TRUE]
            ELSE Idle
    BY DEF persistState
<1>3. /\ "kind" \in DOMAIN op'
      /\ \/ /\ op'.kind = "boot" /\ op.kind = "adopt" /\ op.boot # None
            /\ op'.pc = "import" /\ op'.todo = op.boot.todo
            /\ {"kind", "pc", "todo", "failed", "imported"} \subseteq DOMAIN op'
         \/ op'.kind = None
    BY <1>2 DEF Idle
<1>4. StoreTypes'
    BY <1>1, SnapshotRecord DEF StoreInv, StoreTypes
<1>5. OpShape'
    BY <1>0, <1>1, <1>3, NoneIsApart DEF StoreInv, OpShape, Kind, AdoptOp, RemoveOp, BootOp, RestoreOp, ImportOp
<1>6. Trusted'
    BY <1>1, <1>3, NoneIsApart, SMTT(60) DEF StoreInv, Trusted, validateManagerState, validate,
           Snapshot, Managed
<1>7. InSync'
    <2> SUFFICES ASSUME clean' PROVE Settled' /\ Working' /\ Importing'
        BY DEF InSync
    <2>1. clean /\ stateFile' = Snapshot
        BY <1>1
    <2>2. Recorded' = certificates
        BY <2>1, SnapshotRecord DEF Recorded
    <2>3. \A i \in Id : Kept(i)' = Kept(i) /\ Pair(i)' = Pair(i)
        BY <1>1 DEF Kept, Pair, Parses
    <2>4. \A i \in Id : certificates[i] # 0 => Kept(i)
        <3>1. Working
            BY <2>1 DEF StoreInv, InSync
        <3>2. CASE op.kind = "remove"
            BY <3>1, <3>2 DEF Working
        <3>3. CASE op.kind = "adopt"
            <4>1. op.id \in Id /\ op.cert \in Nat \ {0} /\ op.pc = "written"
                BY <1>0, <3>3 DEF StoreInv, OpShape, AdoptOp
            <4>2. Kept(op.id)
                BY <3>1, <3>3, <4>1 DEF Working, Written, Kept, Pair, Parses
            <4> QED BY <3>1, <3>3, <4>2 DEF Working
        <3> QED BY <1>0, <3>2, <3>3
    <2>5. Settled'
        BY <1>1, <2>2, <2>3, <2>4 DEF Settled, Kept
    <2> QED BY <1>3, <2>5, NoneIsApart DEF Working, Importing
<1>8. Restoring'
    BY <1>3, NoneIsApart DEF Restoring
<1> QED BY <1>4, <1>5, <1>6, <1>7, <1>8 DEF StoreInv

\* Unlinking a file of one directory leaves the others alone.
LEMMA UnlinkOne ==
    ASSUME StoreInv, NEW id \in Id, Unlink(id)
    PROVE  /\ certFile' \in [Id -> Nat] /\ keyFile' \in [Id -> Nat]
           /\ \A i \in Id \ {id} : certFile'[i] = certFile[i] /\ keyFile'[i] = keyFile[i]
    BY SMTT(60) DEF StoreInv, StoreTypes, Unlink

\* The directory of a removed certificate goes file by file.
LEMMA RemoveFilesKeeps ==
    ASSUME StoreConstants, StoreInv, RemoveFiles
    PROVE  StoreInv'
<1>1. /\ op.kind = "remove" /\ op.pc = "unlink"
      /\ UNCHANGED <<up, certificates, loaded, domainToCert, stateFile, legacy, archive, issued>>
    BY DEF RemoveFiles, memory, counters
<1>2. op.id \in Id /\ {"kind", "pc", "id"} \subseteq DOMAIN op
    BY <1>1 DEF StoreInv, OpShape, RemoveOp
<1>3. /\ op' = op \/ op' = [op EXCEPT !.pc = "removed"]
      /\ certFile' \in [Id -> Nat] /\ keyFile' \in [Id -> Nat]
      /\ \A i \in Id \ {op.id} : certFile'[i] = certFile[i] /\ keyFile'[i] = keyFile[i]
      /\ clean' = clean \/ clean' = FALSE
    <2>1. CASE Unlink(op.id) /\ UNCHANGED <<op, clean>>
        BY <1>2, <2>1, UnlinkOne
    <2>2. CASE /\ certFile' = certFile /\ keyFile' = keyFile
               /\ op' = [op EXCEPT !.pc = "removed"] /\ (clean' = clean \/ clean' = FALSE)
        BY <2>2 DEF StoreInv, StoreTypes
    <2> QED BY <2>1, <2>2 DEF RemoveFiles, files
<1>4. /\ op'.kind = "remove" /\ op'.id = op.id /\ op'.pc \in {"unlink", "removed"}
      /\ {"kind", "pc", "id"} \subseteq DOMAIN op'
    BY <1>1, <1>2, <1>3
<1>5. StoreTypes'
    BY <1>1, <1>3 DEF StoreInv, StoreTypes
<1>6. OpShape'
    BY <1>2, <1>4 DEF OpShape, Kind, AdoptOp, RemoveOp, BootOp, RestoreOp, ImportOp
<1>7. Trusted'
    BY <1>1, <1>4, TrustStays
<1>8. InSync'
    <2> SUFFICES ASSUME clean' PROVE Settled' /\ Working' /\ Importing'
        BY DEF InSync
    <2>1. Working
        BY <1>3 DEF StoreInv, InSync
    <2>2. \A i \in Id \ {op.id} : Kept(i) => Kept(i)'
        BY <1>1, <1>3 DEF Kept, Pair, Parses
    <2> QED BY <1>1, <1>2, <1>4, <2>1, <2>2, NoneIsApart DEF Settled, Working, Importing
<1>9. Restoring'
    BY <1>4 DEF Restoring
<1> QED BY <1>5, <1>6, <1>7, <1>8, <1>9 DEF StoreInv

\* A deploy maps a domain to a certificate that names it.
LEMMA RegisterDomainKeeps ==
    ASSUME StoreInv, NEW d \in Domain, NEW id \in Id, RegisterDomain(d, id)
    PROVE  StoreInv'
<1>1. /\ certificates[id] # 0 /\ d \in names[id] /\ domainToCert' = [domainToCert EXCEPT ![d] = id]
      /\ UNCHANGED <<up, certificates, loaded, certFile, keyFile, stateFile, legacy, archive, op, issued, clean>>
    BY DEF RegisterDomain, files, counters
<1>2. StoreTypes'
    BY <1>1 DEF StoreInv, StoreTypes
<1>3. OpShape'
    BY <1>1 DEF StoreInv, OpShape, AdoptOp, RemoveOp, BootOp, RestoreOp, ImportOp, Managed
<1>4. Trusted'
    <2>1. validateManagerState(Snapshot)'
        <3>1. Snapshot'.certs = certificates /\ Snapshot'.map = domainToCert'
            BY <1>1 DEF Snapshot
        <3>2. \A e \in Domain : domainToCert[e] # None => certificates[domainToCert[e]] # 0 /\ e \in names[domainToCert[e]]
            BY DEF StoreInv, Trusted, validateManagerState, Snapshot
        <3>3. domainToCert'[d] = id /\ \A e \in Domain \ {d} : domainToCert'[e] = domainToCert[e]
            BY <1>1 DEF StoreInv, StoreTypes
        <3>4. ASSUME NEW e \in Domain, domainToCert'[e] # None
              PROVE  certificates[domainToCert'[e]] # 0 /\ e \in names[domainToCert'[e]]
            BY <1>1, <3>2, <3>3, <3>4
        <3> QED BY <3>1, <3>4 DEF validateManagerState
    <2> QED BY <1>1, <2>1 DEF StoreInv, Trusted, validateManagerState, validate, Managed
<1>5. InSync'
    <2>1. Recorded' = Recorded /\ \A i : Pair(i)' = Pair(i) /\ Kept(i)' = Kept(i) /\ Written(i)' = Written(i)
        BY <1>1 DEF Recorded, Pair, Kept, Written, Parses, NoCert
    <2> QED BY <1>1, <2>1 DEF StoreInv, InSync, Settled, Working, Importing
<1>6. Restoring'
    BY <1>1 DEF StoreInv, Restoring, Managed, Stale
<1> QED BY <1>2, <1>3, <1>4, <1>5, <1>6 DEF StoreInv

\* A boot reads what the state file and the pairs hold.
LEMMA LoadStateKeeps ==
    ASSUME StoreInv, loadState
    PROVE  StoreInv'
<1>1. /\ op.kind = None /\ ~up /\ up' = up
      /\ certificates' = Recorded
      /\ domainToCert' = IF stateFile = None THEN NoMap ELSE stateFile.map
      /\ loaded' = [i \in Id |-> IF certificates'[i] # 0 /\ Parses(i) THEN certFile[i] ELSE 0]
      /\ op' = [kind |-> "boot", pc |-> "import", todo |-> legacy, failed |-> FALSE, imported |-> FALSE]
      /\ UNCHANGED <<certFile, keyFile, stateFile, legacy, archive, issued, clean>>
    BY DEF loadState, files, Recorded
<1>2. /\ op'.kind = "boot" /\ op'.pc = "import" /\ op'.todo = legacy
      /\ {"kind", "pc", "todo", "failed", "imported"} \subseteq DOMAIN op'
    BY <1>1
<1>3. StoreTypes'
    <2>1. certificates' \in [Id -> Nat] /\ domainToCert' \in [Domain -> Id \cup {None}]
        BY <1>1 DEF StoreInv, StoreTypes, StateRecord, Recorded, NoCert, NoMap
    <2>2. loaded' \in [Id -> Nat]
        BY <1>1 DEF StoreInv, StoreTypes
    <2> QED BY <1>1, <2>1, <2>2 DEF StoreInv, StoreTypes
<1>4. OpShape'
    BY <1>1, <1>2 DEF StoreInv, StoreTypes, OpShape, Kind, AdoptOp, RemoveOp, BootOp, RestoreOp, ImportOp
<1>5. Trusted'
    <2>1. Snapshot'.certs = certificates' /\ Snapshot'.map = domainToCert'
        BY DEF Snapshot
    <2>2. CASE stateFile = None
        <3>1. \A d \in Domain : domainToCert'[d] = None
            BY <1>1, <2>2 DEF NoMap
        <3> QED BY <1>1, <1>2, <2>1, <2>2, <3>1, SMTT(60) DEF StoreInv, Trusted, validateManagerState,
                validate, Managed
    <2>3. CASE stateFile # None
        <3>1. certificates' = stateFile.certs /\ domainToCert' = stateFile.map
            BY <1>1, <2>3 DEF Recorded
        <3> QED BY <1>1, <1>2, <2>1, <2>3, <3>1, SMTT(60) DEF StoreInv, Trusted, validateManagerState,
                validate, Managed
    <2> QED BY <2>2, <2>3
<1>6. InSync'
    <2> SUFFICES ASSUME clean PROVE Settled' /\ Working' /\ Importing'
        BY <1>1 DEF InSync
    <2>1. \A i \in Id : Recorded[i] # 0 => Pair(i) \in {0, Recorded[i]}
        BY <1>1 DEF StoreInv, InSync, Settled
    <2>2. Recorded' = Recorded /\ \A i : Pair(i)' = Pair(i)
        BY <1>1 DEF Recorded, Pair, Parses, NoCert
    <2>3. \A i \in Id : certificates'[i] # 0 => loaded'[i] = Pair(i)
        BY <1>1 DEF Pair
    <2>4. \A i \in Id : certificates'[i] # 0 => Kept(i)'
        BY <1>1, <2>1, <2>2, <2>3 DEF Kept
    <2> QED BY <1>1, <1>2, <2>1, <2>2, <2>4 DEF Settled, Working, Importing
<1>7. Restoring'
    BY <1>2 DEF Restoring
<1> QED BY <1>3, <1>4, <1>5, <1>6, <1>7 DEF StoreInv

\* An operation that ends, or a boot that goes on, with memory and disk unchanged.
LEMMA BootGoesOn ==
    ASSUME StoreConstants, StoreInv, op.kind = "boot", "kind" \in DOMAIN op', BootOp(op'),
           op'.kind \in {"boot", None}, op'.kind = "boot" => ~up',
           UNCHANGED <<certificates, loaded, domainToCert, certFile, keyFile, stateFile, archive, issued, clean>>,
           legacy' \subseteq CacheEntry
    PROVE  StoreInv'
<1>1. StoreTypes'
    BY DEF StoreInv, StoreTypes
<1>2. OpShape'
    BY NoneIsApart DEF OpShape, Kind, AdoptOp, RemoveOp, RestoreOp, ImportOp, BootOp
<1>3. Trusted'
    BY TrustStays, NoneIsApart
<1>4. InSync'
    <2>1. Recorded' = Recorded /\ \A i : Pair(i)' = Pair(i) /\ Kept(i)' = Kept(i)
        BY DEF Recorded, Pair, Kept, Parses, NoCert
    <2> QED BY <2>1, NoneIsApart DEF StoreInv, InSync, Settled, Working, Importing
<1>5. Restoring'
    <2>1. op'.kind = "boot" \/ op'.kind = None
        OBVIOUS
    <2> QED BY <2>1, NoneIsApart DEF Restoring
<1> QED BY <1>1, <1>2, <1>3, <1>4, <1>5 DEF StoreInv

\* The legacy cache is adopted entry by entry.
LEMMA LegacyKeeps ==
    ASSUME StoreConstants, StoreInv, importLegacyHTTP01Cache
    PROVE  StoreInv'
<1>1. /\ op.kind = "boot" /\ op.pc = "import"
      /\ UNCHANGED <<certFile, keyFile, stateFile, archive, issued, clean>>
    BY DEF importLegacyHTTP01Cache, files, counters
<1>2. /\ {"kind", "pc", "todo", "failed", "imported"} \subseteq DOMAIN op /\ op.todo \subseteq CacheEntry
      /\ ~up
    BY <1>1 DEF StoreInv, OpShape, BootOp
<1>3. legacy \subseteq CacheEntry /\ issued \in Nat
    BY DEF StoreInv, StoreTypes
<1>4. ASSUME NEW e \in op.todo, e.cert = 0, UNCHANGED <<up, certificates, loaded, domainToCert, legacy>>,
             op' = [op EXCEPT !.todo = op.todo \ {e}, !.failed = TRUE]
      PROVE  StoreInv'
    <2>1. /\ op'.kind = "boot" /\ op'.pc = "import" /\ op'.todo = op.todo \ {e}
          /\ {"kind", "pc", "todo", "failed", "imported"} \subseteq DOMAIN op'
        BY <1>1, <1>2, <1>4
    <2>2. BootOp(op') /\ "kind" \in DOMAIN op'
        BY <1>2, <2>1 DEF BootOp
    <2>3. ~up'
        BY <1>2, <1>4
    <2>4. /\ UNCHANGED <<certificates, loaded, domainToCert, certFile, keyFile, stateFile, archive, issued, clean>>
          /\ legacy' \subseteq CacheEntry
        BY <1>1, <1>3, <1>4
    <2> QED BY <1>1, <2>1, <2>2, <2>3, <2>4, BootGoesOn
<1>5. ASSUME NEW e \in op.todo, e.cert # 0, NEW failed,
             Adopt(e.id, e.cert, [todo |-> op.todo \ {e}, failed |-> failed]),
             UNCHANGED <<up, legacy>>
      PROVE  StoreInv'
    <2> DEFINE boot == [todo |-> op.todo \ {e}, failed |-> failed]
    <2>1. e.id \in Id /\ e.cert \in Nat \ {0}
        BY <1>2, <1>5 DEF CacheEntry
    <2>2. boot # None => boot.todo \subseteq CacheEntry /\ ~up
        BY <1>2
    <2>3. Adopt(e.id, e.cert, boot)
        BY <1>5
    <2> HIDE DEF boot
    <2> QED BY <1>1, <1>3, <1>5, <2>1, <2>2, <2>3, AdoptKeeps
<1>6. CASE /\ legacy' = IF op.failed \/ ~op.imported THEN legacy ELSE {}
           /\ up' = TRUE /\ op' = Idle /\ UNCHANGED <<certificates, loaded, domainToCert>>
    <2>1. op'.kind = None /\ "kind" \in DOMAIN op'
        BY <1>6 DEF Idle
    <2>2. BootOp(op') /\ legacy' \subseteq CacheEntry /\ op'.kind # "boot"
        BY <1>3, <1>6, <2>1, NoneIsApart DEF BootOp
    <2>3. UNCHANGED <<certificates, loaded, domainToCert, certFile, keyFile, stateFile, archive, issued, clean>>
        BY <1>1, <1>6
    <2> QED BY <1>1, <2>1, <2>2, <2>3, BootGoesOn
<1> QED BY <1>4, <1>5, <1>6 DEF importLegacyHTTP01Cache, memory

\* Without an operation on a stopped proxy, all that counts is the disk.
LEMMA StoppedKeeps ==
    ASSUME StoreConstants, StoreTypes', Trusted', op' = Idle, ~up',
           clean' => \A i \in Id : Recorded'[i] # 0 => Pair(i)' \in {0, Recorded'[i]}
    PROVE  StoreInv'
<1>1. op'.kind = None /\ "kind" \in DOMAIN op'
    BY DEF Idle
<1>2. OpShape' /\ Restoring'
    BY <1>1, NoneIsApart DEF OpShape, Kind, AdoptOp, RemoveOp, BootOp, RestoreOp, ImportOp, Restoring
<1>3. InSync'
    BY <1>1, NoneIsApart DEF InSync, Settled, Working, Importing
<1> QED BY <1>2, <1>3 DEF StoreInv

\* The proxy dies; what it was in the middle of is cut short.
LEMMA CrashKeeps ==
    ASSUME StoreConstants, StoreInv, Crash
    PROVE  StoreInv'
<1>1. /\ ~up' /\ op' = Idle
      /\ certificates' = NoCert /\ loaded' = NoCert /\ domainToCert' = NoMap
      /\ clean' = (clean /\ op.kind \notin {"adopt", "remove"})
      /\ up \/ op.kind \in {"boot", "adopt", "remove"}
      /\ UNCHANGED <<certFile, keyFile, stateFile, legacy, archive, issued>>
    BY DEF Crash, files, counters
<1>2. StoreTypes'
    BY <1>1 DEF StoreInv, StoreTypes, NoCert, NoMap
<1>3. Trusted'
    <2>1. op'.kind = None
        BY <1>1 DEF Idle
    <2>2. Snapshot'.map = domainToCert' /\ \A d \in Domain : domainToCert'[d] = None
        BY <1>1 DEF Snapshot, NoMap
    <2> QED BY <1>1, <2>1, <2>2, NoneIsApart, SMTT(60) DEF StoreInv, Trusted, validateManagerState,
            validate, Managed
<1>4. ASSUME clean' PROVE \A i \in Id : Recorded'[i] # 0 => Pair(i)' \in {0, Recorded'[i]}
    <2>1. clean /\ op.kind \notin {"adopt", "remove"}
        BY <1>1, <1>4
    <2>2. op.kind \in {None, "boot"}
        BY <1>1, <2>1 DEF StoreInv, OpShape, Kind
    <2>3. Recorded' = Recorded /\ \A i : Pair(i)' = Pair(i)
        BY <1>1 DEF Recorded, Pair, Parses, NoCert
    <2> QED BY <2>1, <2>2, <2>3 DEF StoreInv, InSync, Settled
<1> QED BY <1>1, <1>2, <1>3, <1>4, StoppedKeeps

\* An export is taken only if it validates, and it holds a state file.
LEMMA ExportKeeps ==
    ASSUME StoreConstants, StoreInv, ExportCertificateStore
    PROVE  StoreInv'
<1>1. /\ Collected # [state |-> None, pairs |-> NoCert]
      /\ validate(Collected) /\ archive' = Collected /\ op.kind = None
      /\ UNCHANGED <<up, certificates, loaded, domainToCert, certFile, keyFile, stateFile, legacy, op, issued, clean>>
    BY DEF ExportCertificateStore, memory, files
<1>2. /\ Collected.state = stateFile /\ Collected.pairs = [i \in Id |-> Pair(i)]
      /\ Collected = [state |-> stateFile, pairs |-> [i \in Id |-> Pair(i)]]
    BY DEF Collected, Pair
<1>3. [i \in Id |-> Pair(i)] \in [Id -> Nat]
    BY DEF Pair, StoreInv, StoreTypes
<1>4. stateFile # None
    <2> SUFFICES ASSUME stateFile = None PROVE FALSE
        OBVIOUS
    <2>1. \A i \in Id : Pair(i) = 0
        BY <1>1, <1>2 DEF validate, Managed
    <2>2. [i \in Id |-> Pair(i)] = NoCert
        BY <2>1 DEF NoCert
    <2> QED BY <1>1, <1>2, <2>2
<1>5. StoreTypes'
    BY <1>1, <1>2, <1>3, <1>4 DEF StoreInv, StoreTypes
<1>6. Trusted'
    BY <1>1, NoneIsApart DEF StoreInv, Trusted, validateManagerState, validate, Snapshot,
           Managed
<1>7. OpShape' /\ Restoring'
    BY <1>1, NoneIsApart DEF StoreInv, OpShape, AdoptOp, RemoveOp, BootOp, RestoreOp, ImportOp, Restoring
<1>8. InSync'
    <2>1. Recorded' = Recorded /\ \A i : Pair(i)' = Pair(i) /\ Kept(i)' = Kept(i) /\ Written(i)' = Written(i)
        BY <1>1 DEF Recorded, Pair, Kept, Written, Parses, NoCert
    <2> QED BY <1>1, <2>1 DEF StoreInv, InSync, Settled, Working, Importing
<1> QED BY <1>5, <1>6, <1>7, <1>8 DEF StoreInv

\* A restore begins with every pair still to write.
LEMMA RestoreStartsKeeps ==
    ASSUME StoreConstants, StoreInv, NEW force, RestoreCertificateStore(force)
    PROVE  StoreInv'
<1>1. /\ ~up /\ op.kind = None /\ archive # None /\ up' = up
      /\ op' = [kind |-> "restore", pc |-> "next", id |-> None, cert |-> 0,
                todo |-> Managed(archive.pairs), fresh |-> ~certStoreOccupied]
      /\ UNCHANGED <<certificates, loaded, domainToCert, certFile, keyFile, stateFile, legacy, archive, issued, clean>>
    BY DEF RestoreCertificateStore, memory, files
<1>2. /\ op'.kind = "restore" /\ op'.pc = "next" /\ op'.todo = Managed(archive.pairs)
      /\ {"kind", "pc", "id", "cert", "todo", "fresh"} \subseteq DOMAIN op'
    BY <1>1
<1>3. op'.fresh => stateFile = None
    <2>1. op'.fresh = ~certStoreOccupied
        BY <1>1
    <2> QED BY <2>1 DEF certStoreOccupied
<1>4. StoreTypes'
    BY <1>1, TypesStay DEF StoreInv, StoreTypes
<1>5. OpShape'
    BY <1>1, <1>2 DEF OpShape, Kind, AdoptOp, RemoveOp, BootOp, RestoreOp, ImportOp, Writing
<1>6. Trusted'
    BY <1>1, <1>2, TrustStays
<1>7. InSync'
    BY <1>2, NoneIsApart DEF InSync, Settled, Working, Importing
<1>8. Restoring'
    BY <1>1, <1>2, <1>3 DEF Restoring, Managed
<1> QED BY <1>4, <1>5, <1>6, <1>7, <1>8 DEF StoreInv

\* A restore takes the next pair, or writes the state file after the last one.
LEMMA RestoreNextKeeps ==
    ASSUME StoreConstants, StoreInv, RestoreNext
    PROVE  StoreInv'
<1>1. /\ op.kind = "restore" /\ op.pc \in {"next", "written"}
      /\ UNCHANGED <<up, certificates, loaded, domainToCert, certFile, keyFile, legacy, archive, issued>>
    BY DEF RestoreNext, memory, files, counters
<1>2. /\ {"kind", "pc", "id", "cert", "todo", "fresh"} \subseteq DOMAIN op /\ archive # None /\ ~up
      /\ archive.state \in StateRecord /\ archive.pairs \in [Id -> Nat]
      /\ validateManagerState(archive.state)
    <2>1. archive.state \in StateRecord /\ archive # None
        BY <1>1 DEF StoreInv, StoreTypes, OpShape, RestoreOp
    <2>2. archive.state # None
        BY <2>1, NoneIsApart DEF StateRecord
    <2> QED BY <1>1, <2>1, <2>2 DEF StoreInv, StoreTypes, OpShape, RestoreOp, Trusted, validate
<1>3. \A i \in Managed(archive.pairs) \ op.todo :
          certFile[i] = archive.pairs[i] /\ keyFile[i] = archive.pairs[i]
    BY <1>1 DEF StoreInv, Restoring
<1>4. op.fresh => stateFile = None
    BY <1>1 DEF StoreInv, Restoring
<1>5. CASE op.todo # {}
    <2>1. PICK i \in op.todo : op' = [op EXCEPT !.pc = "cert", !.id = i, !.cert = archive.pairs[i],
                                                !.todo = @ \ {i}]
        BY <1>5 DEF RestoreNext
    <2>2. stateFile' = stateFile /\ clean' = clean
        BY <1>5 DEF RestoreNext
    <2>3. /\ op'.kind = "restore" /\ op'.pc = "cert" /\ op'.id = i /\ op'.cert = archive.pairs[i]
          /\ op'.todo = op.todo \ {i} /\ op'.fresh = op.fresh
          /\ {"kind", "pc", "id", "cert", "todo", "fresh"} \subseteq DOMAIN op'
        BY <1>1, <1>2, <2>1
    <2>4. i \in Managed(archive.pairs)
        BY <1>1 DEF StoreInv, Restoring
    <2>5. StoreTypes'
        BY <1>1, <2>2, TypesStay DEF StoreInv, StoreTypes
    <2>6. OpShape'
        BY <1>1, <1>2, <2>3, <2>4 DEF OpShape, Kind, AdoptOp, RemoveOp, BootOp, RestoreOp, ImportOp, Writing,
               Managed
    <2>7. Trusted'
        BY <1>1, <2>2, <2>3, TrustStays
    <2>8. InSync'
        BY <2>3, NoneIsApart DEF InSync, Settled, Working, Importing
    <2>9. Restoring'
        <3>1. op.todo \subseteq Managed(archive.pairs)
            BY <1>1 DEF StoreInv, Restoring
        <3> QED BY <1>1, <1>3, <1>4, <2>2, <2>3, <3>1 DEF Restoring, Managed
    <2> QED BY <2>5, <2>6, <2>7, <2>8, <2>9 DEF StoreInv
<1>6. CASE op' = Idle /\ clean' = FALSE /\ stateFile' = stateFile
    <2>1. op'.kind = None
        BY <1>6 DEF Idle
    <2>2. StoreTypes'
        BY <1>1, <1>6, TypesStay DEF StoreInv, StoreTypes
    <2>3. Trusted'
        BY <1>1, <1>6, <2>1, TrustStays, NoneIsApart
    <2> QED BY <1>6, <2>2, <2>3, EndsUnclean
<1>7. CASE /\ op.todo = {} /\ op' = [op EXCEPT !.pc = "stale"] /\ clean' = clean
           /\ stateFile' = IF archive.state = None THEN stateFile ELSE archive.state
    <2>1. op'.pc = "stale" /\ Same(op', op) /\ op'.kind = "restore" /\ op'.todo = {}
        BY <1>1, <1>2, <1>7, OpMoves DEF Same
    <2>2. stateFile' = archive.state
        BY <1>2, <1>7, NoneIsApart DEF StateRecord
    <2>3. StoreTypes'
        BY <1>1, <1>2, <2>2 DEF StoreInv, StoreTypes
    <2>4. OpShape'
        BY <1>1, <1>2, <2>1 DEF StoreInv, OpShape, Kind, AdoptOp, RemoveOp, BootOp, RestoreOp, ImportOp, Writing,
               Same, Managed
    <2>5. Trusted'
        BY <1>1, <1>2, <2>1, <2>2 DEF StoreInv, Trusted, validateManagerState, validate,
               Snapshot, Managed
    <2>6. InSync'
        BY <2>1, NoneIsApart DEF InSync, Settled, Working, Importing
    <2>7. Restoring'
        BY <1>1, <1>3, <1>7, <2>1, <2>2 DEF Restoring, Managed
    <2> QED BY <2>3, <2>4, <2>5, <2>6, <2>7 DEF StoreInv
<1> QED BY <1>5, <1>6, <1>7 DEF RestoreNext

\* The directories of certificates the archive lacks are removed.
LEMMA StaleDirsKeep ==
    ASSUME StoreConstants, StoreInv, removeStaleCertDirs
    PROVE  StoreInv'
<1>1. /\ op.kind = "restore" /\ op.pc = "stale"
      /\ UNCHANGED <<up, certificates, loaded, domainToCert, stateFile, legacy, archive, issued, clean>>
    BY DEF removeStaleCertDirs, memory, counters
<1>2. /\ {"kind", "pc", "id", "cert", "todo", "fresh"} \subseteq DOMAIN op
      /\ archive.pairs \in [Id -> Nat] /\ Stale \subseteq Id
    BY <1>1 DEF StoreInv, StoreTypes, OpShape, RestoreOp, Stale, Managed
<1>3. /\ \/ op' = op
         \/ /\ op' = [op EXCEPT !.pc = "done"]
            /\ \A i \in Stale : certFile'[i] = 0 /\ keyFile'[i] = 0
      /\ certFile' \in [Id -> Nat] /\ keyFile' \in [Id -> Nat]
      /\ \A i \in Managed(archive.pairs) : certFile'[i] = certFile[i] /\ keyFile'[i] = keyFile[i]
    <2>1. ASSUME NEW i \in Stale, Unlink(i), op' = op
          PROVE  /\ certFile' \in [Id -> Nat] /\ keyFile' \in [Id -> Nat]
                 /\ \A l \in Managed(archive.pairs) : certFile'[l] = certFile[l] /\ keyFile'[l] = keyFile[l]
        <3>1. i \in Id /\ i \notin Managed(archive.pairs)
            BY <1>2 DEF Stale, Managed
        <3> QED BY <2>1, <3>1, UnlinkOne DEF Managed
    <2>2. CASE /\ \A i \in Stale : certFile[i] = 0 /\ keyFile[i] = 0
               /\ op' = [op EXCEPT !.pc = "done"] /\ certFile' = certFile /\ keyFile' = keyFile
        BY <2>2 DEF StoreInv, StoreTypes
    <2>3. \/ \E i \in Stale : Unlink(i) /\ op' = op
          \/ /\ \A i \in Stale : certFile[i] = 0 /\ keyFile[i] = 0
             /\ op' = [op EXCEPT !.pc = "done"] /\ certFile' = certFile /\ keyFile' = keyFile
        BY DEF removeStaleCertDirs, files
    <2> QED BY <2>1, <2>2, <2>3
<1>4. Same(op', op) /\ op'.pc \in {"stale", "done"} /\ op'.kind = "restore"
    <2>1. CASE op' = op
        BY <1>1, <2>1 DEF Same
    <2>2. CASE op' = [op EXCEPT !.pc = "done"]
        BY <1>1, <1>2, <2>2, OpMoves DEF Same
    <2> QED BY <1>3, <2>1, <2>2
<1>5. op'.pc = "done" => \A i \in Stale : certFile'[i] = 0 /\ keyFile'[i] = 0
    BY <1>1, <1>3
<1>6. StoreTypes'
    BY <1>1, <1>3 DEF StoreInv, StoreTypes
<1>7. OpShape'
    BY <1>1, <1>2, <1>4 DEF StoreInv, OpShape, Kind, AdoptOp, RemoveOp, BootOp, RestoreOp, ImportOp, Writing,
           Same, Managed
<1>8. Trusted'
    BY <1>1, <1>4, TrustStays
<1>9. InSync'
    BY <1>4, NoneIsApart DEF InSync, Settled, Working, Importing
<1>10. Restoring'
    <2>1. /\ op'.todo = op.todo /\ op.todo = {} /\ stateFile = archive.state
          /\ \A i \in Managed(archive.pairs) :
                certFile[i] = archive.pairs[i] /\ keyFile[i] = archive.pairs[i]
        BY <1>1, <1>2, <1>4 DEF StoreInv, Restoring, Same
    <2> QED BY <1>1, <1>3, <1>4, <1>5, <2>1, SMTT(60) DEF Restoring, Managed, Stale
<1> QED BY <1>6, <1>7, <1>8, <1>9, <1>10 DEF StoreInv

\* A completed restore leaves pairs that are what the state file says.
LEMMA RestoreReturnsKeeps ==
    ASSUME StoreConstants, StoreInv, RestoreReturns
    PROVE  StoreInv'
<1>1. /\ op.kind = "restore" /\ op.pc = "done" /\ op' = Idle
      /\ UNCHANGED <<up, certificates, loaded, domainToCert, certFile, keyFile, stateFile, legacy, archive, issued>>
    BY DEF RestoreReturns, memory, files, counters
<1>2. /\ archive # None /\ ~up' /\ archive.state \in StateRecord /\ archive.pairs \in [Id -> Nat]
      /\ validate(archive)
    BY <1>1 DEF StoreInv, StoreTypes, OpShape, RestoreOp, Trusted
<1>3. StoreTypes'
    BY <1>1, TypesStay DEF StoreInv, StoreTypes
<1>4. Trusted'
    <2>1. op'.kind = None
        BY <1>1 DEF Idle
    <2> QED BY <1>1, <2>1, TrustStays, NoneIsApart
<1>5. \A i \in Id : Recorded'[i] # 0 => Pair(i)' \in {0, Recorded'[i]}
    <2>1. archive.state # None /\ stateFile' = archive.state
        BY <1>1, <1>2, NoneIsApart DEF StoreInv, Restoring, StateRecord
    <2>2. Recorded' = archive.state.certs
        BY <2>1 DEF Recorded
    <2>3. \A i \in Id : archive.state.certs[i] # 0 => archive.pairs[i] \in {0, archive.state.certs[i]}
        BY <1>2, <2>1 DEF validate, Managed
    <2>4. ASSUME NEW i \in Id, archive.state.certs[i] # 0 PROVE Pair(i)' \in {0, archive.state.certs[i]}
        <3>1. certFile[i] = archive.pairs[i]
            <4>1. CASE archive.pairs[i] = 0
                BY <1>1, <1>2, <2>1, <2>4, <4>1 DEF StoreInv, Restoring, Stale, Managed
            <4>2. CASE archive.pairs[i] # 0
                BY <1>1, <1>2, <4>2 DEF StoreInv, Restoring, Managed
            <4> QED BY <4>1, <4>2
        <3> QED BY <1>1, <2>3, <2>4, <3>1 DEF Pair, Parses
    <2> QED BY <2>2, <2>4
<1> QED BY <1>1, <1>2, <1>3, <1>4, <1>5, StoppedKeeps

\* An import starts from the state at hand, which it has validated.
LEMMA ImportStartsKeeps ==
    ASSUME StoreConstants, StoreInv, ImportTraefikCertificates
    PROVE  StoreInv'
<1> DEFINE empty == [certs |-> NoCert, map |-> NoMap]
           base == IF stateFile = None THEN empty ELSE stateFile
<1>1. /\ ~up /\ up' = up /\ op.kind = None
      /\ op' = [kind |-> "import", pc |-> "entry", id |-> None, cert |-> 0, k |-> 1, by |-> {},
                state |-> base]
      /\ UNCHANGED <<certificates, loaded, domainToCert, certFile, keyFile, stateFile, legacy, archive, issued, clean>>
    BY DEF ImportTraefikCertificates, memory, files
<1>2. empty \in StateRecord /\ empty.certs = NoCert /\ \A d \in Domain : empty.map[d] = None
    BY DEF StateRecord, NoCert, NoMap
<1>3. base \in StateRecord /\ validateManagerState(base) /\ base.certs = Recorded
    BY <1>2 DEF StoreInv, StoreTypes, Trusted, validateManagerState, Recorded
<1> HIDE DEF base, empty
<1>4. /\ op'.kind = "import" /\ op'.pc = "entry" /\ op'.k = 1 /\ op'.state = base
      /\ {"kind", "pc", "id", "cert", "k", "by", "state"} \subseteq DOMAIN op'
    BY <1>1
<1>5. StoreTypes'
    BY <1>1, TypesStay DEF StoreInv, StoreTypes
<1>6. OpShape'
    BY <1>1, <1>3, <1>4, SMTT(60) DEF OpShape, Kind, AdoptOp, RemoveOp, BootOp, RestoreOp, ImportOp, Writing
<1>7. Trusted'
    BY <1>1, <1>3, <1>4 DEF StoreInv, Trusted, validateManagerState, validate, Snapshot,
           Managed
<1>8. InSync'
    <2> SUFFICES ASSUME clean PROVE Settled' /\ Working' /\ Importing'
        BY <1>1 DEF InSync
    <2>1. \A i \in Id : Recorded[i] # 0 => Pair(i) \in {0, Recorded[i]}
        BY <1>1 DEF StoreInv, InSync, Settled
    <2>2. \A i : Pair(i)' = Pair(i)
        BY <1>1 DEF Pair, Parses
    <2> QED BY <1>3, <1>4, <2>1, <2>2, NoneIsApart DEF Settled, Working, Importing
<1>9. Restoring'
    BY <1>4 DEF Restoring
<1> QED BY <1>5, <1>6, <1>7, <1>8, <1>9 DEF StoreInv

\* An import goes to its next entry, or writes the state it has built.
LEMMA ImportEntryKeeps ==
    ASSUME StoreConstants, StoreInv, importEntry
    PROVE  StoreInv'
<1>1. /\ op.kind = "import" /\ op.pc = "entry"
      /\ UNCHANGED <<up, certificates, loaded, domainToCert, certFile, keyFile, legacy, archive, issued>>
    BY DEF importEntry, memory, files, counters
<1>2. /\ {"kind", "pc", "id", "cert", "k", "by", "state"} \subseteq DOMAIN op /\ ~up
      /\ op.k \in Nat \ {0} /\ op.state \in StateRecord /\ validateManagerState(op.state)
    BY <1>1 DEF StoreInv, OpShape, ImportOp, Trusted
<1>3. CASE op.k <= Len(Traefik)
    <2>0. Traefik[op.k].id \in Id /\ Traefik[op.k].cert \in Nat \ {0}
        <3> DEFINE E == [id : Id, cert : Nat \ {0}]
        <3>1. Traefik \in Seq(E)
            BY EntriesTyped
        <3>2. E = [id : Id, cert : Nat \ {0}]
            OBVIOUS
        <3> HIDE DEF E
        <3>3. Traefik[op.k] \in E
            BY <1>2, <1>3, <3>1, SMTT(60)
        <3> QED BY <3>2, <3>3
    <2>1. /\ \/ op' = [op EXCEPT !.k = @ + 1]
             \/ op' = [op EXCEPT !.pc = "cert", !.id = Traefik[op.k].id, !.cert = Traefik[op.k].cert]
          /\ stateFile' = stateFile /\ clean' = clean
        BY <1>3 DEF importEntry
    <2>2. /\ op'.kind = "import" /\ op'.state = op.state /\ op'.k \in Nat \ {0}
          /\ op'.pc = "entry" \/ (op'.pc = "cert" /\ op'.id \in Id /\ op'.cert \in Nat \ {0})
          /\ {"kind", "pc", "id", "cert", "k", "by", "state"} \subseteq DOMAIN op'
        <3>1. CASE op' = [op EXCEPT !.k = @ + 1]
            BY <1>1, <1>2, <3>1, SMTT(60)
        <3>2. CASE op' = [op EXCEPT !.pc = "cert", !.id = Traefik[op.k].id, !.cert = Traefik[op.k].cert]
            BY <1>1, <1>2, <2>0, <3>2
        <3> QED BY <2>1, <3>1, <3>2
    <2>3. StoreTypes'
        BY <1>1, <2>1, TypesStay DEF StoreInv, StoreTypes
    <2>4. OpShape'
        BY <1>1, <1>2, <2>2 DEF OpShape, Kind, AdoptOp, RemoveOp, BootOp, RestoreOp, ImportOp, Writing
    <2>5. Trusted'
        BY <1>1, <2>1, <2>2, TrustStays
    <2>6. InSync'
        <3> SUFFICES ASSUME clean PROVE Settled' /\ Working' /\ Importing'
            BY <2>1 DEF InSync
        <3>1. \A i \in Id : op.state.certs[i] # 0 => Pair(i) \in {0, op.state.certs[i]}
            BY <1>1 DEF StoreInv, InSync, Importing
        <3>2. \A i : Pair(i)' = Pair(i)
            BY <1>1 DEF Pair, Parses
        <3> QED BY <2>2, <3>1, <3>2, NoneIsApart DEF Settled, Working, Importing
    <2>7. Restoring'
        BY <2>2 DEF Restoring
    <2> QED BY <2>3, <2>4, <2>5, <2>6, <2>7 DEF StoreInv
<1>4. CASE ~(op.k <= Len(Traefik))
    <2>1. /\ op' = Idle
          /\ \/ stateFile' = op.state /\ clean' = clean
             \/ stateFile' = stateFile /\ clean' = FALSE
        BY <1>4 DEF importEntry
    <2>2. op'.kind = None
        BY <2>1 DEF Idle
    <2>3. StoreTypes'
        BY <1>1, <1>2, <2>1 DEF StoreInv, StoreTypes
    <2>4. Trusted'
        BY <1>1, <1>2, <2>1, <2>2, NoneIsApart, SMTT(60) DEF StoreInv, Trusted, validateManagerState,
               validate, Snapshot, Managed
    <2>5. ASSUME clean' PROVE \A i \in Id : Recorded'[i] # 0 => Pair(i)' \in {0, Recorded'[i]}
        <3>1. clean /\ stateFile' = op.state
            BY <2>1, <2>5
        <3>2. \A i \in Id : op.state.certs[i] # 0 => Pair(i) \in {0, op.state.certs[i]}
            BY <1>1, <3>1 DEF StoreInv, InSync, Importing
        <3>3. Recorded' = op.state.certs
            BY <1>2, <3>1, NoneIsApart DEF Recorded, StateRecord
        <3>4. \A i : Pair(i)' = Pair(i)
            BY <1>1 DEF Pair, Parses
        <3> QED BY <3>2, <3>3, <3>4
    <2>6. ~up'
        BY <1>1, <1>2
    <2> QED BY <2>1, <2>3, <2>4, <2>5, <2>6, StoppedKeeps
<1> QED BY <1>3, <1>4

\* The written pair gets its record and the domains it won.
LEMMA ImportWrittenKeeps ==
    ASSUME StoreConstants, StoreInv, ImportWritten
    PROVE  StoreInv'
<1> DEFINE won == claimDomains(op.id, op.cert)
           state == [certs |-> [op.state.certs EXCEPT ![op.id] = op.cert],
                     map |-> [d \in Domain |-> IF d \in won THEN op.id ELSE op.state.map[d]]]
<1>1. /\ op.kind = "import" /\ op.pc = "written"
      /\ op' = [op EXCEPT !.pc = "entry", !.k = @ + 1, !.by = @ \cup won, !.state = state]
      /\ UNCHANGED <<up, certificates, loaded, domainToCert, certFile, keyFile, stateFile, legacy, archive, issued, clean>>
    BY DEF ImportWritten, memory, files, counters
<1>2. /\ {"kind", "pc", "id", "cert", "k", "by", "state"} \subseteq DOMAIN op /\ ~up
      /\ op.id \in Id /\ op.cert \in Nat \ {0}
      /\ op.k \in Nat \ {0} /\ op.state \in StateRecord /\ validateManagerState(op.state)
    BY <1>1 DEF StoreInv, OpShape, ImportOp, Trusted, Writing
<1>3. \A d \in won : d \in names[op.id]
    BY DEF claimDomains
<1> HIDE DEF won
<1>4. /\ op.state.certs \in [Id -> Nat] /\ op.state.map \in [Domain -> Id \cup {None}]
      /\ \A d \in Domain : op.state.map[d] # None =>
            op.state.certs[op.state.map[d]] # 0 /\ d \in names[op.state.map[d]]
    BY <1>2 DEF StateRecord, validateManagerState
<1>5. /\ state \in StateRecord
      /\ state.certs[op.id] = op.cert /\ \A i \in Id \ {op.id} : state.certs[i] = op.state.certs[i]
      /\ \A d \in Domain : state.map[d] = IF d \in won THEN op.id ELSE op.state.map[d]
    BY <1>2, <1>4 DEF StateRecord
<1> HIDE DEF state
<1>6. validateManagerState(state)
    <2>1. ASSUME NEW d \in Domain, state.map[d] # None
          PROVE  state.certs[state.map[d]] # 0 /\ d \in names[state.map[d]]
        <3>1. CASE d \in won
            BY <1>2, <1>3, <1>5, <3>1
        <3>2. CASE d \notin won
            BY <1>2, <1>4, <1>5, <2>1, <3>2, SMTT(60)
        <3> QED BY <3>1, <3>2
    <2> QED BY <2>1 DEF validateManagerState
<1>7. /\ op'.kind = "import" /\ op'.pc = "entry" /\ op'.k \in Nat \ {0} /\ op'.state = state
      /\ {"kind", "pc", "id", "cert", "k", "by", "state"} \subseteq DOMAIN op'
    BY <1>1, <1>2, SMTT(60)
<1>8. StoreTypes'
    BY <1>1, TypesStay DEF StoreInv, StoreTypes
<1>9. OpShape'
    BY <1>1, <1>2, <1>5, <1>7, SMTT(60) DEF OpShape, Kind, AdoptOp, RemoveOp, BootOp, RestoreOp, ImportOp, Writing
<1>10. Trusted'
    BY <1>1, <1>6, <1>7, SMTT(60) DEF StoreInv, Trusted, validateManagerState, validate, Snapshot,
           Managed
<1>11. InSync'
    <2> SUFFICES ASSUME clean PROVE Settled' /\ Working' /\ Importing'
        BY <1>1 DEF InSync
    <2>1. /\ \A i \in Id \ {op.id} : op.state.certs[i] # 0 => Pair(i) \in {0, op.state.certs[i]}
          /\ Written(op.id)
        BY <1>1 DEF StoreInv, InSync, Importing
    <2>2. \A i : Pair(i)' = Pair(i)
        BY <1>1 DEF Pair, Parses
    <2>3. Pair(op.id) = op.cert
        BY <1>2, <2>1 DEF Pair, Written, Parses
    <2>4. \A i \in Id : state.certs[i] # 0 => Pair(i) \in {0, state.certs[i]}
        BY <1>5, <2>1, <2>3
    <2> QED BY <1>7, <2>2, <2>4, NoneIsApart DEF Settled, Working, Importing
<1>12. Restoring'
    BY <1>7 DEF Restoring
<1> QED BY <1>8, <1>9, <1>10, <1>11, <1>12 DEF StoreInv

\* An offline command is cut short.
LEMMA InterruptedKeeps ==
    ASSUME StoreConstants, StoreInv, Interrupted
    PROVE  StoreInv'
<1>1. /\ op' = Idle /\ clean' = FALSE
      /\ UNCHANGED <<up, certificates, loaded, domainToCert, certFile, keyFile, stateFile, legacy, archive, issued>>
    BY DEF Interrupted, memory, files, counters
<1>2. op'.kind = None
    BY <1>1 DEF Idle
<1>3. StoreTypes'
    BY <1>1, TypesStay DEF StoreInv, StoreTypes
<1>4. Trusted'
    BY <1>1, <1>2, TrustStays, NoneIsApart
<1> QED BY <1>1, <1>3, <1>4, EndsUnclean

\* The archive goes to a host whose data directory is empty.
LEMMA NewHostKeeps ==
    ASSUME StoreConstants, StoreInv, NewHost
    PROVE  StoreInv'
<1>1. /\ ~up /\ up' = up /\ op.kind = None /\ op' = op
      /\ certFile' = NoCert /\ keyFile' = NoCert /\ stateFile' = None /\ legacy' = {}
      /\ UNCHANGED <<certificates, loaded, domainToCert, archive, issued>>
    BY DEF NewHost, memory, counters
<1>2. StoreTypes'
    BY <1>1 DEF StoreInv, StoreTypes, NoCert
<1>3. OpShape' /\ Restoring'
    BY <1>1, NoneIsApart DEF StoreInv, OpShape, Kind, AdoptOp, RemoveOp, BootOp, RestoreOp, ImportOp, Restoring
<1>4. Trusted'
    BY <1>1, NoneIsApart DEF StoreInv, Trusted, validateManagerState, validate, Snapshot,
           Managed
<1>5. InSync'
    <2>1. \A i \in Id : Recorded'[i] = 0
        BY <1>1 DEF Recorded, NoCert
    <2>2. ~up'
        BY <1>1
    <2> QED BY <1>1, <2>1, <2>2, NoneIsApart DEF InSync, Settled, Working, Importing
<1> QED BY <1>2, <1>3, <1>4, <1>5 DEF StoreInv

\* Every step of the store keeps the invariant.
LEMMA StoreStep ==
    ASSUME StoreConstants, StoreInv, [Next]_vars
    PROVE  StoreInv'
<1>1. CASE Next
    BY <1>1, RenameCertKeeps, RenameKeyKeeps, WriteFailsKeeps, PersistStateKeeps, RemoveFilesKeeps,
       AdoptCertificateKeeps, RemoveCertificateKeeps, RegisterDomainKeeps, LoadStateKeeps, LegacyKeeps,
       CrashKeeps, ExportKeeps, RestoreStartsKeeps, RestoreNextKeeps, StaleDirsKeep, RestoreReturnsKeeps,
       ImportStartsKeeps, ImportEntryKeeps, ImportWrittenKeeps, InterruptedKeeps, NewHostKeeps
       DEF Next
<1>2. CASE UNCHANGED vars
    <2>1. UNCHANGED <<up, certificates, loaded, domainToCert, certFile, keyFile, stateFile, legacy, archive, op,
                      issued, clean>>
        BY <1>2 DEF vars
    <2>2. StoreTypes'
        BY <2>1, TypesStay DEF StoreInv, StoreTypes
    <2>4. OpShape'
        BY <2>1 DEF StoreInv, OpShape, AdoptOp, RemoveOp, BootOp, RestoreOp, ImportOp, Managed
    <2>5. Trusted'
        BY <2>1, TrustStays
    <2>6. Restoring'
        BY <2>1 DEF StoreInv, Restoring, Managed, Stale
    <2>3. InSync'
        <3>1. Recorded' = Recorded /\ \A i : Pair(i)' = Pair(i) /\ Kept(i)' = Kept(i) /\ Written(i)' = Written(i)
            BY <2>1 DEF Recorded, Pair, Kept, Written, Parses, NoCert
        <3> QED BY <2>1, <3>1 DEF StoreInv, InSync, Settled, Working, Importing
    <2> QED BY <2>2, <2>3, <2>4, <2>5, <2>6 DEF StoreInv
<1> QED BY <1>1, <1>2

\* It holds of an empty store.
LEMMA StoreStart ==
    ASSUME StoreConstants, Init
    PROVE  StoreInv
<1>1. /\ up = FALSE /\ certificates = NoCert /\ loaded = NoCert /\ domainToCert = NoMap
      /\ certFile = NoCert /\ keyFile = NoCert /\ stateFile = None /\ legacy \in Legacy
      /\ archive = None /\ op = Idle /\ issued = 0
    BY DEF Init
<1>2. op.kind = None /\ "kind" \in DOMAIN op
    BY <1>1 DEF Idle
<1>3. legacy \subseteq CacheEntry
    BY <1>1, EntriesTyped DEF CacheEntry
<1>4. StoreTypes
    BY <1>1, <1>3 DEF StoreTypes, NoCert, NoMap
<1>5. OpShape /\ Restoring
    BY <1>1, <1>2, NoneIsApart DEF OpShape, Kind, AdoptOp, RemoveOp, BootOp, RestoreOp, ImportOp, Restoring
<1>6. Trusted
    <2>1. Snapshot.map = domainToCert /\ \A d \in Domain : domainToCert[d] = None
        BY <1>1 DEF Snapshot, NoMap
    <2> QED BY <1>1, <1>2, <2>1, NoneIsApart DEF Trusted, validateManagerState
<1>7. InSync
    <2>1. \A i \in Id : Recorded[i] = 0
        BY <1>1 DEF Recorded, NoCert
    <2> QED BY <1>1, <1>2, <2>1, NoneIsApart DEF InSync, Settled, Working, Importing
<1> QED BY <1>4, <1>5, <1>6, <1>7 DEF StoreInv

-----------------------------------------------------------------------------
(***************************************************************************)
(* What the invariant gives.                                               *)
(***************************************************************************)
\* The invariant holds throughout.
LEMMA StoreKeeps == StoreConstants /\ Spec => [](StoreConstants /\ StoreInv)
<1>1. StoreConstants /\ Init => StoreInv
    BY StoreStart
<1>2. (StoreConstants /\ StoreInv) /\ [Next]_vars => (StoreConstants /\ StoreInv)'
    <2>1. StoreConstants => StoreConstants'
        OBVIOUS
    <2> QED BY <2>1, StoreStep
<1> QED BY <1>1, <1>2, PTL DEF Spec

\* Whatever crashes, fails, is imported or restored, validateManagerState finds
\* nothing to refuse in the state file, in memory or in an archive, and a store on
\* which nothing failed can be exported (persistState, ExportCertificateStore).
THEOREM StoreIsTrustworthy == StoreConstants /\ Spec => [](StateIsTrustworthy /\ HealthyExports)
<1>1. StoreConstants /\ StoreInv => StateIsTrustworthy /\ HealthyExports
    BY StoreInvSuffices
<1> QED BY <1>1, StoreKeeps, PTL

\* A proxy that stops between two operations serves the same certificates after
\* its next boot (adoptCertificateAt, removeCertificate, loadState).
THEOREM RestartsServeSame == StoreConstants /\ Spec => []RestartServesSame
<1>1. StoreConstants /\ StoreInv => RestartServesSame
    BY StoreInvSuffices
<1> QED BY <1>1, StoreKeeps, PTL

\* A completed restore is what was archived, and one cut short in an empty store
\* leaves no state file that names a missing pair (RestoreCertificateStore).
THEOREM RestoresAreWhole == StoreConstants /\ Spec => []RestoresWhole
<1>1. StoreConstants /\ StoreInv => RestoresWhole
    BY StoreInvSuffices
<1> QED BY <1>1, StoreKeeps, PTL
=============================================================================
