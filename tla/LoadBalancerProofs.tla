-------------------------- MODULE LoadBalancerProofs --------------------------
(***************************************************************************)
(* Theorems about LoadBalancer: for any finite set of targets, any requests *)
(* and any number of probers and changes of health, in the absence of the  *)
(* races that break them.                                                  *)
(***************************************************************************)
EXTENDS LoadBalancer, FiniteSetTheorems, TLAPS

\* Zenon proves most leaves; one that needs SMT says so.
USE ZenonT(60)

\* None of the races in which an answer or a drain outlives what it is about.
Calm == Races \subseteq {"stray resume"}

-----------------------------------------------------------------------------
(* The inductive invariant. *)

Types ==
  /\ all \subseteq Targets /\ all # {}
  /\ tstate \in [Targets -> TargetStates]
  /\ probe \in [Targets -> [Ids -> Probes]]
  /\ probers \in [Targets -> Ids]
  /\ pool \subseteq all /\ answered \subseteq all
  /\ marked \in BOOLEAN /\ suspended \in BOOLEAN /\ disposed \in BOOLEAN
  /\ waiter \in {"none", "deploying", "waiting", "healthy", "failed"}
  /\ drain \in [Targets -> Drains]
  /\ inflight \in [Targets -> SUBSET Requests]

\* A closed prober holds no answer; probers not begun hold nothing; a pool of
\* several targets that is awake has all of them probed.
ProbeInv ==
  /\ \A t \in Targets, i \in Ids : t \notin all \/ i > probers[t] => probe[t][i] = NoProbe
  /\ \A t \in Targets, i \in Ids : probe[t][i].open \/ probe[t][i].held \in {"none", "notify"}
  /\ suspended \/ disposed => \A t \in Targets, i \in Ids : ~probe[t][i].open
  /\ multiTarget /\ ~suspended /\ ~disposed => \A t \in all : \E i \in Ids : probe[t][i].open

\* A healthy target, or one to be put back as healthy, has answered.
HealthInv ==
  /\ \A t \in all : tstate[t] = "healthy" => t \in answered
  /\ \A t \in all : drain[t].on /\ drain[t].original = "healthy" => t \in answered
  /\ HealthyMeansAnswered
  /\ waiter = "healthy" => marked

\* A draining target stays so; before it is disposed of, it is not probed.
DrainInv ==
  /\ \A t \in Targets : drain[t].on => tstate[t] = "draining" /\ t \in all
  /\ \A t \in Targets : drain[t].on /\ ~disposed => NotProbed(t) /\ (suspended \/ ~multiTarget)
  /\ DrainCoversInflight

\* Nothing is or becomes healthy during the nap.
NapInv ==
  suspended => /\ pool = {}
               /\ \A t \in all : tstate[t] # "healthy"
               /\ \A t \in all : drain[t].on => drain[t].original # "healthy"

\* What a target's state is, or will be when its drain returns.
Settled(t) == IF drain[t].on THEN drain[t].original ELSE tstate[t]

RightPool == \A t \in all : t \in pool <=> Settled(t) = "healthy"

\* The pool is right or an update of it is on its way.
PoolInv == (marked \/ waiter \in {"none", "healthy"}) /\ ~disposed => ~NoNotify \/ RightPool

LBInv == Types /\ ProbeInv /\ HealthInv /\ DrainInv /\ NapInv /\ PoolInv

-----------------------------------------------------------------------------
(* Helpers. *)

\* Two targets of a load balancer that has not several are the same.
LEMMA OnlyOne == ASSUME Types, ~multiTarget, NEW t \in all, NEW u \in all PROVE t = u
  <1>1. IsFiniteSet(all)
    BY TargetsAssumption, FS_Subset DEF Types
  <1>2. Cardinality(all) = 1
    BY <1>1, FS_CardinalityType, FS_EmptySet, SMTT(60) DEF Types, multiTarget
  <1>. QED  BY <1>1, <1>2, FS_Singleton, SMTT(60)

\* An absent prober, one just begun and an absent drain are of their types.
LEMMA ProbeTypes ==
  /\ NoProbe \in Probes /\ ~NoProbe.open /\ NoProbe.held = "none"
  /\ [open |-> TRUE, held |-> "none"] \in Probes
  /\ NoDrain \in Drains /\ ~NoDrain.on
  /\ 1 \in Ids
  BY ProbersAssumption, SMTT(60) DEF NoProbe, Probes, Held, NoDrain, Drains, TargetStates, Ids

\* Closing a prober drops an answer it holds and keeps a notification it owes.
LEMMA CloseDrops ==
  ASSUME Calm, NEW p \in Probes
  PROVE  /\ Close(p) \in Probes /\ ~Close(p).open
         /\ Close(p).held = IF p.held = "notify" THEN "notify" ELSE "none"
         /\ p = NoProbe => Close(p) = NoProbe
  <1>1. "late report" \notin Races
    BY DEF Calm
  <1>2. Close(p) = [open |-> FALSE, held |-> IF p.held = "notify" THEN "notify" ELSE "none"]
    BY <1>1 DEF Close
  <1>3. Close(p) \in Probes
    BY <1>2, SMTT(60) DEF Probes, Held
  <1>4. p = NoProbe => Close(p) = NoProbe
    BY <1>2, SMTT(60) DEF NoProbe
  <1>. QED  BY <1>2, <1>3, <1>4, SMTT(60)

\* One prober comes to hold h.
Holding(ps, t, i, h) == [ps EXCEPT ![t][i].held = h]

\* Changing what one prober holds leaves it as open as it was, and the others alone.
LEMMA HeldBecomes ==
  ASSUME NEW ps \in [Targets -> [Ids -> Probes]], NEW t \in Targets, NEW i \in Ids, NEW h \in Held
  PROVE  /\ Holding(ps, t, i, h) \in [Targets -> [Ids -> Probes]]
         /\ Holding(ps, t, i, h)[t][i] = [open |-> ps[t][i].open, held |-> h]
         /\ \A u \in Targets, k \in Ids :
              u # t \/ k # i => Holding(ps, t, i, h)[u][k] = ps[u][k]
  <1>1. ps[t][i] \in Probes
    OBVIOUS
  <1>2. [ps[t][i] EXCEPT !.held = h] = [open |-> ps[t][i].open, held |-> h]
    BY <1>1, SMTT(60) DEF Probes
  <1>3. [open |-> ps[t][i].open, held |-> h] \in Probes
    BY <1>1 DEF Probes
  <1>4. Holding(ps, t, i, h)
          = [ps EXCEPT ![t] = [ps[t] EXCEPT ![i] = [open |-> ps[t][i].open, held |-> h]]]
    BY <1>2 DEF Holding
  <1>. QED  BY <1>3, <1>4, SMTT(60)

\* Of the probers after some were stopped: q as p was stopped.
Stopped(q, p) ==
  /\ q \in Probes /\ ~q.open
  /\ q.held = IF p.held = "notify" THEN "notify" ELSE "none"
  /\ p = NoProbe => q = NoProbe

\* Stopping the health checks closes every prober.
LEMMA StopStops ==
  ASSUME Calm, NEW ps \in [Targets -> [Ids -> Probes]]
  PROVE  /\ StopHealthChecks(ps) \in [Targets -> [Ids -> Probes]]
         /\ \A t \in Targets, i \in Ids : Stopped(StopHealthChecks(ps)[t][i], ps[t][i])
  BY CloseDrops DEF StopHealthChecks, Stopped

\* The prober begun is a new one, and the others are closed.
LEMMA BeginBegins ==
  ASSUME Calm, Types, ProbeInv, BeginHealthChecks
  PROVE  /\ probers' \in [Targets -> Ids] /\ probe' \in [Targets -> [Ids -> Probes]]
         /\ \A t \in all :
              /\ probers'[t] > probers[t]
              /\ probe'[t][probers'[t]] = [open |-> TRUE, held |-> "none"]
              /\ probe[t][probers'[t]] = NoProbe
         /\ \A t \in Targets \ all : probers'[t] = probers[t]
         /\ \A t \in Targets, i \in Ids :
              t \notin all \/ i # probers'[t] => Stopped(probe'[t][i], probe[t][i])
  <1>1. \A t \in Targets : probers[t] \in Ids
    BY DEF Types
  <1>2. probers' = [t \in Targets |-> IF t \in all THEN probers[t] + 1 ELSE probers[t]]
    BY DEF BeginHealthChecks
  <1>3. \A t \in all : t \in Targets /\ probers[t] + 1 \in Ids /\ probers[t] + 1 > probers[t]
    BY <1>1, ProbersAssumption, SMTT(60) DEF BeginHealthChecks, Ids, Types
  <1>4. probers' \in [Targets -> Ids]
    BY <1>1, <1>2, <1>3
  <1>5. \A t \in Targets, i \in Ids :
          probe'[t][i] = IF t \in all /\ i = probers'[t] THEN [open |-> TRUE, held |-> "none"]
                         ELSE Close(probe[t][i])
    BY DEF BeginHealthChecks
  <1>6. \A t \in Targets, i \in Ids :
          t \notin all \/ i # probers'[t] => Stopped(probe'[t][i], probe[t][i])
    BY <1>5, CloseDrops, SMTT(60) DEF Stopped, Types
  <1>7. probe' \in [Targets -> [Ids -> Probes]]
    <2>1. \A t \in Targets, i \in Ids : Close(probe[t][i]) \in Probes
      BY CloseDrops DEF Types
    <2>. QED  BY <2>1, ProbeTypes DEF BeginHealthChecks
  <1>8. \A t \in all : probe'[t][probers'[t]] = [open |-> TRUE, held |-> "none"]
    BY <1>2, <1>3, <1>5
  <1>9. \A t \in all : probe[t][probers'[t]] = NoProbe
    BY <1>1, <1>2, <1>3 DEF ProbeInv
  <1>. QED  BY <1>2, <1>3, <1>4, <1>6, <1>7, <1>8, <1>9

\* A notification on its way stays so when a prober is begun.
LEMMA BeginKeepsNotify ==
  ASSUME Calm, Types, ProbeInv, BeginHealthChecks PROVE NoNotify' => NoNotify
  <1>1. ASSUME NEW t \in Targets, NEW i \in Ids, probe[t][i].held = "notify"
        PROVE  probe'[t][i].held = "notify"
    BY <1>1, BeginBegins, ProbeTypes, SMTT(60) DEF Stopped
  <1>. QED  BY <1>1 DEF NoNotify

-----------------------------------------------------------------------------
(* The steps. *)

\* A new load balancer satisfies the inductive invariant.
LEMMA LBStarts == Init => LBInv
  <1>. SUFFICES ASSUME Init PROVE LBInv
    OBVIOUS
  <1>0. all \subseteq Targets /\ all # {} /\ InitCommon
    BY DEF Init, NewLoadBalancer, MarkAllHealthy
  <1>1. \A open \in BOOLEAN, i \in Ids :
          /\ FirstProber(open)[i] \in Probes /\ FirstProber(open)[i].held = "none"
          /\ FirstProber(open)[i].open <=> open /\ i = 1
          /\ ~open \/ i # 1 => FirstProber(open)[i] = NoProbe
    BY DEF FirstProber, Probes, Held, NoProbe
  <1>2. \A open \in BOOLEAN : FirstProber(open) \in [Ids -> Probes]
    BY <1>1 DEF FirstProber
  <1>3. PICK several \in BOOLEAN :
          probe = [t \in Targets |-> FirstProber(several /\ t \in all)] /\ (multiTarget => several)
    <2>1. CASE NewLoadBalancer
      <3>1. probe = [t \in Targets |-> FirstProber(TRUE /\ t \in all)]
        BY <2>1, SMTT(60) DEF NewLoadBalancer
      <3>. QED  BY <3>1
    <2>2. CASE MarkAllHealthy
      BY <2>2 DEF MarkAllHealthy, multiTarget
    <2>. QED  BY <2>1, <2>2 DEF Init
  <1>4. \A t \in Targets : drain[t] = NoDrain /\ inflight[t] = {} /\ probers[t] = 1
    BY <1>0 DEF InitCommon
  <1>5. Types
    <2>1. probe \in [Targets -> [Ids -> Probes]]
      BY <1>2, <1>3
    <2>2. tstate \in [Targets -> TargetStates] /\ pool \subseteq all /\ answered \subseteq all
      BY DEF Init, NewLoadBalancer, MarkAllHealthy, TargetStates
    <2>3. /\ marked \in BOOLEAN
          /\ waiter \in {"none", "deploying", "waiting", "healthy", "failed"}
      BY DEF Init, NewLoadBalancer, MarkAllHealthy
    <2>4. /\ drain \in [Targets -> Drains] /\ probers \in [Targets -> Ids]
          /\ inflight \in [Targets -> SUBSET Requests]
      BY <1>0, ProbeTypes DEF InitCommon
    <2>5. suspended \in BOOLEAN /\ disposed \in BOOLEAN
      BY <1>0 DEF InitCommon
    <2>. QED  BY <1>0, <2>1, <2>2, <2>3, <2>4, <2>5 DEF Types
  <1>6. ProbeInv
    <2>1. \A t \in Targets : probe[t] = FirstProber(several /\ t \in all)
      BY <1>3
    <2>2. \A t \in Targets, i \in Ids :
            /\ t \notin all \/ i # 1 => probe[t][i] = NoProbe
            /\ probe[t][i].held = "none"
      BY <1>1, <2>1
    <2>3. several => \A t \in all : probe[t][1].open
      BY <1>0, <1>1, <2>1, ProbeTypes
    <2>. QED  BY <1>0, <1>3, <1>4, <2>2, <2>3, ProbeTypes, SMTT(60) DEF ProbeInv, InitCommon, Ids
  <1>7. HealthInv
    BY <1>0, <1>4, ProbeTypes
    DEF HealthInv, HealthyMeansAnswered, Init, NewLoadBalancer, MarkAllHealthy
  <1>8. DrainInv /\ NapInv
    BY <1>0, <1>4, ProbeTypes DEF DrainInv, DrainCoversInflight, NapInv, InitCommon
  <1>9. PoolInv
    BY <1>0, <1>4, ProbeTypes
    DEF PoolInv, RightPool, Settled, Init, NewLoadBalancer, MarkAllHealthy
  <1>. QED  BY <1>5, <1>6, <1>7, <1>8, <1>9 DEF LBInv

\* What a prober does.
LEMMA CheckKeeps ==
  ASSUME Calm, LBInv, NEW t \in all, NEW i \in Ids, Check(t, i) PROVE LBInv'
  <1>. USE DEF LBInv
  <1>0. t \in Targets /\ probe[t][i] = [open |-> TRUE, held |-> "none"]
    BY DEF Check, Types
  <1>1. PICK h \in {"ok", "fail"} : probe' = Holding(probe, t, i, h)
    BY DEF Check, Holding
  <1>2. UNCHANGED <<all, tstate, probers, pool, marked, waiter, answered, suspended, disposed,
                    drain, inflight>>
    BY DEF Check, healthVars, requestVars, napVars, worldVars
  <1>3. /\ probe' \in [Targets -> [Ids -> Probes]]
        /\ probe'[t][i] = [open |-> TRUE, held |-> h]
        /\ \A u \in Targets, k \in Ids : u # t \/ k # i => probe'[u][k] = probe[u][k]
    <2>0. probe[t][i].open = TRUE
      BY <1>0, SMTT(60)
    <2>1. h \in Held /\ t \in Targets /\ probe \in [Targets -> [Ids -> Probes]]
      BY <1>0 DEF Types, Held
    <2>2. /\ probe' \in [Targets -> [Ids -> Probes]]
          /\ probe'[t][i] = [open |-> probe[t][i].open, held |-> h]
          /\ \A u \in Targets, k \in Ids : u # t \/ k # i => probe'[u][k] = probe[u][k]
      BY <1>1, <2>1, HeldBecomes, SMTT(60)
    <2>. QED  BY <2>0, <2>2
  <1>4. Types' /\ HealthInv' /\ NapInv'
    BY <1>2, <1>3 DEF Types, HealthInv, HealthyMeansAnswered, NapInv
  <1>5. ProbeInv'
    <2>1. multiTarget' = multiTarget
      BY <1>2 DEF multiTarget
    <2>2. \A u \in Targets, k \in Ids : u \notin all' \/ k > probers'[u] => probe'[u][k] = NoProbe
      BY <1>0, <1>2, <1>3, ProbeTypes, SMTT(60) DEF ProbeInv
    <2>3. \A u \in Targets, k \in Ids : probe'[u][k].open \/ probe'[u][k].held \in {"none", "notify"}
      BY <1>0, <1>2, <1>3, ProbeTypes, SMTT(60) DEF ProbeInv
    <2>4. suspended' \/ disposed' => \A u \in Targets, k \in Ids : ~probe'[u][k].open
      BY <1>0, <1>2, <1>3, ProbeTypes, SMTT(60) DEF ProbeInv
    <2>5. multiTarget' /\ ~suspended' /\ ~disposed' => \A u \in all' : \E k \in Ids : probe'[u][k].open
      <3>1. multiTarget => \A u \in all, k \in Ids : probe[u][k].open => probe'[u][k].open
        <4>. SUFFICES ASSUME NEW u \in all, NEW k \in Ids, probe[u][k].open
                      PROVE  probe'[u][k].open
          OBVIOUS
        <4>1. CASE u = t /\ k = i
          BY <1>3, <4>1, SMTT(60)
        <4>2. CASE u # t \/ k # i
          BY <1>3, <4>2 DEF Types
        <4>. QED  BY <4>1, <4>2
      <3>2. multiTarget /\ ~suspended /\ ~disposed => \A u \in all : \E k \in Ids : probe[u][k].open
        BY DEF ProbeInv
      <3>. QED  BY <1>2, <2>1, <3>1, <3>2
    <2>. QED  BY <2>2, <2>3, <2>4, <2>5 DEF ProbeInv
  <1>6. DrainInv'
    BY <1>0, <1>2, <1>3, ProbeTypes, SMTT(60) DEF DrainInv, DrainCoversInflight, NotProbed, multiTarget
  <1>7. NoNotify' => NoNotify
    BY <1>0, <1>3, SMTT(60) DEF NoNotify
  <1>8. PoolInv'
    BY <1>2, <1>7 DEF PoolInv, RightPool, Settled
  <1>. QED  BY <1>4, <1>5, <1>6, <1>8

\* HealthCheckCompleted preserves the inductive invariant.
LEMMA CompletedKeeps ==
  ASSUME Calm, LBInv, NEW t \in all, NEW i \in Ids, HealthCheckCompleted(t, i) PROVE LBInv'
  <1>. USE DEF LBInv
  <1>0. t \in Targets /\ probe[t][i].held \in {"ok", "fail"}
    BY DEF HealthCheckCompleted, Types
  <1>1. probe[t][i].open /\ ~suspended /\ ~disposed
    BY <1>0 DEF ProbeInv
  <1>2. ~drain[t].on
    BY <1>0, <1>1, ProbeTypes DEF DrainInv, NotProbed
  <1>3. UNCHANGED <<all, probers, pool, marked, waiter, suspended, disposed, drain, inflight>>
    BY DEF HealthCheckCompleted, requestVars, napVars, worldVars
  <1>4. PICK new \in TargetStates :
          /\ tstate' = [tstate EXCEPT ![t] = new]
          /\ probe' = Holding(probe, t, i, IF new # tstate[t] THEN "notify" ELSE "none")
          /\ answered \subseteq answered' /\ answered' \subseteq answered \cup {t}
          /\ new = "healthy" /\ new # tstate[t] => t \in answered'
    BY <1>0 DEF HealthCheckCompleted, Holding, Types, TargetStates
  <1>5. /\ probe' \in [Targets -> [Ids -> Probes]]
        /\ probe'[t][i].open
        /\ probe'[t][i].held = IF new # tstate[t] THEN "notify" ELSE "none"
        /\ \A u \in Targets, k \in Ids : u # t \/ k # i => probe'[u][k] = probe[u][k]
    <2>. DEFINE h == IF new # tstate[t] THEN "notify" ELSE "none"
    <2>1. h \in Held /\ probe \in [Targets -> [Ids -> Probes]]
      BY DEF Held, Types
    <2>2. probe' = Holding(probe, t, i, h)
      BY <1>4
    <2>. HIDE DEF h
    <2>3. /\ probe' \in [Targets -> [Ids -> Probes]]
          /\ probe'[t][i] = [open |-> probe[t][i].open, held |-> h]
          /\ \A u \in Targets, k \in Ids : u # t \/ k # i => probe'[u][k] = probe[u][k]
      BY <1>0, <2>1, <2>2, HeldBecomes, SMTT(60)
    <2>. QED  BY <1>1, <2>3, SMTT(60) DEF h
  <1>6. Types'
    BY <1>0, <1>3, <1>4, <1>5 DEF Types
  <1>7. ProbeInv'
    <2>1. multiTarget' = multiTarget
      BY <1>3 DEF multiTarget
    <2>2. \A u \in Targets, k \in Ids : u \notin all' \/ k > probers'[u] => probe'[u][k] = NoProbe
      BY <1>0, <1>1, <1>3, <1>5, ProbeTypes, SMTT(60) DEF ProbeInv
    <2>3. \A u \in Targets, k \in Ids : probe'[u][k].open \/ probe'[u][k].held \in {"none", "notify"}
      BY <1>0, <1>1, <1>3, <1>5, ProbeTypes, SMTT(60) DEF ProbeInv
    <2>4. suspended' \/ disposed' => \A u \in Targets, k \in Ids : ~probe'[u][k].open
      BY <1>0, <1>1, <1>3, <1>5, ProbeTypes DEF ProbeInv
    <2>5. multiTarget' /\ ~suspended' /\ ~disposed' => \A u \in all' : \E k \in Ids : probe'[u][k].open
      <3>1. multiTarget => \A u \in all, k \in Ids : probe[u][k].open => probe'[u][k].open
        BY <1>0, <1>1, <1>3, <1>5, ProbeTypes DEF Types
      <3>2. multiTarget /\ ~suspended /\ ~disposed => \A u \in all : \E k \in Ids : probe[u][k].open
        BY DEF ProbeInv
      <3>. QED  BY <1>3, <2>1, <3>1, <3>2
    <2>. QED  BY <2>2, <2>3, <2>4, <2>5 DEF ProbeInv
  <1>8. HealthInv'
    BY <1>0, <1>3, <1>4 DEF Types, HealthInv, HealthyMeansAnswered
  <1>9. DrainInv'
    BY <1>0, <1>2, <1>3, <1>4, <1>5, SMTT(60)
    DEF Types, DrainInv, DrainCoversInflight, NotProbed, multiTarget
  <1>10. NapInv'
    BY <1>1, <1>3 DEF NapInv
  <1>11. PoolInv'
    <2>1. CASE new # tstate[t]
      BY <1>0, <1>5, <2>1 DEF PoolInv, NoNotify
    <2>2. CASE new = tstate[t]
      <3>1. tstate' = tstate
        BY <1>4, <2>2 DEF Types
      <3>2. NoNotify' => NoNotify
        BY <1>0, <1>5, SMTT(60) DEF NoNotify
      <3>. QED  BY <1>3, <3>1, <3>2 DEF PoolInv, RightPool, Settled
    <2>. QED  BY <2>1, <2>2
  <1>. QED  BY <1>6, <1>7, <1>8, <1>9, <1>10, <1>11

\* TargetStateChanged preserves the inductive invariant.
LEMMA ChangedKeeps ==
  ASSUME Calm, LBInv, NEW t \in all, NEW i \in Ids, TargetStateChanged(t, i) PROVE LBInv'
  <1>. USE DEF LBInv
  <1>. DEFINE ps == Holding(probe, t, i, "none")
              healthy == {u \in all : tstate[u] = "healthy"}
  <1>0. t \in Targets /\ probe[t][i].held = "notify"
    BY DEF TargetStateChanged, Types
  <1>1. UNCHANGED <<all, tstate, probers, waiter, answered, suspended, disposed, drain, inflight>>
    BY DEF TargetStateChanged, requestVars, napVars, worldVars
  <1>2. /\ pool' = healthy
        /\ marked' = (marked \/ healthy = all)
        /\ probe' = ps \/ (~multiTarget /\ probe' = StopHealthChecks(ps))
    BY DEF TargetStateChanged, updateHealthyTargets, Holding
  <1>3. /\ ps \in [Targets -> [Ids -> Probes]]
        /\ ps[t][i].held = "none" /\ ps[t][i].open = probe[t][i].open
        /\ \A u \in Targets, k \in Ids : u # t \/ k # i => ps[u][k] = probe[u][k]
    <2>1. "none" \in Held /\ probe \in [Targets -> [Ids -> Probes]]
      BY DEF Types, Held
    <2>2. /\ ps \in [Targets -> [Ids -> Probes]]
          /\ ps[t][i] = [open |-> probe[t][i].open, held |-> "none"]
          /\ \A u \in Targets, k \in Ids : u # t \/ k # i => ps[u][k] = probe[u][k]
      BY <1>0, <2>1, HeldBecomes, SMTT(60)
    <2>. QED  BY <2>2, SMTT(60)
  <1>4. /\ \A u \in Targets, k \in Ids :
             /\ ps[u][k].open = probe[u][k].open
             /\ probe[u][k] = NoProbe => ps[u][k] = NoProbe
             /\ probe[u][k].open \/ ps[u][k].held \in {"none", "notify"}
    BY <1>0, <1>3, ProbeTypes, SMTT(60) DEF ProbeInv
  <1>. HIDE DEF ps
  <1>5. /\ probe' \in [Targets -> [Ids -> Probes]]
        /\ \A u \in Targets, k \in Ids :
             /\ probe'[u][k].open => probe[u][k].open
             /\ multiTarget => probe'[u][k].open = probe[u][k].open
             /\ probe[u][k] = NoProbe => probe'[u][k] = NoProbe
             /\ probe'[u][k].open \/ probe'[u][k].held \in {"none", "notify"}
    BY <1>2, <1>3, <1>4, StopStops, SMTT(60) DEF Stopped
  <1>6. Types'
    BY <1>1, <1>2, <1>5 DEF Types
  <1>7. ProbeInv'
    <2>1. multiTarget' = multiTarget
      BY <1>1 DEF multiTarget
    <2>2. \A u \in Targets, k \in Ids : u \notin all' \/ k > probers'[u] => probe'[u][k] = NoProbe
      BY <1>1, <1>5, SMTT(60) DEF ProbeInv
    <2>3. \A u \in Targets, k \in Ids : probe'[u][k].open \/ probe'[u][k].held \in {"none", "notify"}
      BY <1>1, <1>5 DEF ProbeInv
    <2>4. suspended' \/ disposed' => \A u \in Targets, k \in Ids : ~probe'[u][k].open
      BY <1>1, <1>5 DEF ProbeInv
    <2>5. multiTarget' /\ ~suspended' /\ ~disposed' => \A u \in all' : \E k \in Ids : probe'[u][k].open
      <3>1. multiTarget => \A u \in all, k \in Ids : probe[u][k].open => probe'[u][k].open
        BY <1>1, <1>5 DEF Types
      <3>2. multiTarget /\ ~suspended /\ ~disposed => \A u \in all : \E k \in Ids : probe[u][k].open
        BY DEF ProbeInv
      <3>. QED  BY <1>1, <2>1, <3>1, <3>2
    <2>. QED  BY <2>2, <2>3, <2>4, <2>5 DEF ProbeInv
  <1>8. HealthInv'
    BY <1>1, <1>2 DEF HealthInv, HealthyMeansAnswered, Types
  <1>9. DrainInv'
    BY <1>1, <1>5, SMTT(60) DEF DrainInv, DrainCoversInflight, NotProbed, multiTarget
  <1>10. NapInv'
    BY <1>1, <1>2 DEF NapInv
  <1>11. PoolInv'
    <2>. SUFFICES ASSUME ~disposed, NEW u \in all
                  PROVE  tstate[u] = "healthy" <=> Settled(u) = "healthy"
      BY <1>1, <1>2 DEF PoolInv, RightPool, Settled
    <2>1. CASE drain[u].on
      <3>1. u \in Targets /\ tstate[u] = "draining" /\ NotProbed(u)
        BY <2>1 DEF DrainInv, Types
      <3>2. u # t
        BY <1>0, <3>1, ProbeTypes DEF NotProbed
      <3>3. suspended
        BY <2>1, <3>1, <3>2, OnlyOne DEF DrainInv
      <3>. QED  BY <2>1, <3>1, <3>3 DEF NapInv, Settled
    <2>. QED  BY <2>1 DEF Settled
  <1>. QED  BY <1>6, <1>7, <1>8, <1>9, <1>10, <1>11

\* Sleeping, waking and disposing.  What stopping the probers leaves of the
\* facts about them.
LEMMA StopKeepsProbes ==
  ASSUME Calm, LBInv, probe' = StopHealthChecks(probe), UNCHANGED <<all, probers>>,
         suspended' \/ disposed'
  PROVE  /\ probe' \in [Targets -> [Ids -> Probes]] /\ ProbeInv'
         /\ \A t \in Targets : NotProbed(t) => NotProbed(t)'
  <1>1. /\ probe' \in [Targets -> [Ids -> Probes]]
        /\ \A t \in Targets, i \in Ids : Stopped(probe'[t][i], probe[t][i])
    BY StopStops DEF LBInv, Types
  <1>2. \A t \in Targets, i \in Ids :
          /\ ~probe'[t][i].open /\ probe'[t][i].held \in {"none", "notify"}
          /\ probe[t][i] = NoProbe => probe'[t][i] = NoProbe
    BY <1>1 DEF Stopped
  <1>3. ProbeInv'
    BY <1>2, SMTT(60) DEF LBInv, ProbeInv
  <1>. QED  BY <1>1, <1>2, <1>3 DEF NotProbed

\* SuspendForSleep preserves the inductive invariant.
LEMMA SuspendKeeps == ASSUME Calm, LBInv, SuspendForSleep PROVE LBInv'
  <1>. USE DEF LBInv
  <1>0. /\ probe' = StopHealthChecks(probe) /\ suspended' = TRUE /\ pool' = {}
        /\ tstate' = [t \in Targets |-> "unhealthy"]
        /\ UNCHANGED <<all, probers, marked, waiter, answered, drain, inflight, disposed>>
    BY DEF SuspendForSleep, requestVars, worldVars
  <1>1. \A t \in Targets : ~drain[t].on
    BY DEF SuspendForSleep, NoDrainInTheWay, Calm
  <1>2. probe' \in [Targets -> [Ids -> Probes]] /\ ProbeInv'
    BY <1>0, StopKeepsProbes
  <1>3. Types'
    BY <1>0, <1>2 DEF Types, TargetStates
  <1>4. HealthInv' /\ DrainInv' /\ NapInv'
    BY <1>0, <1>1
    DEF Types, HealthInv, HealthyMeansAnswered, DrainInv, DrainCoversInflight, NapInv
  <1>5. PoolInv'
    BY <1>0, <1>1 DEF Types, PoolInv, RightPool, Settled
  <1>. QED  BY <1>2, <1>3, <1>4, <1>5

\* Dispose preserves the inductive invariant.
LEMMA DisposeKeeps ==
  ASSUME Calm, LBInv, probe' = StopHealthChecks(probe), disposed' = TRUE,
         waiter' \in {"none", "deploying", "waiting", "healthy", "failed"},
         waiter' = "healthy" => marked,
         UNCHANGED <<all, tstate, probers, pool, marked, answered, drain, inflight, suspended>>
  PROVE  LBInv'
  <1>. USE DEF LBInv
  <1>1. probe' \in [Targets -> [Ids -> Probes]] /\ ProbeInv'
    BY StopKeepsProbes
  <1>2. Types' /\ HealthInv' /\ NapInv' /\ PoolInv'
    BY <1>1 DEF Types, HealthInv, HealthyMeansAnswered, NapInv, PoolInv
  <1>3. DrainInv'
    BY DEF DrainInv, DrainCoversInflight
  <1>. QED  BY <1>1, <1>2, <1>3

\* A wake, or the recheck of a restored pool.
LEMMA BeginKeepsProbes ==
  ASSUME Calm, LBInv, BeginHealthChecks, UNCHANGED all, ~suspended', ~disposed'
  PROVE  ProbeInv'
  <1>. USE DEF LBInv
  <1>1. \A t \in Targets, i \in Ids : t \notin all \/ i > probers'[t] => probe'[t][i] = NoProbe
    <2>. SUFFICES ASSUME NEW t \in Targets, NEW i \in Ids, t \notin all \/ i > probers'[t]
                  PROVE  probe'[t][i] = NoProbe
      OBVIOUS
    <2>1. probers[t] \in Nat /\ probers'[t] \in Nat /\ i \in Nat
      BY BeginBegins, ProbersAssumption, SMTT(60) DEF Types, Ids
    <2>2. t \notin all \/ i # probers'[t]
      BY <2>1, SMTT(60)
    <2>3. Stopped(probe'[t][i], probe[t][i])
      BY <2>2, BeginBegins
    <2>4. t \notin all \/ i > probers[t]
      BY <2>1, BeginBegins, SMTT(60)
    <2>. QED  BY <2>3, <2>4 DEF Stopped, ProbeInv
  <1>2. \A t \in Targets, i \in Ids : probe'[t][i].open \/ probe'[t][i].held \in {"none", "notify"}
    BY BeginBegins, SMTT(60) DEF Stopped
  <1>3. \A t \in all : probers'[t] \in Ids /\ probe'[t][probers'[t]].open
    BY BeginBegins, SMTT(60) DEF Types
  <1>. QED  BY <1>1, <1>2, <1>3, SMTT(60) DEF ProbeInv

\* ResumeFromSleep preserves the inductive invariant.
LEMMA ResumeKeeps == ASSUME Calm, LBInv, ResumeFromSleep PROVE LBInv'
  <1>. USE DEF LBInv
  <1>0. /\ marked' = FALSE /\ waiter' = "waiting" /\ answered' = {} /\ suspended' = FALSE
        /\ tstate' = [t \in Targets |-> "adding"]
        /\ BeginHealthChecks /\ ~disposed
        /\ UNCHANGED <<all, pool, drain, inflight, disposed>>
    BY DEF ResumeFromSleep, requestVars, worldVars
  <1>1. \A t \in Targets : ~drain[t].on
    BY DEF ResumeFromSleep, NoDrainInTheWay, Calm
  <1>2. ProbeInv'
    BY <1>0, BeginKeepsProbes
  <1>3. Types'
    BY <1>0, BeginBegins DEF Types, TargetStates
  <1>4. HealthInv' /\ DrainInv' /\ NapInv' /\ PoolInv'
    BY <1>0, <1>1
    DEF Types, HealthInv, HealthyMeansAnswered, DrainInv, DrainCoversInflight, NapInv, PoolInv
  <1>. QED  BY <1>2, <1>3, <1>4

\* RecheckHealth preserves the inductive invariant.
LEMMA RecheckKeeps == ASSUME Calm, LBInv, RecheckHealth PROVE LBInv'
  <1>. USE DEF LBInv
  <1>0. /\ BeginHealthChecks /\ ~suspended /\ ~disposed /\ \A t \in Targets : ~drain[t].on
        /\ UNCHANGED <<all, tstate, pool, marked, waiter, answered, drain, inflight, suspended,
                       disposed>>
    BY DEF RecheckHealth, requestVars, napVars, worldVars
  <1>1. ProbeInv'
    BY <1>0, BeginKeepsProbes
  <1>2. Types'
    BY <1>0, BeginBegins DEF Types
  <1>3. HealthInv' /\ DrainInv' /\ NapInv'
    BY <1>0 DEF HealthInv, HealthyMeansAnswered, DrainInv, DrainCoversInflight, NapInv
  <1>4. PoolInv'
    BY <1>0, BeginKeepsNotify DEF PoolInv, RightPool, Settled
  <1>. QED  BY <1>1, <1>2, <1>3, <1>4

\* WaitUntilHealthy preserves the inductive invariant.
LEMMA WaitKeeps == ASSUME Calm, LBInv, WaitUntilHealthy PROVE LBInv'
  <1>0. /\ waiter' = IF marked THEN "healthy" ELSE "failed"
        /\ UNCHANGED <<all, tstate, probers, pool, marked, answered, drain, inflight, suspended>>
    BY DEF WaitUntilHealthy, requestVars, worldVars
  <1>1. CASE probe' = StopHealthChecks(probe) /\ disposed' = TRUE
    BY <1>0, <1>1, DisposeKeeps DEF LBInv, Types
  <1>2. CASE UNCHANGED <<probe, disposed>>
    <2>1. Types' /\ ProbeInv' /\ HealthInv' /\ NapInv'
      BY <1>0, <1>2 DEF LBInv, Types, ProbeInv, HealthInv, HealthyMeansAnswered, NapInv, multiTarget
    <2>2. DrainInv'
      BY <1>0, <1>2 DEF LBInv, DrainInv, DrainCoversInflight, NotProbed, multiTarget
    <2>3. PoolInv'
      BY <1>0, <1>2 DEF LBInv, PoolInv, NoNotify, RightPool, Settled
    <2>. QED  BY <2>1, <2>2, <2>3 DEF LBInv
  <1>. QED  BY <1>1, <1>2 DEF WaitUntilHealthy

\* Requests, and the drains they meet.
LEMMA RequestKeeps ==
  ASSUME LBInv, NEW r \in Requests, NEW t \in all,
         claimTarget(r, t) \/ Hijack(r, t) \/ endInflightRequest(r, t)
  PROVE  LBInv'
  <1>. USE DEF LBInv
  <1>0. t \in Targets
    BY DEF Types
  <1>1. UNCHANGED <<all, tstate, probe, probers, pool, marked, waiter, answered, suspended,
                    disposed, drain>>
    BY DEF claimTarget, Hijack, endInflightRequest, probeVars, healthVars, napVars, worldVars
  <1>2. /\ inflight' \in [Targets -> SUBSET Requests]
        /\ \A u \in Targets : u # t \/ tstate[t] = "draining" => inflight'[u] \subseteq inflight[u]
    BY <1>0, SMTT(60) DEF claimTarget, Hijack, endInflightRequest, Types
  <1>3. Types' /\ ProbeInv' /\ HealthInv' /\ NapInv'
    BY <1>1, <1>2 DEF Types, ProbeInv, HealthInv, HealthyMeansAnswered, NapInv, multiTarget
  <1>4. DrainInv'
    BY <1>1, <1>2 DEF DrainInv, DrainCoversInflight, NotProbed, multiTarget
  <1>5. PoolInv'
    BY <1>1 DEF PoolInv, NoNotify, RightPool, Settled
  <1>. QED  BY <1>3, <1>4, <1>5

\* The start of a drain preserves the inductive invariant.
LEMMA DrainBeginsKeeps == ASSUME Calm, LBInv, NEW t \in all, Drain(t) PROVE LBInv'
  <1>. USE DEF LBInv
  <1>. DEFINE d == [on |-> TRUE, original |-> tstate[t], toCancel |-> inflight[t]]
  <1>0. /\ t \in Targets /\ ~drain[t].on
        /\ drain' = [drain EXCEPT ![t] = d] /\ tstate' = [tstate EXCEPT ![t] = "draining"]
        /\ UNCHANGED <<all, probe, probers, pool, marked, waiter, answered, suspended, disposed,
                       inflight>>
    BY DEF Drain, probeVars, healthVars, napVars, worldVars, Types
  <1>1. d \in Drains /\ d.on /\ d.original = tstate[t] /\ d.toCancel = inflight[t]
    BY <1>0 DEF Types, Drains
  <1>. HIDE DEF d
  <1>2. disposed \/ NotProbed(t)
    BY DEF Drain, Calm
  <1>3. ~disposed => suspended \/ ~multiTarget
    BY <1>2, ProbeTypes DEF NotProbed, ProbeInv
  <1>4. /\ drain'[t] = d /\ tstate'[t] = "draining"
        /\ \A u \in Targets : u # t => drain'[u] = drain[u] /\ tstate'[u] = tstate[u]
    BY <1>0 DEF Types
  <1>5. Types' /\ ProbeInv'
    BY <1>0, <1>1 DEF Types, TargetStates, ProbeInv, multiTarget
  <1>6. HealthInv' /\ NapInv'
    BY <1>0, <1>1, <1>4, SMTT(60) DEF Types, HealthInv, HealthyMeansAnswered, NapInv
  <1>7. DrainInv'
    BY <1>0, <1>1, <1>2, <1>3, <1>4, SMTT(60) DEF DrainInv, DrainCoversInflight, NotProbed, multiTarget
  <1>8. PoolInv'
    BY <1>0, <1>1, <1>4, SMTT(60) DEF Types, PoolInv, NoNotify, RightPool, Settled
  <1>. QED  BY <1>5, <1>6, <1>7, <1>8

\* The return of a drain preserves the inductive invariant.
LEMMA DrainReturnsKeeps == ASSUME LBInv, NEW t \in all, DrainReturns(t) PROVE LBInv'
  <1>. USE DEF LBInv
  <1>0. /\ t \in Targets /\ drain[t].on
        /\ drain' = [drain EXCEPT ![t] = NoDrain]
        /\ tstate' = [tstate EXCEPT ![t] = drain[t].original]
        /\ UNCHANGED <<all, probe, probers, pool, marked, waiter, answered, suspended, disposed,
                       inflight>>
    BY DEF DrainReturns, probeVars, healthVars, napVars, worldVars, Types
  <1>1. drain[t].original \in TargetStates
    BY <1>0 DEF Types, Drains
  <1>2. /\ drain'[t] = NoDrain /\ tstate'[t] = drain[t].original
        /\ \A u \in Targets : u # t => drain'[u] = drain[u] /\ tstate'[u] = tstate[u]
    BY <1>0 DEF Types
  <1>3. Types' /\ ProbeInv'
    BY <1>0, <1>1, ProbeTypes DEF Types, ProbeInv, multiTarget
  <1>4. HealthInv' /\ NapInv'
    BY <1>0, <1>2, ProbeTypes DEF Types, HealthInv, HealthyMeansAnswered, NapInv
  <1>5. DrainInv'
    BY <1>0, <1>2, ProbeTypes, SMTT(60) DEF DrainInv, DrainCoversInflight, NotProbed, multiTarget
  <1>6. PoolInv'
    BY <1>0, <1>2, ProbeTypes, SMTT(60) DEF Types, PoolInv, NoNotify, RightPool, Settled
  <1>. QED  BY <1>3, <1>4, <1>5, <1>6

\* Every step of a calm load balancer preserves the inductive invariant.
LEMMA LBKept == ASSUME Calm PROVE LBInv /\ [Next]_vars => LBInv'
  <1>. SUFFICES ASSUME LBInv, [Next]_vars PROVE LBInv'
    OBVIOUS
  <1>1. CASE UNCHANGED <<all, tstate, probe, probers, pool, marked, waiter, answered, suspended,
                         disposed, drain, inflight>>
    BY <1>1
    DEF LBInv, Types, ProbeInv, HealthInv, HealthyMeansAnswered, DrainInv, DrainCoversInflight,
        NapInv, PoolInv, NoNotify, NotProbed, RightPool, Settled, multiTarget
  <1>2. CASE UNCHANGED vars
    BY <1>1, <1>2 DEF vars, probeVars, healthVars, requestVars, napVars, worldVars
  <1>3. ASSUME NEW t \in all, Flip(t) PROVE LBInv'
    BY <1>1, <1>3 DEF Flip, probeVars, healthVars, requestVars, napVars
  <1>4. CASE Dispose
    BY <1>4, DisposeKeeps
    DEF Dispose, LBInv, Types, HealthInv, healthVars, requestVars, worldVars
  <1>5. ASSUME NEW t \in all, ProbeStep(t) PROVE LBInv'
    BY <1>5, CheckKeeps, CompletedKeeps, ChangedKeeps DEF ProbeStep
  <1>. QED
    BY <1>2, <1>3, <1>4, <1>5, RecheckKeeps, SuspendKeeps, ResumeKeeps, WaitKeeps, RequestKeeps,
       DrainBeginsKeeps, DrainReturnsKeeps
    DEF Next, RequestStep, DrainStep

-----------------------------------------------------------------------------
(* The theorems. *)

\* The pool holds exactly the healthy targets when nothing is on its way to it,
\* and none during a nap (updateHealthyTargets, SuspendForSleep), for a load
\* balancer of any size, through sleeps, wakes, rechecks and drains.
THEOREM PoolAlwaysRight == ASSUME Calm PROVE Spec => []PoolIsRight
  <1>1. LBInv /\ [Next]_vars => LBInv'
    BY LBKept
  <1>2. LBInv => PoolIsRight
    BY DEF LBInv, Types, NapInv, PoolInv, RightPool, Settled, PoolIsRight, PoolIsHealthyTargets,
           SuspendedStaysEmpty
  <1>. QED  BY <1>1, <1>2, LBStarts, PTL DEF Spec

\* WaitUntilHealthy's context is cancelled only when every target has answered
\* since it was armed (ResumeFromSleep re-arms it before it probes again).
THEOREM WokenHaveAnswered == ASSUME Calm PROVE Spec => []HealthyMeansAnswered
  <1>1. LBInv /\ [Next]_vars => LBInv'
    BY LBKept
  <1>2. LBInv => HealthyMeansAnswered
    BY DEF LBInv, HealthInv
  <1>. QED  BY <1>1, <1>2, LBStarts, PTL DEF Spec

\* A drain waits for or cancels every request on its target (StartRequest and
\* Drain), since nothing but the drain's return ends the draining state.
THEOREM DrainsCoverInflight == ASSUME Calm PROVE Spec => []DrainCoversInflight
  <1>1. LBInv /\ [Next]_vars => LBInv'
    BY LBKept
  <1>2. LBInv => DrainCoversInflight
    BY DEF LBInv, DrainInv
  <1>. QED  BY <1>1, <1>2, LBStarts, PTL DEF Spec
=============================================================================
