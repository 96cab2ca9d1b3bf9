------------------------- MODULE ScaleToZeroProofs --------------------------
(***************************************************************************)
(* Proofs about the idle controller, for any set of requests and           *)
(* containers and any bound on generations, and on top of its invariant    *)
(* about a service with its controller: what is in a pool runs, a sleeping *)
(* service is quiet, and no request is let through to an empty pool.       *)
(***************************************************************************)
EXTENDS ScaleToZero, FiniteSetTheorems, TLAPS

\* Zenon proves most leaves; one that needs SMT says so.
USE ZenonT(60)

-----------------------------------------------------------------------------
(***************************************************************************)
(* The controller alone.                                                   *)
(***************************************************************************)
\* The parts of IndInv about stops and wakes, and about requests.
TransitionInv ==
  /\ TransitionHasOwner /\ OneCurrentWake /\ CancelIsForTheWake /\ WakeExcludesStop
  /\ StopIsLatest /\ WakesArePast /\ RoomReserved

RequestInv == ParkedAwaitsTransition /\ NoRequestOutsideActive /\ InflightCounted

\* The record of a generation without a wake is a wake record.
LEMMA NoWakeType == NoWake \in Wakes
  BY DEF NoWake, Wakes, WakeSteps

\* The run goroutine between stops is a sleeper record.
LEMMA RunningType == ASSUME NEW s \in SleeperSteps PROVE Running(s) \in Sleepers
  BY MaxGenerationAssumption, SMTT(60) DEF Running, Sleepers

\* Calling c.cancel leaves a wake record for every generation.
LEMMA CancelType ==
  ASSUME TypeOK PROVE Cancel(wake) \in [Generations -> Wakes]
<1>1. CASE cancel = 0
  BY <1>1 DEF Cancel, TypeOK
<1>2. CASE cancel # 0
  <2>1. wake[cancel] \in Wakes /\ cancel \in Generations
    BY <1>2, MaxGenerationAssumption, SMTT(60) DEF TypeOK, Generations
  <2>2. [wake[cancel] EXCEPT !.cancelled = TRUE] \in Wakes
    BY <2>1 DEF Wakes
  <2> QED
    BY <1>2, <2>1, <2>2 DEF Cancel, TypeOK
<1> QED
  BY <1>1, <1>2

\* So does a wake goroutine that moves on and notes whether it failed.
LEMMA WakeEndType ==
  ASSUME TypeOK, NEW g \in Generations, NEW s \in WakeSteps, NEW f \in BOOLEAN
  PROVE  [wake EXCEPT ![g].step = s, ![g].failed = f] \in [Generations -> Wakes]
  BY DEF TypeOK, Wakes

\* The invariant holds of a first deploy's controller and of a restored one.
LEMMA InitInd == Init => IndInv
<1> SUFFICES ASSUME Init PROVE IndInv
  OBVIOUS
<1>0. NewIdleController
  BY DEF Init, InitDeployed, RestoreSleeping
<1>1. TypeOK
  <2>1. sleeper \in Sleepers
    BY <1>0, RunningType DEF NewIdleController, SleeperSteps
  <2>2. wake \in [Generations -> Wakes]
    BY <1>0, NoWakeType DEF NewIdleController
  <2>3. state \in IdleStates /\ generation \in 0..MaxGeneration /\ cancel \in 0..MaxGeneration
    BY <1>0, MaxGenerationAssumption, SMTT(60) DEF Init, InitDeployed, RestoreSleeping, IdleStates, NewIdleController
  <2>4. refs \in SUBSET Containers /\ up \in SUBSET Containers
    BY RefSetsAssumption DEF Init, InitDeployed, RestoreSleeping
  <2>5. inflight \in Nat
    BY <1>0 DEF NewIdleController
  <2>6. req \in [Requests -> RequestStates]
    BY <1>0 DEF NewIdleController, RequestStates
  <2> QED
    BY <1>0, <2>1, <2>2, <2>3, <2>4, <2>5, <2>6 DEF NewIdleController, TypeOK
<1>2. Admitted = {}
  BY <1>0 DEF NewIdleController, Admitted
<1>3. InflightCounted
  BY <1>0, <1>2, FS_EmptySet DEF NewIdleController, InflightCounted
<1> QED
  BY <1>0, <1>1, <1>3, MaxGenerationAssumption, SMTT(60)
  DEF Init, InitDeployed, RestoreSleeping, NewIdleController, IndInv, TransitionHasOwner,
      OneCurrentWake, CancelIsForTheWake, WakeExcludesStop, StopIsLatest, WakesArePast,
      RoomReserved, ParkedAwaitsTransition, BackoffHasError, NoRequestOutsideActive,
      Running, NoWake, LiveSteps
-----------------------------------------------------------------------------
(* Every step keeps the types. *)

\* No step of any goroutine or operator leaves the types.
LEMMA TypeStep == IndInv /\ [Next]_vars => TypeOK'
<1> SUFFICES ASSUME IndInv, [Next]_vars PROVE TypeOK'
  OBVIOUS
<1> USE MaxGenerationAssumption DEF TypeOK, control, settings, requestVars, wakeErrors, loopVars
<1>T. TypeOK /\ RoomReserved /\ StopIsLatest /\ WakesArePast
  BY DEF IndInv
<1>1. ASSUME NEW r \in Requests, admitActive(r) PROVE TypeOK'
  <2>1. inflight' \in Nat /\ req' \in [Requests -> RequestStates]
    BY <1>T, <1>1, SMTT(60) DEF admitActive, RequestStates
  <2> QED
    BY <1>T, <1>1, <2>1 DEF admitActive
<1>2. ASSUME NEW r \in Requests, admitBackoff(r) PROVE TypeOK'
  BY <1>T, <1>2 DEF admitBackoff, RequestStates
<1>3. ASSUME NEW r \in Requests, startWakeLocked(r) PROVE TypeOK'
  BY <1>T, <1>3, SMTT(60) DEF startWakeLocked, Broadcast, Room, RequestStates, IdleStates, Generations, Wakes, WakeSteps
<1>4. ASSUME NEW r \in Requests, admitWait(r) PROVE TypeOK'
  BY <1>T, <1>4 DEF admitWait, RequestStates
<1>5. ASSUME NEW r \in Requests, GiveUp(r) PROVE TypeOK'
  BY <1>T, <1>5 DEF GiveUp, RequestStates
<1>6. ASSUME NEW r \in Requests, EndRequest(r) PROVE TypeOK'
  <2>1. inflight' \in Nat /\ req' \in [Requests -> RequestStates]
    BY <1>T, <1>6, SMTT(60) DEF EndRequest, RequestStates
  <2> QED
    BY <1>T, <1>6, <2>1 DEF EndRequest, signal
<1>7. ASSUME NEW rs \in SUBSET Containers, redeploy(rs)
      PROVE  /\ state' \in IdleStates /\ generation' \in 0..MaxGeneration
             /\ refs' \in SUBSET Containers /\ cancel' \in 0..MaxGeneration
             /\ wake' \in [Generations -> Wakes] /\ req' \in [Requests -> RequestStates]
             /\ lastErr' \in BOOLEAN /\ backoff' \in BOOLEAN /\ idle' \in BOOLEAN
  <2>1. state' \in IdleStates /\ generation' \in 0..MaxGeneration /\ cancel' \in 0..MaxGeneration
    BY <1>T, <1>7, SMTT(60) DEF redeploy, Room, IdleStates
  <2>2. req' \in [Requests -> RequestStates]
    BY <1>T, <1>7 DEF redeploy, Broadcast, RequestStates
  <2>3. wake' \in [Generations -> Wakes]
    BY <1>T, <1>7, CancelType DEF redeploy
  <2> QED
    BY <1>7, <2>1, <2>2, <2>3 DEF redeploy
<1>8. ASSUME NEW on \in BOOLEAN, NEW rs \in RefSets \cup {{}}, Configure(on, rs) PROVE TypeOK'
  BY <1>T, <1>7, <1>8, RefSetsAssumption DEF Configure, signal
<1>9. ASSUME NEW rs \in RefSets, Reset(rs) PROVE TypeOK'
  BY <1>T, <1>7, <1>9, RefSetsAssumption DEF Reset, signal
<1>10. CASE Close
  <2>1. wake' \in [Generations -> Wakes] /\ cancel' \in 0..MaxGeneration
    BY <1>T, <1>10, CancelType, SMTT(60) DEF Close
  <2> QED
    BY <1>T, <1>10, <2>1 DEF Close
<1>11. CASE Disable
  BY <1>T, <1>11 DEF Disable, signal
<1>12. CASE Enable
  BY <1>T, <1>12 DEF Enable, signal
<1>13. CASE RunArm
  BY <1>T, <1>13, RunningType DEF RunArm, SleeperSteps, eligible
<1>14. CASE RunSignalled
  BY <1>T, <1>14, RunningType DEF RunSignalled, SleeperSteps
<1>15. CASE RunClosed
  BY <1>T, <1>15, RunningType DEF RunClosed, SleeperSteps
<1>16. CASE TimerTooSoon
  BY <1>T, <1>16, RunningType DEF TimerTooSoon, SleeperSteps
<1>17. CASE trySleep
  BY <1>T, <1>17, SMTT(60) DEF trySleep, setStateLocked, Broadcast, Room, Sleepers, SleeperSteps, IdleStates, RequestStates
<1>18. CASE SleepSuspend
  BY <1>T, <1>18 DEF SleepSuspend, Sleepers, SleeperSteps
<1>19. ASSUME NEW c \in Containers, NEW ok \in BOOLEAN, NEW stopped \in BOOLEAN, SleepStop(c, ok, stopped)
       PROVE  TypeOK'
  <2>1. sleeper' \in Sleepers
    BY <1>T, <1>19 DEF SleepStop, Sleepers
  <2>2. up' \in SUBSET Containers
    BY <1>T, <1>19 DEF SleepStop
  <2> QED
    BY <1>T, <1>19, <2>1, <2>2 DEF SleepStop
<1>20. CASE SleepDecide
  <2>1. sleeper' \in Sleepers
    BY <1>T, <1>20, RunningType DEF SleepDecide, SleeperSteps
  <2>2. req' \in [Requests -> RequestStates]
    BY <1>T, <1>20 DEF SleepDecide, setStateLocked, Broadcast, RequestStates
  <2>3. state' \in IdleStates /\ generation' \in 0..MaxGeneration
    BY <1>T, <1>20, SMTT(60) DEF SleepDecide, setStateLocked, StopIsLatest, RoomReserved, Room, IdleStates
  <2>4. idle' \in BOOLEAN
    BY <1>T, <1>20 DEF SleepDecide
  <2> QED
    BY <1>T, <1>20, <2>1, <2>2, <2>3, <2>4 DEF SleepDecide
<1>21. CASE SleepResume
  BY <1>T, <1>21, RunningType DEF SleepResume, SleeperSteps
<1>22. CASE SleepReturn
  BY <1>T, <1>22, RunningType DEF SleepReturn, SleeperSteps
<1>23. ASSUME NEW g \in Generations, NEW c \in Containers, WakeStarted(g, c) PROVE TypeOK'
  BY <1>T, <1>23, SMTT(60) DEF WakeStarted, Wakes, WakeSteps
<1>24. ASSUME NEW g \in Generations, NEW c \in Containers, NEW started \in BOOLEAN, WakeStartFails(g, c, started)
       PROVE  TypeOK'
  <2>1. wake' \in [Generations -> Wakes]
    BY <1>T, <1>24, WakeEndType DEF WakeStartFails, WakeSteps
  <2>2. up' \in SUBSET Containers
    BY <1>T, <1>24 DEF WakeStartFails
  <2> QED
    BY <1>T, <1>24, <2>1, <2>2 DEF WakeStartFails
<1>25. ASSUME NEW g \in Generations, WakeNoBudget(g) PROVE TypeOK'
  BY <1>T, <1>25, WakeEndType DEF WakeNoBudget, WakeSteps
<1>26. ASSUME NEW g \in Generations, WakeResume(g) PROVE TypeOK'
  BY <1>T, <1>26, SMTT(60) DEF WakeResume, Wakes, WakeSteps
<1>27. ASSUME NEW g \in Generations, NEW ok \in BOOLEAN, WakeAwait(g, ok) PROVE TypeOK'
  <2>1. (~ok) \in BOOLEAN
    OBVIOUS
  <2> QED
    BY <1>T, <1>27, <2>1, WakeEndType DEF WakeAwait, WakeSteps
<1>28. ASSUME NEW g \in Generations, finishWake(g) PROVE TypeOK'
  <2>1. wake' \in [Generations -> Wakes]
    <3>1. [NoWake EXCEPT !.step = "suspend"] \in Wakes /\ [NoWake EXCEPT !.step = "persist"] \in Wakes
      BY DEF NoWake, Wakes, WakeSteps
    <3> QED
      BY <1>T, <1>28, <3>1, NoWakeType DEF finishWake
  <2>2. req' \in [Requests -> RequestStates]
    BY <1>T, <1>28 DEF finishWake, setStateLocked, Broadcast, RequestStates
  <2>3. state' \in IdleStates /\ generation' \in 0..MaxGeneration /\ cancel' \in 0..MaxGeneration
    <3>1. g = generation => state = "waking"
      BY <1>28 DEF finishWake, IndInv, OneCurrentWake, LiveSteps
    <3> QED
      BY <1>T, <1>28, <3>1, SMTT(60) DEF finishWake, setStateLocked, RoomReserved, Room, IdleStates
  <2>4. idle' \in BOOLEAN /\ lastErr' \in BOOLEAN /\ backoff' \in BOOLEAN
    <3>1. wake[g].failed \in BOOLEAN
      BY <1>T, <1>28 DEF Wakes
    <3> QED
      BY <1>T, <1>28, <3>1 DEF finishWake
  <2> QED
    BY <1>T, <1>28, <2>1, <2>2, <2>3, <2>4 DEF finishWake
<1>29. ASSUME NEW g \in Generations, WakeReturn(g) PROVE TypeOK'
  BY <1>T, <1>29, NoWakeType DEF WakeReturn
<1>30. CASE SleepAfterElapses
  BY <1>T, <1>30 DEF SleepAfterElapses
<1>31. CASE BackoffElapses
  BY <1>T, <1>31 DEF BackoffElapses
<1>32. CASE UNCHANGED vars
  BY <1>T, <1>32 DEF vars
<1> QED
  BY <1>1, <1>2, <1>3, <1>4, <1>5, <1>6, <1>8, <1>9, <1>10, <1>11, <1>12, <1>13, <1>14,
     <1>15, <1>16, <1>17, <1>18, <1>19, <1>20, <1>21, <1>22, <1>23, <1>24, <1>25, <1>26,
     <1>27, <1>28, <1>29, <1>30, <1>31, <1>32
  DEF Next, RequestStep, BeginRequest, OperatorStep, RunStep, SleepStep, WakeStep, Tick
-----------------------------------------------------------------------------
(* Every step keeps what is known of stops and wakes. *)

\* A step that touches neither goroutines nor the transition keeps TransitionInv.
LEMMA TransitionFrame ==
  ASSUME TransitionInv,
         UNCHANGED <<state, generation, refs, cancel, closed, sleeper, wake, up>>
  PROVE  TransitionInv'
  BY DEF TransitionInv, TransitionHasOwner, OneCurrentWake, CancelIsForTheWake,
         WakeExcludesStop, StopIsLatest, WakesArePast, RoomReserved, Room

\* run's loop moves between steps that are not those of a stop.
LEMMA LoopFrame ==
  ASSUME TransitionInv, NEW s \in SleeperSteps \ {"suspend", "stop"},
         state # "stopping", sleeper' = Running(s),
         UNCHANGED <<state, generation, refs, cancel, closed, wake, up>>
  PROVE  TransitionInv'
  BY DEF TransitionInv, TransitionHasOwner, OneCurrentWake, CancelIsForTheWake,
         WakeExcludesStop, StopIsLatest, WakesArePast, RoomReserved, Room, Running

\* A redeploy makes the service active with a generation of its own.
LEMMA RedeployTransition ==
  ASSUME IndInv, NEW rs, redeploy(rs), UNCHANGED <<closed, sleeper, up>>
  PROVE  TransitionInv'
<1> USE MaxGenerationAssumption DEF IndInv, TypeOK, redeploy
<1>1. \A g \in Generations : wake'[g].step = wake[g].step
  BY DEF Cancel, Generations, Wakes
<1>2. generation' = generation + 1 /\ state' = "active" /\ cancel' = 0
  OBVIOUS
<1>3. OneCurrentWake' /\ WakesArePast'
  BY <1>1, <1>2, SMTT(60) DEF OneCurrentWake, WakesArePast, Generations
<1>4. StopIsLatest'
  BY <1>2, SMTT(60) DEF StopIsLatest, Sleepers
<1> QED
  BY <1>2, <1>3, <1>4
  DEF TransitionInv, TransitionHasOwner, CancelIsForTheWake, WakeExcludesStop, RoomReserved

\* A step of wake g that keeps it running, or that marks it cancelled.
LEMMA WakeFrame ==
  ASSUME IndInv, NEW g \in Generations,
         wake[g].step \in LiveSteps, wake'[g].step \in LiveSteps,
         wake'[g].refs = wake[g].refs,
         wake[g].refs \ wake[g].todo \subseteq up => wake'[g].refs \ wake'[g].todo \subseteq up',
         up \subseteq up',
         \A h \in Generations \ {g} : wake'[h] = wake[h],
         UNCHANGED <<state, generation, refs, cancel, closed, sleeper>>
  PROVE  TransitionInv'
<1> USE DEF IndInv, TypeOK
<1>1. TransitionHasOwner'
  BY DEF TransitionHasOwner
<1>2. OneCurrentWake' /\ WakesArePast'
  BY DEF OneCurrentWake, WakesArePast
<1>3. WakeExcludesStop'
  BY DEF WakeExcludesStop, TransitionHasOwner
<1> QED
  BY <1>1, <1>2, <1>3 DEF TransitionInv, CancelIsForTheWake, StopIsLatest, RoomReserved, Room

\* Every step keeps TransitionInv: one case per critical section or hook.
LEMMA TransitionStep == IndInv /\ [Next]_vars => TransitionInv'
<1> SUFFICES ASSUME IndInv, [Next]_vars PROVE TransitionInv'
  OBVIOUS
<1> USE DEF control, settings, requestVars, wakeErrors, loopVars
<1>T. TypeOK /\ TransitionInv
  BY DEF IndInv, TransitionInv
<1>1. ASSUME NEW r \in Requests, admitActive(r) \/ admitBackoff(r) \/ admitWait(r) PROVE TransitionInv'
  BY <1>T, <1>1, TransitionFrame DEF admitActive, admitBackoff, admitWait
<1>2. ASSUME NEW r \in Requests, startWakeLocked(r) PROVE TransitionInv'
  <2>1. /\ generation + 1 \in Generations /\ Room(1)'
        /\ generation' = generation + 1 /\ cancel' = generation + 1 /\ state' = "waking"
    BY <1>T, <1>2, MaxGenerationAssumption, SMTT(60) DEF startWakeLocked, Room, TypeOK, Generations
  <2>2. /\ wake'[generation + 1].step = "start"
        /\ wake'[generation + 1].refs = refs /\ wake'[generation + 1].todo = refs
        /\ \A h \in Generations \ {generation + 1} : wake'[h] = wake[h]
    BY <1>T, <1>2, <2>1 DEF startWakeLocked, TypeOK
  <2>3. sleeper.step \notin {"suspend", "stop"} /\ UNCHANGED <<refs, sleeper>>
    BY <1>T, <1>2 DEF startWakeLocked, TransitionInv, StopIsLatest
  <2>4. OneCurrentWake' /\ WakesArePast'
    BY <1>T, <2>1, <2>2, SMTT(60) DEF TransitionInv, OneCurrentWake, WakesArePast, TypeOK, Generations
  <2> QED
    BY <2>1, <2>2, <2>3, <2>4, <1>T, SMTT(60)
    DEF TransitionInv, TransitionHasOwner, CancelIsForTheWake, WakeExcludesStop,
        StopIsLatest, RoomReserved, LiveSteps, TypeOK
<1>3. ASSUME NEW r \in Requests, GiveUp(r) \/ EndRequest(r) PROVE TransitionInv'
  BY <1>T, <1>3, TransitionFrame DEF GiveUp, EndRequest
<1>4. ASSUME NEW on \in BOOLEAN, NEW rs \in RefSets \cup {{}}, Configure(on, rs) PROVE TransitionInv'
  <2>1. CASE rs = refs
    BY <1>T, <1>4, <2>1, TransitionFrame DEF Configure
  <2>2. CASE rs # refs
    BY <1>4, <2>2, RedeployTransition DEF Configure
  <2> QED
    BY <2>1, <2>2
<1>5. ASSUME NEW rs \in RefSets, Reset(rs) PROVE TransitionInv'
  BY <1>5, RedeployTransition DEF Reset
<1>6. CASE Close
  <2>1. \A g \in Generations : /\ wake'[g].step = wake[g].step
                               /\ wake'[g].refs = wake[g].refs /\ wake'[g].todo = wake[g].todo
    BY <1>T, <1>6 DEF Close, Cancel, TypeOK, Generations, Wakes
  <2>2. closed' /\ cancel' = 0 /\ UNCHANGED <<state, generation, refs, sleeper, up>>
    BY <1>6 DEF Close
  <2> QED
    BY <1>T, <2>1, <2>2
    DEF TransitionInv, TransitionHasOwner, OneCurrentWake, CancelIsForTheWake,
        WakeExcludesStop, StopIsLatest, WakesArePast, RoomReserved, Room
<1>7. CASE Disable \/ Enable
  BY <1>T, <1>7, TransitionFrame DEF Disable, Enable
<1>8. CASE RunArm \/ RunSignalled \/ RunClosed \/ TimerTooSoon
  <2>1. state # "stopping"
    BY <1>T, <1>8 DEF TransitionInv, TransitionHasOwner, RunArm, RunSignalled, RunClosed, TimerTooSoon
  <2> QED
    BY <1>T, <1>8, <2>1, LoopFrame DEF RunArm, RunSignalled, RunClosed, TimerTooSoon, SleeperSteps
<1>9. CASE trySleep
  <2>1. /\ state = "active" /\ state' = "stopping" /\ generation' = generation + 1 /\ Room(1)'
        /\ sleeper'.step = "suspend" /\ sleeper'.gen = generation' /\ sleeper'.refs = refs
        /\ UNCHANGED <<refs, cancel, closed, wake, up>>
    BY <1>T, <1>9, SMTT(60) DEF trySleep, mayStop, eligible, setStateLocked, Room, TypeOK
  <2> QED
    BY <1>T, <2>1, SMTT(60)
    DEF TransitionInv, TransitionHasOwner, OneCurrentWake, CancelIsForTheWake,
        WakeExcludesStop, StopIsLatest, WakesArePast, RoomReserved, TypeOK, Generations
<1>10. CASE SleepSuspend
  <2>1. /\ sleeper.step = "suspend" /\ sleeper'.step = "stop"
        /\ sleeper'.gen = sleeper.gen /\ sleeper'.refs = sleeper.refs
        /\ UNCHANGED <<state, generation, refs, cancel, closed, wake, up>>
    BY <1>T, <1>10 DEF SleepSuspend, TypeOK, Sleepers
  <2> QED
    BY <1>T, <2>1
    DEF TransitionInv, TransitionHasOwner, OneCurrentWake, CancelIsForTheWake,
        WakeExcludesStop, StopIsLatest, WakesArePast, RoomReserved, Room
<1>11. ASSUME NEW c \in Containers, NEW ok \in BOOLEAN, NEW stopped \in BOOLEAN, SleepStop(c, ok, stopped)
       PROVE  TransitionInv'
  <2>1. /\ sleeper.step = "stop" /\ sleeper'.step = "stop"
        /\ sleeper'.gen = sleeper.gen /\ sleeper'.refs = sleeper.refs
        /\ UNCHANGED <<state, generation, refs, cancel, closed, wake>>
    BY <1>T, <1>11 DEF SleepStop, TypeOK, Sleepers
  <2>2. state # "waking"
    BY <1>T, <2>1 DEF TransitionInv, StopIsLatest
  <2> QED
    BY <1>T, <2>1, <2>2
    DEF TransitionInv, TransitionHasOwner, OneCurrentWake, CancelIsForTheWake,
        WakeExcludesStop, StopIsLatest, WakesArePast, RoomReserved, Room
<1>12. CASE SleepDecide
  <2>1. UNCHANGED <<refs, cancel, closed, wake, up>> /\ sleeper.step = "stop"
    BY <1>12 DEF SleepDecide
  <2>2. CASE sleeper.gen # generation
    <3>1. state = "active"
      BY <1>T, <2>1, <2>2 DEF TransitionInv, StopIsLatest
    <3> QED
      BY <1>T, <1>12, <2>1, <2>2, <3>1, LoopFrame DEF SleepDecide, SleeperSteps
  <2>3. CASE sleeper.gen = generation
    <3>1. state = "stopping"
      BY <1>T, <2>1, <2>3 DEF TransitionInv, StopIsLatest
    <3>2. /\ state' \in {"sleeping", "active"} /\ generation' = generation + 1
          /\ sleeper'.step \in {"persist", "resume"}
      BY <1>12, <2>3, <3>1, SMTT(60) DEF SleepDecide, setStateLocked, Running
    <3> QED
      BY <1>T, <2>1, <3>1, <3>2, SMTT(60)
      DEF TransitionInv, TransitionHasOwner, OneCurrentWake, CancelIsForTheWake,
          WakeExcludesStop, StopIsLatest, WakesArePast, RoomReserved, TypeOK, Generations
  <2> QED
    BY <2>2, <2>3
<1>13. CASE SleepResume \/ SleepReturn
  <2>1. state # "stopping"
    BY <1>T, <1>13 DEF TransitionInv, TransitionHasOwner, SleepResume, SleepReturn
  <2> QED
    BY <1>T, <1>13, <2>1, LoopFrame DEF SleepResume, SleepReturn, SleeperSteps
<1>14. ASSUME NEW g \in Generations, NEW c \in Containers, WakeStarted(g, c) PROVE TransitionInv'
  BY <1>T, <1>14, WakeFrame DEF WakeStarted, LiveSteps, TypeOK, Wakes
<1>15. ASSUME NEW g \in Generations, NEW c \in Containers, NEW started \in BOOLEAN, WakeStartFails(g, c, started)
       PROVE  TransitionInv'
  BY <1>T, <1>15, WakeFrame, SMTT(60) DEF WakeStartFails, LiveSteps, TypeOK, Wakes
<1>16. ASSUME NEW g \in Generations, WakeNoBudget(g) \/ WakeResume(g) PROVE TransitionInv'
  BY <1>T, <1>16, WakeFrame, SMTT(60) DEF WakeNoBudget, WakeResume, LiveSteps, TypeOK, Wakes
<1>17. ASSUME NEW g \in Generations, NEW ok \in BOOLEAN, WakeAwait(g, ok) PROVE TransitionInv'
  BY <1>T, <1>17, WakeFrame, SMTT(60) DEF WakeAwait, LiveSteps, TypeOK, Wakes
<1>18. ASSUME NEW g \in Generations, finishWake(g) PROVE TransitionInv'
  <2>1. /\ wake'[g].step \notin LiveSteps
        /\ \A h \in Generations \ {g} : wake'[h] = wake[h]
        /\ wake[g].step \in LiveSteps
        /\ UNCHANGED <<refs, closed, sleeper, up>>
    BY <1>T, <1>18, SMTT(60) DEF finishWake, TypeOK, NoWake, LiveSteps
  <2>2. CASE g # generation
    <3>1. UNCHANGED <<state, generation, cancel>>
      BY <1>18, <2>2 DEF finishWake
    <3> QED
      BY <1>T, <2>1, <2>2, <3>1
      DEF TransitionInv, TransitionHasOwner, OneCurrentWake, CancelIsForTheWake,
          WakeExcludesStop, StopIsLatest, WakesArePast, RoomReserved, Room
  <2>3. CASE g = generation
    <3>1. state = "waking"
      BY <1>T, <2>1, <2>3 DEF TransitionInv, OneCurrentWake
    <3>2. state' \in {"sleeping", "active"} /\ generation' = generation + 1 /\ cancel' = 0
      BY <1>18, <2>3, <3>1 DEF finishWake, setStateLocked
    <3> QED
      BY <1>T, <2>1, <2>3, <3>1, <3>2, SMTT(60)
      DEF TransitionInv, TransitionHasOwner, OneCurrentWake, CancelIsForTheWake,
          WakeExcludesStop, StopIsLatest, WakesArePast, RoomReserved, TypeOK, Generations
  <2> QED
    BY <2>2, <2>3
<1>19. ASSUME NEW g \in Generations, WakeReturn(g) PROVE TransitionInv'
  <2>1. /\ wake[g].step \notin LiveSteps /\ wake'[g].step \notin LiveSteps
        /\ \A h \in Generations \ {g} : wake'[h] = wake[h]
        /\ UNCHANGED <<state, generation, refs, cancel, closed, sleeper, up>>
    BY <1>T, <1>19 DEF WakeReturn, TypeOK, NoWake, LiveSteps
  <2> QED
    BY <1>T, <2>1
    DEF TransitionInv, TransitionHasOwner, OneCurrentWake, CancelIsForTheWake,
        WakeExcludesStop, StopIsLatest, WakesArePast, RoomReserved, Room
<1>20. CASE SleepAfterElapses \/ BackoffElapses
  BY <1>T, <1>20, TransitionFrame DEF SleepAfterElapses, BackoffElapses
<1>21. CASE UNCHANGED vars
  BY <1>T, <1>21, TransitionFrame DEF vars
<1> QED
  BY <1>1, <1>2, <1>3, <1>4, <1>5, <1>6, <1>7, <1>8, <1>9, <1>10, <1>11, <1>12, <1>13,
     <1>14, <1>15, <1>16, <1>17, <1>18, <1>19, <1>20, <1>21
  DEF Next, RequestStep, BeginRequest, OperatorStep, RunStep, SleepStep, WakeStep, Tick
-----------------------------------------------------------------------------
(* Every step keeps what is known of requests. *)

\* The step admits no request and ends none.
LEMMA RequestFrame ==
  ASSUME RequestInv, UNCHANGED inflight,
         \A r \in Requests : req'[r] = "admitted" <=> req[r] = "admitted",
         \A r \in Requests : req'[r] = "uncounted" => req[r] = "uncounted",
         \A r \in Requests : req'[r] = "parked" => state' \in {"stopping", "waking"},
         inflight > 0 => state' = "active"
  PROVE  RequestInv'
<1>1. Admitted' = Admitted
  BY DEF Admitted
<1>2. InflightCounted'
  BY <1>1 DEF RequestInv, InflightCounted
<1> QED
  BY <1>2 DEF RequestInv, ParkedAwaitsTransition, NoRequestOutsideActive

\* The step leaves the requests alone and the service where it was.
LEMMA RequestStutter ==
  ASSUME RequestInv, UNCHANGED <<req, inflight, state>> PROVE RequestInv'
  BY RequestFrame DEF RequestInv, ParkedAwaitsTransition, NoRequestOutsideActive

\* The step is a transition, which releases whoever is parked.
LEMMA RequestBroadcast ==
  ASSUME RequestInv, TypeOK, req' = Broadcast(req), UNCHANGED inflight,
         inflight > 0 => state' = "active"
  PROVE  RequestInv'
  BY RequestFrame DEF Broadcast, TypeOK, RequestStates

\* A redeploy releases whoever is parked and counts nobody twice.
LEMMA RedeployRequests ==
  ASSUME RequestInv, TypeOK, NEW rs, redeploy(rs), UNCHANGED inflight
  PROVE  RequestInv'
<1>1. CASE state = "active"
  BY <1>1, RequestStutter DEF redeploy
<1>2. CASE state # "active"
  BY <1>2, RequestBroadcast DEF redeploy
<1> QED
  BY <1>1, <1>2

\* Every step keeps RequestInv: one case per critical section or hook.
LEMMA RequestInvStep == IndInv /\ [Next]_vars => RequestInv'
<1> SUFFICES ASSUME IndInv, [Next]_vars PROVE RequestInv'
  OBVIOUS
<1> USE DEF control, settings, requestVars, wakeErrors, loopVars
<1>T. TypeOK /\ RequestInv /\ BackoffHasError
  BY DEF IndInv, RequestInv
<1>F. IsFiniteSet(Admitted)
  BY RequestsAssumption, FS_Subset DEF Admitted
<1>1. ASSUME NEW r \in Requests, admitActive(r), req[r] \in {"out", "ready"} PROVE RequestInv'
  <2>1. Admitted' = Admitted \cup {r} /\ r \notin Admitted
    BY <1>T, <1>1 DEF admitActive, Admitted, TypeOK
  <2>2. Cardinality(Admitted') = Cardinality(Admitted) + 1
    BY <1>F, <2>1, FS_AddElement
  <2>3. InflightCounted'
    BY <1>T, <1>1, <2>2 DEF admitActive, RequestInv, InflightCounted, TypeOK
  <2> QED
    BY <1>T, <1>1, <2>3
    DEF admitActive, RequestInv, ParkedAwaitsTransition, NoRequestOutsideActive, TypeOK
<1>2. ASSUME NEW r \in Requests, admitBackoff(r), req[r] \in {"out", "ready"} PROVE RequestInv'
  <2>1. lastErr
    BY <1>T, <1>2 DEF admitBackoff, BackoffHasError
  <2> QED
    BY <1>T, <1>2, <2>1, RequestFrame
    DEF admitBackoff, TypeOK, RequestInv, ParkedAwaitsTransition, NoRequestOutsideActive
<1>3. ASSUME NEW r \in Requests, startWakeLocked(r), req[r] \in {"out", "ready"} PROVE RequestInv'
  <2>1. inflight = 0
    BY <1>T, <1>3, SMTT(60) DEF startWakeLocked, RequestInv, NoRequestOutsideActive, TypeOK
  <2> QED
    BY <1>T, <1>3, <2>1, RequestFrame, SMTT(60) DEF startWakeLocked, Broadcast, TypeOK
<1>4. ASSUME NEW r \in Requests, admitWait(r), req[r] \in {"out", "ready"} PROVE RequestInv'
  BY <1>T, <1>4, RequestFrame
  DEF admitWait, TypeOK, RequestInv, ParkedAwaitsTransition, NoRequestOutsideActive
<1>5. ASSUME NEW r \in Requests, GiveUp(r) PROVE RequestInv'
  BY <1>T, <1>5, RequestFrame
  DEF GiveUp, TypeOK, RequestInv, ParkedAwaitsTransition, NoRequestOutsideActive
<1>6. ASSUME NEW r \in Requests, EndRequest(r) PROVE RequestInv'
  <2>1. Admitted' = Admitted \ {r} /\ r \in Admitted
    BY <1>T, <1>6 DEF EndRequest, Admitted, TypeOK, RequestInv, InflightCounted
  <2>2. Cardinality(Admitted') = Cardinality(Admitted) - 1
    BY <1>F, <2>1, FS_RemoveElement
  <2>3. inflight > 0
    <3>1. Cardinality(Admitted) # 0 /\ Cardinality(Admitted) \in Nat
      BY <1>F, <2>1, FS_EmptySet, FS_CardinalityType
    <3> QED
      BY <1>T, <3>1, SMTT(60) DEF RequestInv, InflightCounted
  <2>4. InflightCounted'
    BY <1>T, <1>6, <2>2, <2>3 DEF EndRequest, RequestInv, InflightCounted, TypeOK
  <2> QED
    BY <1>T, <1>6, <2>3, <2>4
    DEF EndRequest, RequestInv, ParkedAwaitsTransition, NoRequestOutsideActive, TypeOK
<1>7. ASSUME NEW on \in BOOLEAN, NEW rs \in RefSets \cup {{}}, Configure(on, rs) PROVE RequestInv'
  <2>1. CASE rs = refs
    BY <1>T, <1>7, <2>1, RequestStutter DEF Configure
  <2>2. CASE rs # refs
    BY <1>T, <1>7, <2>2, RedeployRequests DEF Configure
  <2> QED
    BY <2>1, <2>2
<1>8. ASSUME NEW rs \in RefSets, Reset(rs) PROVE RequestInv'
  BY <1>T, <1>8, RedeployRequests DEF Reset
<1>9. CASE Close \/ Disable \/ Enable
  BY <1>T, <1>9, RequestStutter DEF Close, Disable, Enable
<1>10. CASE RunArm \/ RunSignalled \/ RunClosed \/ TimerTooSoon
  BY <1>T, <1>10, RequestStutter DEF RunArm, RunSignalled, RunClosed, TimerTooSoon
<1>11. CASE trySleep
  BY <1>T, <1>11, RequestBroadcast, SMTT(60) DEF trySleep, mayStop, eligible, setStateLocked
<1>12. CASE SleepSuspend \/ SleepResume \/ SleepReturn
  BY <1>T, <1>12, RequestStutter DEF SleepSuspend, SleepResume, SleepReturn
<1>13. ASSUME NEW c \in Containers, NEW ok \in BOOLEAN, NEW stopped \in BOOLEAN, SleepStop(c, ok, stopped)
       PROVE  RequestInv'
  BY <1>T, <1>13, RequestStutter DEF SleepStop
<1>14. CASE SleepDecide
  <2>1. CASE sleeper.gen # generation
    BY <1>T, <1>14, <2>1, RequestStutter DEF SleepDecide
  <2>2. CASE sleeper.gen = generation
    <3>1. state = "stopping"
      BY <1>14, <2>2 DEF IndInv, StopIsLatest, SleepDecide
    <3>2. inflight = 0
      BY <1>T, <3>1, SMTT(60) DEF RequestInv, NoRequestOutsideActive, TypeOK
    <3> QED
      BY <1>T, <1>14, <2>2, <3>1, <3>2, RequestBroadcast, SMTT(60) DEF SleepDecide, setStateLocked
  <2> QED
    BY <2>1, <2>2
<1>15. ASSUME NEW g \in Generations, finishWake(g) PROVE RequestInv'
  <2>1. CASE g # generation
    BY <1>T, <1>15, <2>1, RequestStutter DEF finishWake
  <2>2. CASE g = generation
    <3>1. state = "waking"
      BY <1>15, <2>2 DEF IndInv, OneCurrentWake, finishWake, LiveSteps
    <3>2. inflight = 0
      BY <1>T, <3>1, SMTT(60) DEF RequestInv, NoRequestOutsideActive, TypeOK
    <3> QED
      BY <1>T, <1>15, <2>2, <3>1, <3>2, RequestBroadcast, SMTT(60) DEF finishWake, setStateLocked
  <2> QED
    BY <2>1, <2>2
<1>16. ASSUME NEW g \in Generations, WakeStep(g), ~finishWake(g) PROVE RequestInv'
  BY <1>T, <1>16, RequestStutter
  DEF WakeStep, WakeStarted, WakeStartFails, WakeNoBudget, WakeResume, WakeAwait, WakeReturn
<1>17. CASE SleepAfterElapses \/ BackoffElapses \/ UNCHANGED vars
  BY <1>T, <1>17, RequestStutter DEF SleepAfterElapses, BackoffElapses, vars
<1> QED
  BY <1>1, <1>2, <1>3, <1>4, <1>5, <1>6, <1>7, <1>8, <1>9, <1>10, <1>11, <1>12, <1>13,
     <1>14, <1>15, <1>16, <1>17
  DEF Next, RequestStep, BeginRequest, OperatorStep, RunStep, SleepStep, Tick

\* Only finishWake sets the backoff, and it sets the error with it; only a
\* redeploy or a later wake clears the error, and both clear the backoff.
LEMMA BackoffStep == IndInv /\ [Next]_vars => BackoffHasError'
<1> SUFFICES ASSUME IndInv, [Next]_vars PROVE BackoffHasError'
  OBVIOUS
<1>1. ASSUME UNCHANGED <<lastErr, backoff>> PROVE BackoffHasError'
  BY <1>1 DEF IndInv, BackoffHasError
<1>2. CASE backoff' = FALSE
  BY <1>2 DEF BackoffHasError
<1>3. ASSUME NEW g \in Generations, finishWake(g) PROVE BackoffHasError'
  BY <1>1, <1>3 DEF finishWake, wakeErrors, BackoffHasError
<1>4. ASSUME NEW on \in BOOLEAN, NEW rs, Configure(on, rs) \/ Reset(rs) PROVE BackoffHasError'
  BY <1>1, <1>2, <1>4 DEF Configure, Reset, redeploy, wakeErrors
<1> QED
  BY <1>1, <1>2, <1>3, <1>4
  DEF Next, RequestStep, BeginRequest, OperatorStep, RunStep, SleepStep, WakeStep, Tick,
      admitActive, admitBackoff, startWakeLocked, admitWait, GiveUp, EndRequest,
      Close, Disable, Enable, RunArm, RunSignalled, RunClosed, TimerTooSoon,
      trySleep, SleepSuspend, SleepStop, SleepDecide, SleepResume, SleepReturn, WakeStarted,
      WakeStartFails, WakeNoBudget, WakeResume, WakeAwait, WakeReturn, SleepAfterElapses,
      BackoffElapses, vars, control, wakeErrors

-----------------------------------------------------------------------------
(* Theorems. *)

\* The invariant is inductive.
LEMMA IndStep == IndInv /\ [Next]_vars => IndInv'
  BY TypeStep, TransitionStep, RequestInvStep, BackoffStep DEF IndInv, TransitionInv, RequestInv

\* The inductive invariant holds of every state of the controller, whatever
\* requests, deploys, stops, wakes and failures interleave.
THEOREM Invariance == Spec => []IndInv
  BY InitInd, IndStep, PTL DEF Spec

\* Every variable of the controller always holds a value of its type.
THEOREM TypeCorrectness == Spec => []TypeOK
<1>1. IndInv => TypeOK
  BY DEF IndInv
<1> QED
  BY <1>1, Invariance, PTL

\* BeginRequest and EndRequest keep inflight equal to the number of requests
\* being served, and they are served only while the service is active: the idle
\* timer's test of inflight never stops a container under a request.
THEOREM RequestsAreCounted == Spec => [](InflightCounted /\ NoRequestOutsideActive)
<1>1. IndInv => InflightCounted /\ NoRequestOutsideActive
  BY DEF IndInv
<1> QED
  BY <1>1, Invariance, PTL

\* A stop or a wake in progress has exactly one goroutine that will settle it,
\* over the configured containers, and c.cancel is that wake's or nil.
THEOREM TransitionsAreOwned == Spec => [](TransitionHasOwner /\ OneCurrentWake /\ CancelIsForTheWake)
<1>1. IndInv => TransitionHasOwner /\ OneCurrentWake /\ CancelIsForTheWake
  BY DEF IndInv
<1> QED
  BY <1>1, Invariance, PTL

\* What a current wake has started is never stopped by trySleep, not even by a
\* stop that a redeploy superseded.
THEOREM WakesAreNotStopped == Spec => []WakeExcludesStop
<1>1. IndInv => WakeExcludesStop
  BY DEF IndInv
<1> QED
  BY <1>1, Invariance, PTL

\* A request parked in BeginRequest's select is owed a transition, and one turned
\* away for the backoff has an error to report.
THEOREM NoWakeUpIsLost == Spec => [](ParkedAwaitsTransition /\ BackoffHasError)
<1>1. IndInv => ParkedAwaitsTransition /\ BackoffHasError
  BY DEF IndInv
<1> QED
  BY <1>1, Invariance, PTL

\* The service falls asleep only as the outcome of the stop, or of the failed
\* wake, of the containers configured at that moment.
THEOREM SleepsAreCurrent == Spec => SleepIsForCurrentContainers
<1> DEFINE A == state # "sleeping" /\ state' = "sleeping" =>
       \/ state = "stopping" /\ sleeper.refs = refs /\ sleeper.todo = {} /\ ~sleeper.failed
       \/ state = "waking" /\ wake[generation].refs = refs /\ wake[generation].failed
<1>1. IndInv /\ [Next]_vars => A
  <2> SUFFICES ASSUME IndInv, [Next]_vars, state # "sleeping", state' = "sleeping"
               PROVE  \/ state = "stopping" /\ sleeper.refs = refs /\ sleeper.todo = {} /\ ~sleeper.failed
                      \/ state = "waking" /\ wake[generation].refs = refs /\ wake[generation].failed
    BY DEF A
  <2>1. SleepDecide \/ \E g \in Generations : finishWake(g)
    BY DEF Next, RequestStep, BeginRequest, OperatorStep, RunStep, SleepStep, WakeStep, Tick,
      admitActive, admitBackoff, startWakeLocked, admitWait, GiveUp, EndRequest, Configure, Reset,
      redeploy, Close, Disable, Enable, RunArm, RunSignalled, RunClosed, TimerTooSoon,
      trySleep, setStateLocked, SleepSuspend, SleepStop, SleepResume, SleepReturn, WakeStarted,
      WakeStartFails, WakeNoBudget, WakeResume, WakeAwait, WakeReturn, SleepAfterElapses,
      BackoffElapses, vars, control
  <2>2. CASE SleepDecide
    BY <2>2 DEF SleepDecide, setStateLocked, IndInv, StopIsLatest, TransitionHasOwner
  <2>3. ASSUME NEW g \in Generations, finishWake(g)
        PROVE  state = "waking" /\ wake[generation].refs = refs /\ wake[generation].failed
    BY <2>3 DEF finishWake, setStateLocked, IndInv, OneCurrentWake, TransitionHasOwner, LiveSteps
  <2> QED
    BY <2>1, <2>2, <2>3
<1> QED
  BY <1>1, Invariance, PTL DEF Spec, SleepIsForCurrentContainers

-----------------------------------------------------------------------------
(***************************************************************************)
(* A service with its controller.                                          *)
(***************************************************************************)
\* What the theorems assume: every deploy starts containers of its own, a hook
\* that is due is called before sleepAfter or a backoff elapses, and a proxy that
\* is restarted is stopped gracefully, with neither deploys nor failed stops
\* around it.
OwnContainers ==
  \A lb1, lb2 \in LBs : ContainerOf[lb1] = ContainerOf[lb2] => lb1 = lb2

Orderly ==
  /\ ~HooksMayLag
  /\ \A w \in Worlds : w.restarts # {} =>
        w.restarts = {"graceful"} /\ ~w.deploys /\ ~w.stopsFail

\* The controller knows the containers of the current load balancers, which are
\* neither fresh nor being installed.
SlotsInv ==
  /\ ~closed
  /\ refs = IF sleeps THEN containerRefs(active, rollout) ELSE {}
  /\ state # "active" => sleeps
  /\ fresh \cap {FirstLB, active, rollout, installing} = {}
  /\ installing # NoLB => installing \notin {active, rollout}

Stopping == sleeper.step \in {"suspend", "stop"}

\* Awake, with sleepAfter still to elapse and no stop under way.
JustAwake == state = "active" /\ ~idle /\ ~Stopping

\* A suspend that is due finds the service as its wake left it, or just awake; a
\* wake that may still start containers is the current one, and one that is about
\* to resume the pool is the current one or finds the service just awake.
HooksInv ==
  \A g \in Generations :
    /\ wake[g].step = "suspend" => (state = "sleeping" /\ backoff) \/ JustAwake
    /\ wake[g].step = "start" =>
         \/ state = "waking" /\ g = generation
         \/ wake[g].todo # {} /\ wake[g].cancelled
         \/ wake[g].todo = {} /\ JustAwake

\* A stop touches no load balancer that came after it, and none that is in use
\* once it has suspended the pool.
StopInv ==
  /\ sleeper.todo \subseteq sleeper.refs
  /\ sleeper.step = "resume" => state = "active"
  /\ Stopping =>
       \A lb \in LBs : lb \in fresh \/ lb = installing => ContainerOf[lb] \notin sleeper.refs
  /\ sleeper.step = "stop" =>
       \A lb \in Slots : lb \in inPool \cup probing => ContainerOf[lb] \notin sleeper.refs

\* What is in a pool runs, in every state; a sleeping service is quiet.
PoolInv ==
  /\ \A lb \in Slots : lb \in inPool => ContainerOf[lb] \in up
  /\ installing # NoLB => ContainerOf[installing] \in up
  /\ AsleepIsQuiet

\* An answer the current wake may count is that of a target in its pool, and the
\* current wake waits for the active load balancer, with every container started.
WakeInv ==
  /\ \A g \in Generations, lb \in LBs : <<g, lb>> \in fired => g <= generation
  /\ \A lb \in LBs : healthyCtx[lb] <= generation
  /\ state = "waking" => \A lb \in LBs : <<generation, lb>> \in fired => lb \in inPool
  /\ \A g \in Generations :
       /\ wake[g].step = "await" \/ (wake[g].step = "finish" /\ ~wake[g].failed)
            => wake[g].todo = {}
       /\ g = generation /\ wake[g].step = "await" => awaits[g] = active
       /\ g = generation /\ wake[g].step = "finish" /\ ~wake[g].failed => active \in inPool

\* Before the first deploy nothing overtakes a stop or a wake.
EarlyInv ==
  /\ ~world.deploys => fresh = LBs \ {FirstLB}
  /\ fresh = LBs \ {FirstLB} =>
       /\ active = FirstLB /\ rollout = NoLB /\ installing = NoLB /\ sleeps
       /\ Stopping => state = "stopping"
       /\ \A g \in Generations : wake[g].step = "suspend" => state = "sleeping"
       /\ state = "active" => active \in inPool \/ active \in probing \/ sleeper.step = "resume"
       /\ ~world.stopsFail =>
            /\ ~sleeper.failed /\ sleeper.step # "resume"
            /\ state = "active" => active \in inPool

SvcInv ==
  /\ SvcTypeOK /\ IndInv
  /\ SlotsInv /\ HooksInv /\ StopInv /\ PoolInv /\ WakeInv /\ EarlyInv

-----------------------------------------------------------------------------
(* The steps of the service, by what they do to the state the invariant is   *)
(* about.                                                                    *)

Rest == UNCHANGED <<poolVars, deployVars, world>>
Same == UNCHANGED <<state, generation, refs, sleeps, closed, backoff>>

\* Wake g is now at step, with todo to start; the other wakes are where they were.
WakeIs(g, step, todo, failed) ==
  /\ wake'[g].step = step /\ wake'[g].todo = todo /\ wake'[g].failed = failed
  /\ \A h \in Generations \ {g} : wake'[h] = wake[h]

SleeperIs(step, rs, todo) ==
  sleeper'.step = step /\ sleeper'.refs = rs /\ sleeper'.todo = todo

\* Requests that come and go, the idle timer, persist, and a stop overtaken.
Idles ==
  /\ Same /\ Rest /\ UNCHANGED <<wake, up>> /\ idle' \in {idle, FALSE}
  /\ \/ UNCHANGED sleeper
     \/ /\ sleeper.step # "resume"
        /\ \E s \in {"top", "select", "exited"} : SleeperIs(s, {}, {}) /\ ~sleeper'.failed

\* startWakeLocked.
Wakens ==
  /\ state = "sleeping" /\ ~backoff /\ state' = "waking"
  /\ generation + 1 \in Generations /\ generation' = generation + 1
  /\ WakeIs(generation + 1, "start", refs, FALSE)
  /\ UNCHANGED <<refs, sleeps, closed, idle, backoff, sleeper, up>> /\ Rest

\* trySleep, up to the suspend hook.
Stops ==
  /\ state = "active" /\ idle /\ sleeps /\ state' = "stopping"
  /\ generation' = generation + 1
  /\ SleeperIs("suspend", refs, refs) /\ ~sleeper'.failed
  /\ UNCHANGED <<refs, sleeps, closed, idle, backoff, wake, up>> /\ Rest

\* The hooks of a stop, and the calls that stop its containers.
StopSuspends ==
  /\ sleeper.step = "suspend"
  /\ SleeperIs("stop", sleeper.refs, sleeper.todo) /\ sleeper'.failed = sleeper.failed
  /\ suspendForSleep
  /\ Same /\ UNCHANGED <<idle, wake, up, deployVars, world>>

StopsOne ==
  /\ sleeper.step = "stop"
  /\ \E c \in sleeper.todo : up \ {c} \subseteq up' /\ SleeperIs("stop", sleeper.refs, sleeper.todo \ {c})
  /\ sleeper'.failed => sleeper.failed \/ world.stopsFail
  /\ Same /\ UNCHANGED <<idle, wake>> /\ Rest

\* The end of a stop that nothing overtook.
StopEnds ==
  /\ sleeper.step = "stop" /\ state = "stopping" /\ sleeper.refs = refs
  /\ generation' = generation + 1
  /\ \/ state' = "sleeping" /\ SleeperIs("persist", {}, {}) /\ UNCHANGED idle
     \/ state' = "active" /\ SleeperIs("resume", {}, {}) /\ ~idle' /\ sleeper.failed
  /\ ~sleeper'.failed
  /\ UNCHANGED <<refs, sleeps, closed, backoff, wake, up>> /\ Rest

StopResumes ==
  /\ sleeper.step = "resume" /\ SleeperIs("await", {}, {}) /\ ~sleeper'.failed
  /\ resumeFromSleep(0)
  /\ Same /\ UNCHANGED <<idle, wake, up, awaits, deployVars, world>>

\* A wake starts a container, or gives up.
WakeStarts(g) ==
  /\ wake[g].step = "start" /\ ~wake[g].cancelled
  /\ \E c \in wake[g].todo : WakeIs(g, "start", wake[g].todo \ {c}, wake[g].failed)
  /\ up \subseteq up' /\ Same /\ UNCHANGED <<idle, sleeper>> /\ Rest

WakeFails(g) ==
  /\ wake[g].step = "start" /\ WakeIs(g, "finish", wake[g].todo, TRUE)
  /\ up \subseteq up' /\ Same /\ UNCHANGED <<idle, sleeper>> /\ Rest

WakeResumes(g) ==
  /\ wake[g].step = "start" /\ wake[g].todo = {} /\ WakeIs(g, "await", {}, wake[g].failed)
  /\ resumeFromSleep(g) /\ awaits' = [awaits EXCEPT ![g] = active]
  /\ Same /\ UNCHANGED <<idle, sleeper, up, deployVars, world>>

WakeAwaits(g) ==
  /\ wake[g].step = "await"
  /\ \E ok \in BOOLEAN : (ok => <<g, awaits[g]>> \in fired) /\ WakeIs(g, "finish", wake[g].todo, ~ok)
  /\ awaits' = [awaits EXCEPT ![g] = NoLB] /\ fired' = {f \in fired : f[1] # g}
  /\ Same /\ UNCHANGED <<idle, sleeper, up, inPool, probing, healthyCtx, deployVars, world>>

\* The end of a wake, of an overtaken one first, and its last hook.
WakeEnds(g) ==
  /\ wake[g].step = "finish" /\ UNCHANGED <<refs, sleeps, closed, sleeper, up>> /\ Rest
  /\ \/ g # generation /\ WakeIs(g, "none", {}, FALSE) /\ Same /\ UNCHANGED idle
     \/ /\ g = generation /\ state = "waking" /\ generation' = generation + 1
        /\ \/ /\ state' = "sleeping" /\ backoff' /\ UNCHANGED idle
              /\ WakeIs(g, "suspend", {}, FALSE)
           \/ /\ ~wake[g].failed /\ state' = "active" /\ ~idle'
              /\ WakeIs(g, "persist", {}, FALSE)

WakeReturns(g) ==
  /\ wake[g].step \in {"suspend", "persist"} /\ WakeIs(g, "none", {}, FALSE)
  /\ IF wake[g].step = "suspend" THEN suspendForSleep ELSE UNCHANGED poolVars
  /\ Same /\ UNCHANGED <<idle, sleeper, up, deployVars, world>>

\* sleepAfter or a backoff elapses, with no hook due.
Elapses ==
  /\ \A g \in Generations : ~HookDue(g)
  /\ UNCHANGED <<state, generation, refs, sleeps, closed, wake, sleeper, up>> /\ Rest

\* A health check succeeds.
Answers(lb) ==
  /\ lb \in probing /\ ContainerOf[lb] \in up
  /\ inPool' = inPool \cup {lb} /\ probing' = probing \ {lb}
  /\ fired' \subseteq fired \cup {<<healthyCtx[lb], lb>>}
  /\ Same /\ UNCHANGED <<idle, wake, sleeper, up, healthyCtx, awaits, deployVars, world>>

\* Configure with the containers the controller has, and with others.
Reconfigured(on) ==
  /\ UNCHANGED <<state, generation, refs, closed, backoff, wake, sleeper, up>>
  /\ sleeps' = on /\ idle' \in {idle, FALSE}

Redeployed(on, rs) ==
  /\ refs' = rs /\ sleeps' = on /\ state' = "active" /\ ~idle'
  /\ generation' = generation + 1
  /\ \A g \in Generations :
       /\ wake'[g].step = wake[g].step /\ wake'[g].todo = wake[g].todo
       /\ wake'[g].failed = wake[g].failed
       /\ wake[g].cancelled \/ (state = "waking" /\ g = generation) => wake'[g].cancelled
  /\ UNCHANGED <<closed, sleeper, up>>

Configured(on, lb1, lb2) ==
  LET rs == IF on THEN containerRefs(lb1, lb2) ELSE {}
  IN  IF rs = refs THEN Reconfigured(on) ELSE Redeployed(on, rs)

Initializes(lb, on) ==
  /\ world.deploys /\ installing = NoLB /\ lb \in fresh /\ ContainerOf[lb] \in up
  /\ installing' = lb /\ fresh' = fresh \ {lb} /\ inPool' = inPool \cup {lb}
  /\ Configured(on, active, rollout)
  /\ UNCHANGED <<probing, healthyCtx, awaits, fired, active, rollout, world>>

Installs ==
  /\ installing # NoLB /\ active' = installing /\ installing' = NoLB
  /\ probing' = probing \ {active}
  /\ Configured(sleeps, installing, rollout)
  /\ UNCHANGED <<inPool, healthyCtx, awaits, fired, rollout, fresh, world>>

RollsOut(lb) ==
  /\ world.deploys /\ installing = NoLB /\ lb \in fresh /\ ContainerOf[lb] \in up
  /\ rollout' = lb /\ fresh' = fresh \ {lb} /\ inPool' = inPool \cup {lb}
  /\ probing' = probing \ {rollout}
  /\ Configured(sleeps, active, lb)
  /\ UNCHANGED <<healthyCtx, awaits, fired, active, installing, world>>

\* A graceful restart.
Restarts ==
  /\ ~world.deploys /\ ~world.stopsFail
  /\ active' = active /\ rollout' = rollout /\ sleeps' = sleeps
  /\ state' = IF sleeps THEN IF state = "active" THEN "active" ELSE "sleeping" ELSE "active"
  /\ refs' = IF sleeps THEN containerRefs(active, rollout) ELSE {}
  /\ ~closed' /\ SleeperIs("top", {}, {}) /\ ~sleeper'.failed
  /\ \A g \in Generations : wake'[g].step = "none"
  /\ up' = up \/ (sleeper.step = "stop" /\ up' \subseteq up)
  /\ inPool' = (IF state' = "sleeping" THEN {} ELSE Slots') /\ probing' = {} /\ fired' = {}
  /\ healthyCtx' = [lb \in LBs |-> 0] /\ generation' \in Nat
  /\ installing' = NoLB /\ UNCHANGED <<fresh, world>>

-----------------------------------------------------------------------------
(* Types, and the controller's own invariant.                                *)

\* The containers of load balancers are containers.
LEMMA RefsType ==
  ASSUME NEW lb1 \in LBs, NEW lb2 \in LBs \cup {NoLB}
  PROVE  containerRefs(lb1, lb2) \in RefSets
  BY RefsAssumption

\* Reconfiguring the controller is one of the operators' steps.
LEMMA ConfigureIsNext ==
  ASSUME SvcTypeOK, NEW on \in BOOLEAN, NEW lb1 \in LBs, NEW lb2 \in LBs \cup {NoLB},
         Configure(on, IF on THEN containerRefs(lb1, lb2) ELSE {})
  PROVE  Next
<1>1. (IF on THEN containerRefs(lb1, lb2) ELSE {}) \in RefSets \cup {{}}
  BY RefsType
<1> QED
  BY <1>1 DEF Next, OperatorStep

\* Every step of the service but a restart is a step of its controller.
LEMMA ControllerSteps ==
  ASSUME SvcTypeOK, SvcNext, \A kind \in world.restarts : ~Restart(kind)
  PROVE  [Next]_vars
<1>w. world.requests \subseteq Requests
  BY WorldsAssumption DEF SvcTypeOK
<1>1. CASE \E r \in world.requests : RequestStep(r) /\ UNCHANGED svcVars
  BY <1>1, <1>w DEF Next
<1>2. CASE RunStep /\ UNCHANGED svcVars
  BY <1>2 DEF Next
<1>3. CASE SvcSleepStep
  BY <1>3 DEF SvcSleepStep, SleepStep, Next
<1>4. CASE \E g \in Generations : SvcWakeStep(g)
  BY <1>4 DEF SvcWakeStep, WakeStep, Next
<1>5. CASE SvcTick
  BY <1>5 DEF SvcTick, Next
<1>6. CASE \E lb \in LBs : Probe(lb)
  BY <1>6 DEF Probe
<1>7. CASE \E lb \in LBs, on \in BOOLEAN : DeployInitialize(lb, on)
  BY <1>7, ConfigureIsNext DEF DeployInitialize, SvcTypeOK
<1>8. CASE DeployInstall
  BY <1>8, ConfigureIsNext DEF DeployInstall, SvcTypeOK, TypeOK
<1>9. CASE \E lb \in LBs : SetRolloutTargets(lb)
  BY <1>9, ConfigureIsNext DEF SetRolloutTargets, SvcTypeOK, TypeOK
<1> QED
  BY <1>1, <1>2, <1>3, <1>4, <1>5, <1>6, <1>7, <1>8, <1>9 DEF SvcNext

\* A restart puts the entry of the state file back.
LEMMA RestartRestores ==
  ASSUME SvcTypeOK, NEW kind, Restart(kind)
  PROVE  /\ saved' \in [idle : IdleStates, active : LBs, rollout : LBs \cup {NoLB}, sleeps : BOOLEAN]
         /\ active' \in LBs /\ rollout' \in LBs \cup {NoLB} /\ sleeps' \in BOOLEAN
         /\ refs' = IF sleeps' THEN containerRefs(active', rollout') ELSE {}
         /\ refs' \in SUBSET Containers
         /\ state' \in {"active", "sleeping"} /\ generation' \in 0..2
         /\ state' = "sleeping" => sleeps'
<1>1. saved' \in [idle : IdleStates, active : LBs, rollout : LBs \cup {NoLB}, sleeps : BOOLEAN]
  BY DEF Restart, SvcTypeOK, TypeOK, MarshalJSON
<1>2. active' = saved'.active /\ rollout' = saved'.rollout /\ sleeps' = saved'.sleeps
  BY DEF Restart
<1>3. state' = IF sleeps' THEN ParseIdleState(saved'.idle) ELSE "active"
  BY DEF Restart
<1>4. refs' = IF sleeps' THEN containerRefs(active', rollout') ELSE {}
  BY DEF Restart
<1>5. generation' = CASE ~sleeps' -> 0
                     [] sleeps' /\ state' = "active" -> 1
                     [] OTHER -> 2
  BY <1>2 DEF Restart
<1>6. active' \in LBs /\ rollout' \in LBs \cup {NoLB} /\ sleeps' \in BOOLEAN
  BY <1>1, <1>2
<1>7. refs' \in SUBSET Containers
  BY <1>4, <1>6, RefsType, RefSetsAssumption
<1>8. generation' \in 0..2
  BY <1>5, SMTT(60)
<1> QED
  BY <1>1, <1>3, <1>4, <1>6, <1>7, <1>8 DEF ParseIdleState

\* A restarted controller is as a new one.
LEMMA RestartInd ==
  ASSUME SvcTypeOK, NEW kind, Restart(kind)
  PROVE  IndInv'
<1>1. /\ inflight' = 0 /\ idle' = FALSE /\ lastErr' = FALSE /\ backoff' = FALSE
      /\ disabled' = FALSE /\ cancel' = 0 /\ closed' = FALSE /\ signalled' = TRUE
      /\ req' = [r \in Requests |-> "out"]
      /\ armed' = FALSE /\ sleeper' = Running("top")
      /\ wake' = [g \in Generations |-> NoWake]
  BY DEF Restart
<1>2. /\ sleeps' \in BOOLEAN /\ refs' \in SUBSET Containers
      /\ state' \in {"active", "sleeping"} /\ generation' \in 0..2
  BY RestartRestores
<1>3. TypeOK'
  <2>1. sleeper' \in Sleepers
    BY <1>1, RunningType DEF SleeperSteps
  <2>2. wake' \in [Generations -> Wakes]
    BY <1>1, NoWakeType
  <2>3. up' \in SUBSET Containers
    BY DEF Restart, SvcTypeOK, TypeOK
  <2>4. generation' \in 0..MaxGeneration /\ cancel' \in 0..MaxGeneration
    BY <1>1, <1>2, MaxGenerationAssumption, SMTT(60)
  <2>5. req' \in [Requests -> RequestStates]
    BY <1>1 DEF RequestStates
  <2> QED
    BY <1>1, <1>2, <2>1, <2>2, <2>3, <2>4, <2>5 DEF TypeOK, IdleStates
<1>4. TransitionInv'
  <2>1. sleeper'.step = "top"
    BY <1>1 DEF Running
  <2>2. \A g \in Generations : wake'[g].step = "none"
    BY <1>1 DEF NoWake
  <2> QED
    BY <1>1, <1>2, <2>1, <2>2 DEF TransitionInv, TransitionHasOwner, OneCurrentWake,
       CancelIsForTheWake, WakeExcludesStop, StopIsLatest, WakesArePast, RoomReserved, LiveSteps
<1>5. RequestInv'
  <2>1. Admitted' = {}
    BY <1>1 DEF Admitted
  <2> QED
    BY <1>1, <2>1, FS_EmptySet, SMTT(60) DEF RequestInv, ParkedAwaitsTransition,
       NoRequestOutsideActive, InflightCounted
<1>6. BackoffHasError'
  BY <1>1 DEF BackoffHasError
<1> QED
  BY <1>3, <1>4, <1>5, <1>6 DEF IndInv, TransitionInv, RequestInv

\* The controller's invariant survives the service around it.
LEMMA ControllerKept == SvcTypeOK /\ IndInv /\ [SvcNext]_allVars => IndInv'
<1> SUFFICES ASSUME SvcTypeOK, IndInv, [SvcNext]_allVars PROVE IndInv'
  OBVIOUS
<1>1. CASE UNCHANGED allVars
  BY <1>1, IndStep DEF allVars
<1>2. CASE \E kind \in world.restarts : Restart(kind)
  BY <1>2, RestartInd
<1>3. CASE SvcNext /\ \A kind \in world.restarts : ~Restart(kind)
  BY <1>3, ControllerSteps, IndStep
<1> QED
  BY <1>1, <1>2, <1>3

\* What the service adds to the controller keeps its types.
LEMMA SvcTypesKept == SvcTypeOK /\ IndInv /\ [SvcNext]_allVars => SvcTypeOK'
<1> SUFFICES ASSUME SvcTypeOK, IndInv, [SvcNext]_allVars PROVE SvcTypeOK'
  OBVIOUS
<1>t. TypeOK'
  BY ControllerKept DEF IndInv
<1>m. ASSUME NEW st \in IdleStates, NEW lb1 \in LBs, NEW lb2 \in LBs \cup {NoLB}, NEW on \in BOOLEAN
      PROVE  MarshalJSON(st, lb1, lb2, on)
               \in [idle : IdleStates, active : LBs, rollout : LBs \cup {NoLB}, sleeps : BOOLEAN]
  BY DEF MarshalJSON
<1>s. Slots \subseteq LBs
  BY DEF SvcTypeOK, Slots
<1>i. state \in IdleStates /\ state' \in IdleStates /\ sleeps \in BOOLEAN
  BY <1>t DEF SvcTypeOK, TypeOK
<1>u. UNCHANGED svcVars => SvcTypeOK'
  BY <1>t DEF SvcTypeOK, svcVars, poolVars, deployVars
<1>p. persistState => saved' \in [idle : IdleStates, active : LBs, rollout : LBs \cup {NoLB}, sleeps : BOOLEAN]
  <2>1. active \in LBs /\ rollout \in LBs \cup {NoLB}
    BY DEF SvcTypeOK
  <2>2. MarshalJSON(state, active, rollout, sleeps)
          \in [idle : IdleStates, active : LBs, rollout : LBs \cup {NoLB}, sleeps : BOOLEAN]
    BY <2>1, <1>m, <1>i
  <2> QED
    BY <2>2 DEF persistState
<1>z. suspendForSleep /\ UNCHANGED <<deployVars, saved, restarts, world>> => SvcTypeOK'
  BY <1>t DEF SvcTypeOK, suspendForSleep, deployVars
<1>r. ASSUME NEW g \in 0..MaxGeneration, resumeFromSleep(g),
             UNCHANGED <<deployVars, saved, restarts, world>>,
             awaits' \in [Generations -> LBs \cup {NoLB}]
      PROVE  SvcTypeOK'
  <2>1. healthyCtx' \in [LBs -> 0..MaxGeneration]
    BY <1>r DEF resumeFromSleep, SvcTypeOK
  <2> QED
    BY <1>r, <1>t, <1>s, <2>1 DEF SvcTypeOK, resumeFromSleep, deployVars
<1>1. CASE SvcSleepStep
  <2>1. CASE SleepResume /\ resumeFromSleep(0) /\ UNCHANGED <<awaits, deployVars, saved, restarts, world>>
    BY <2>1, <1>r, MaxGenerationAssumption, SMTT(60) DEF SvcTypeOK
  <2>2. CASE /\ SleepReturn
             /\ IF sleeper.step = "persist" THEN persistState ELSE UNCHANGED saved
             /\ UNCHANGED <<poolVars, deployVars, restarts, world>>
    BY <2>2, <1>p, <1>t DEF SvcTypeOK, poolVars, deployVars
  <2> QED
    BY <1>1, <2>1, <2>2, <1>u, <1>z DEF SvcSleepStep
<1>2. ASSUME NEW g \in Generations, SvcWakeStep(g) PROVE SvcTypeOK'
  <2>1. CASE /\ WakeResume(g) /\ resumeFromSleep(g)
             /\ awaits' = [awaits EXCEPT ![g] = active]
             /\ UNCHANGED <<deployVars, saved, restarts, world>>
    <3>1. awaits' \in [Generations -> LBs \cup {NoLB}]
      BY <2>1 DEF SvcTypeOK
    <3>2. g \in 0..MaxGeneration
      BY MaxGenerationAssumption, SMTT(60) DEF Generations
    <3> QED
      BY <2>1, <3>1, <3>2, <1>r
  <2>2. CASE /\ awaits' = [awaits EXCEPT ![g] = NoLB]
             /\ fired' = {f \in fired : f[1] # g}
             /\ UNCHANGED <<inPool, probing, healthyCtx, deployVars, saved, restarts, world>>
    <3>1. awaits' \in [Generations -> LBs \cup {NoLB}]
      BY <2>2 DEF SvcTypeOK
    <3> QED
      BY <2>2, <3>1, <1>t DEF SvcTypeOK, deployVars
  <2>3. CASE /\ IF wake[g].step = "suspend"
                THEN suspendForSleep /\ UNCHANGED saved
                ELSE persistState /\ UNCHANGED poolVars
             /\ UNCHANGED <<deployVars, restarts, world>>
    <3>1. CASE suspendForSleep /\ UNCHANGED saved
      BY <3>1, <2>3, <1>z
    <3>2. CASE persistState /\ UNCHANGED poolVars
      BY <3>2, <2>3, <1>p, <1>t DEF SvcTypeOK, poolVars, deployVars
    <3> QED
      BY <2>3, <3>1, <3>2
  <2> QED
    BY <1>2, <2>1, <2>2, <2>3, <1>u DEF SvcWakeStep
<1>3. ASSUME NEW lb \in LBs, Probe(lb) PROVE SvcTypeOK'
  <2>1. healthyCtx[lb] \in 0..MaxGeneration
    BY DEF SvcTypeOK
  <2>2. fired' \subseteq Generations \X LBs
    BY <1>3, <2>1, MaxGenerationAssumption, SMTT(60) DEF Probe, SvcTypeOK, Generations
  <2> QED
    BY <1>3, <1>t, <2>2 DEF Probe, SvcTypeOK, deployVars
<1>4. ASSUME NEW lb \in LBs, NEW on \in BOOLEAN, DeployInitialize(lb, on) PROVE SvcTypeOK'
  BY <1>4, <1>t DEF DeployInitialize, SvcTypeOK
<1>5. CASE DeployInstall
  BY <1>5, <1>t, <1>m, <1>i DEF DeployInstall, SvcTypeOK
<1>6. ASSUME NEW lb \in LBs, SetRolloutTargets(lb) PROVE SvcTypeOK'
  BY <1>6, <1>t, <1>m, <1>i DEF SetRolloutTargets, SvcTypeOK
<1>7. ASSUME NEW kind, Restart(kind) PROVE SvcTypeOK'
  <2>1. restarts' \in 0..MaxRestarts
    BY <1>7, WorldsAssumption, SMTT(60) DEF Restart, SvcTypeOK
  <2>2. inPool' \subseteq LBs
    BY <1>7, RestartRestores DEF Restart
  <2>3. /\ healthyCtx' \in [LBs -> 0..MaxGeneration] /\ awaits' \in [Generations -> LBs \cup {NoLB}]
        /\ probing' = {} /\ fired' = {} /\ installing' = NoLB /\ UNCHANGED <<fresh, world>>
    BY <1>7, MaxGenerationAssumption, SMTT(60) DEF Restart
  <2> QED
    BY <1>7, <1>t, <2>1, <2>2, <2>3, RestartRestores DEF SvcTypeOK
<1> QED
  BY <1>1, <1>2, <1>3, <1>4, <1>5, <1>6, <1>7, <1>u DEF SvcNext, SvcTick, allVars

-----------------------------------------------------------------------------
(* Every step is one of those above.                                         *)

\* Configure leaves the controller alone or is a redeploy.
LEMMA ConfigureEffect ==
  ASSUME SvcTypeOK, IndInv, ~closed, NEW on, NEW lb1, NEW lb2,
         Configure(on, IF on THEN containerRefs(lb1, lb2) ELSE {})
  PROVE  Configured(on, lb1, lb2)
<1> DEFINE rs == IF on THEN containerRefs(lb1, lb2) ELSE {}
<1>c. Configure(on, rs)
  OBVIOUS
<1> HIDE DEF rs
<1>1. CASE rs = refs
  <2>1. Reconfigured(on)
    BY <1>1, <1>c DEF Configure, Reconfigured, wakeErrors, loopVars
  <2> QED
    BY <1>1, <2>1 DEF Configured, rs
<1>2. CASE rs # refs
  <2>1. redeploy(rs) /\ sleeps' = on /\ UNCHANGED <<closed, sleeper, up>>
    BY <1>2, <1>c DEF Configure, loopVars
  <2>2. wake \in [Generations -> Wakes] /\ cancel \in 0..MaxGeneration
    BY DEF SvcTypeOK, TypeOK
  <2>3. ASSUME NEW g \in Generations
        PROVE  /\ wake'[g].step = wake[g].step /\ wake'[g].todo = wake[g].todo
               /\ wake'[g].failed = wake[g].failed
               /\ wake[g].cancelled \/ (state = "waking" /\ g = generation) => wake'[g].cancelled
    <3>1. wake' = Cancel(wake) /\ wake[g] \in Wakes
      BY <2>1, <2>2 DEF redeploy
    <3>2. state = "waking" => cancel = generation
      BY DEF IndInv, CancelIsForTheWake
    <3>3. CASE cancel = g
      <4>1. wake'[g] = [wake[g] EXCEPT !.cancelled = TRUE]
        BY <3>1, <3>3, <2>2, SMTT(60) DEF Cancel, Generations
      <4> QED
        BY <4>1, <3>1 DEF Wakes
    <3>4. CASE cancel # g
      BY <3>1, <3>2, <3>4, <2>2 DEF Cancel, Generations
    <3> QED
      BY <3>3, <3>4
  <2>4. Redeployed(on, rs)
    BY <2>1, <2>3 DEF Redeployed, redeploy
  <2> QED
    BY <1>2, <2>4 DEF Configured, rs
<1> QED
  BY <1>1, <1>2

\* The steps of the idle timer and of a stop.
LEMMA StopCases ==
  ASSUME SvcTypeOK, IndInv, (RunStep /\ UNCHANGED svcVars) \/ SvcSleepStep
  PROVE  Idles \/ Stops \/ StopSuspends \/ StopsOne \/ StopEnds \/ StopResumes
<1> USE DEF control, settings, requestVars, wakeErrors, loopVars, Same, Rest, svcVars
<1>s. sleeper \in Sleepers
  BY DEF SvcTypeOK, TypeOK
<1>r. ASSUME NEW s PROVE LET t == Running(s) IN t.step = s /\ t.refs = {} /\ t.todo = {} /\ ~t.failed
  BY DEF Running
<1>1. CASE (RunArm \/ RunSignalled \/ RunClosed \/ TimerTooSoon) /\ UNCHANGED svcVars
  <2>1. sleeper.step # "resume" /\ \E s \in {"top", "select", "exited"} : sleeper' = Running(s)
    BY <1>1 DEF RunArm, RunSignalled, RunClosed, TimerTooSoon
  <2> QED
    BY <2>1, <1>1, <1>r DEF Idles, SleeperIs, RunArm, RunSignalled, RunClosed, TimerTooSoon
<1>2. CASE trySleep /\ UNCHANGED svcVars
  <2>1. Stops
    BY <1>2 DEF trySleep, mayStop, eligible, setStateLocked, Stops, SleeperIs
  <2> QED
    BY <2>1
<1>3. CASE SleepSuspend /\ suspendForSleep /\ UNCHANGED <<deployVars, saved, restarts, world>>
  <2>1. /\ sleeper'.step = "stop" /\ sleeper'.refs = sleeper.refs /\ sleeper'.todo = sleeper.todo
        /\ sleeper'.failed = sleeper.failed
    BY <1>3, <1>s DEF SleepSuspend, Sleepers
  <2> QED
    BY <2>1, <1>3 DEF SleepSuspend, StopSuspends, SleeperIs
<1>4. ASSUME NEW c \in Containers, NEW ok \in BOOLEAN, NEW stopped \in BOOLEAN,
             ok \/ world.stopsFail, SleepStop(c, ok, stopped), UNCHANGED svcVars
      PROVE  StopsOne
  <2>1. /\ sleeper'.step = "stop" /\ sleeper'.refs = sleeper.refs
        /\ sleeper'.todo = sleeper.todo \ {c} /\ (sleeper'.failed => sleeper.failed \/ ~ok)
    BY <1>4, <1>s DEF SleepStop, Sleepers
  <2>2. up \ {c} \subseteq up' /\ c \in sleeper.todo /\ sleeper.step = "stop"
    BY <1>4 DEF SleepStop
  <2> QED
    BY <2>1, <2>2, <1>4 DEF SleepStop, StopsOne, SleeperIs
<1>5. CASE SleepDecide /\ UNCHANGED svcVars
  <2>1. CASE sleeper.gen # generation
    <3>1. Idles
      BY <1>5, <2>1, <1>r DEF SleepDecide, Idles, SleeperIs
    <3> QED
      BY <3>1
  <2>2. CASE sleeper.gen = generation
    <3>1. state = "stopping" /\ sleeper.refs = refs
      BY <1>5, <2>2 DEF SleepDecide, IndInv, StopIsLatest, TransitionHasOwner
    <3>2. StopEnds
      BY <1>5, <2>2, <3>1, <1>r DEF SleepDecide, StopEnds, SleeperIs, setStateLocked
    <3> QED
      BY <3>2
  <2> QED
    BY <2>1, <2>2
<1>6. CASE SleepResume /\ resumeFromSleep(0) /\ UNCHANGED <<awaits, deployVars, saved, restarts, world>>
  BY <1>6, <1>r DEF SleepResume, StopResumes, SleeperIs
<1>7. CASE SleepReturn /\ UNCHANGED <<poolVars, deployVars, restarts, world>>
  <2>1. Idles
    BY <1>7, <1>r DEF SleepReturn, Idles, SleeperIs
  <2> QED
    BY <2>1
<1> QED
  BY <1>1, <1>2, <1>3, <1>4, <1>5, <1>6, <1>7 DEF RunStep, SvcSleepStep

\* The steps of a wake.
LEMMA WakeCases ==
  ASSUME SvcTypeOK, IndInv, NEW g \in Generations, SvcWakeStep(g)
  PROVE  WakeStarts(g) \/ WakeFails(g) \/ WakeResumes(g) \/ WakeAwaits(g) \/ WakeEnds(g) \/ WakeReturns(g)
<1> USE DEF control, settings, requestVars, wakeErrors, loopVars, Same, Rest, svcVars
<1>w. wake \in [Generations -> Wakes] /\ wake[g] \in Wakes
  BY DEF SvcTypeOK, TypeOK
<1>n. ASSUME NEW s, wake' = [wake EXCEPT ![g] = [NoWake EXCEPT !.step = s]]
      PROVE  WakeIs(g, s, {}, FALSE)
  BY <1>n, <1>w DEF WakeIs, NoWake
<1>o. ASSUME wake' = [wake EXCEPT ![g] = NoWake]
      PROVE  WakeIs(g, "none", {}, FALSE)
  BY <1>o, <1>w DEF WakeIs, NoWake
<1>e. ASSUME NEW s, NEW f, wake' = [wake EXCEPT ![g].step = s, ![g].failed = f]
      PROVE  WakeIs(g, s, wake[g].todo, f)
  <2>1. wake'[g] = [wake[g] EXCEPT !.step = s, !.failed = f]
    BY <1>e, <1>w
  <2>2. \A h \in Generations \ {g} : wake'[h] = wake[h]
    BY <1>e, <1>w
  <2> QED
    BY <2>1, <2>2, <1>w DEF WakeIs, Wakes
<1>1. ASSUME NEW c \in Containers, WakeStarted(g, c), UNCHANGED svcVars PROVE WakeStarts(g)
  <2>1. wake'[g] = [wake[g] EXCEPT !.todo = @ \ {c}] /\ \A h \in Generations \ {g} : wake'[h] = wake[h]
    BY <1>1, <1>w DEF WakeStarted
  <2>2. WakeIs(g, "start", wake[g].todo \ {c}, wake[g].failed)
    BY <1>1, <2>1, <1>w DEF WakeStarted, WakeIs, Wakes
  <2> QED
    BY <1>1, <2>2 DEF WakeStarted, WakeStarts
<1>2. ASSUME UNCHANGED svcVars,
             \/ \E c \in Containers, started \in BOOLEAN : WakeStartFails(g, c, started)
             \/ WakeNoBudget(g)
      PROVE  WakeFails(g)
  <2>1. wake[g].step = "start" /\ wake' = [wake EXCEPT ![g].step = "finish", ![g].failed = TRUE]
    BY <1>2 DEF WakeStartFails, WakeNoBudget
  <2>2. up \subseteq up' /\ UNCHANGED <<control, signalled, loopVars>>
    BY <1>2 DEF WakeStartFails, WakeNoBudget
  <2> QED
    BY <1>2, <2>1, <2>2, <1>e DEF WakeFails
<1>3. CASE finishWake(g) /\ UNCHANGED svcVars
  <2>1. wake[g].step = "finish" /\ UNCHANGED <<refs, sleeps, closed, sleeper, up>> /\ Rest
    BY <1>3 DEF finishWake
  <2>2. CASE g # generation
    <3>1. Same /\ UNCHANGED idle /\ wake' = [wake EXCEPT ![g] = NoWake]
      BY <1>3, <2>2 DEF finishWake
    <3>2. WakeEnds(g)
      BY <2>1, <2>2, <3>1, <1>o DEF WakeEnds
    <3> QED
      BY <3>2
  <2>3. CASE g = generation
    <3>0. state = "waking"
      BY <2>1, <2>3 DEF IndInv, OneCurrentWake, LiveSteps
    <3>1. CASE wake[g].failed
      <4>1. /\ state' = "sleeping" /\ backoff' /\ UNCHANGED idle /\ generation' = generation + 1
            /\ wake' = [wake EXCEPT ![g] = [NoWake EXCEPT !.step = "suspend"]]
        BY <1>3, <2>3, <3>0, <3>1 DEF finishWake, setStateLocked
      <4>2. WakeEnds(g)
        BY <2>1, <2>3, <3>0, <4>1, <1>n DEF WakeEnds
      <4> QED
        BY <4>2
    <3>2. CASE ~wake[g].failed
      <4>1. /\ state' = "active" /\ ~idle' /\ generation' = generation + 1
            /\ wake' = [wake EXCEPT ![g] = [NoWake EXCEPT !.step = "persist"]]
        BY <1>3, <2>3, <3>0, <3>2 DEF finishWake, setStateLocked
      <4>2. WakeEnds(g)
        BY <2>1, <2>3, <3>0, <3>2, <4>1, <1>n DEF WakeEnds
      <4> QED
        BY <4>2
    <3> QED
      BY <3>1, <3>2
  <2> QED
    BY <2>2, <2>3
<1>4. CASE /\ WakeResume(g) /\ resumeFromSleep(g)
           /\ awaits' = [awaits EXCEPT ![g] = active]
           /\ UNCHANGED <<deployVars, saved, restarts, world>>
  <2>1. wake'[g] = [wake[g] EXCEPT !.step = "await"] /\ \A h \in Generations \ {g} : wake'[h] = wake[h]
    BY <1>4, <1>w DEF WakeResume
  <2>2. WakeIs(g, "await", {}, wake[g].failed)
    BY <1>4, <2>1, <1>w DEF WakeResume, WakeIs, Wakes
  <2>3. WakeResumes(g)
    BY <1>4, <2>2 DEF WakeResume, WakeResumes
  <2> QED
    BY <2>3
<1>5. CASE /\ \E ok \in BOOLEAN : (ok => <<g, awaits[g]>> \in fired) /\ WakeAwait(g, ok)
           /\ awaits' = [awaits EXCEPT ![g] = NoLB]
           /\ fired' = {f \in fired : f[1] # g}
           /\ UNCHANGED <<inPool, probing, healthyCtx, deployVars, saved, restarts, world>>
  <2>1. PICK ok \in BOOLEAN : (ok => <<g, awaits[g]>> \in fired) /\ WakeAwait(g, ok)
    BY <1>5
  <2>2. WakeIs(g, "finish", wake[g].todo, ~ok)
    BY <2>1, <1>e DEF WakeAwait
  <2>3. WakeAwaits(g)
    BY <1>5, <2>1, <2>2 DEF WakeAwait, WakeAwaits
  <2> QED
    BY <2>3
<1>6. CASE /\ WakeReturn(g)
           /\ IF wake[g].step = "suspend"
              THEN suspendForSleep /\ UNCHANGED saved
              ELSE persistState /\ UNCHANGED poolVars
           /\ UNCHANGED <<deployVars, restarts, world>>
  <2>1. WakeReturns(g)
    BY <1>6, <1>o DEF WakeReturn, WakeReturns
  <2> QED
    BY <2>1
<1> QED
  BY <1>1, <1>2, <1>3, <1>4, <1>5, <1>6 DEF SvcWakeStep

\* The steps of a request.
LEMMA RequestCases ==
  ASSUME SvcTypeOK, IndInv, NEW r \in Requests, RequestStep(r), UNCHANGED svcVars
  PROVE  Idles \/ Wakens
<1> USE DEF control, settings, requestVars, wakeErrors, loopVars, Same, Rest, svcVars
<1>1. CASE startWakeLocked(r)
  <2>1. generation + 1 \in Generations
    BY <1>1, MaxGenerationAssumption, SMTT(60) DEF startWakeLocked, Room, SvcTypeOK, TypeOK, Generations
  <2>2. WakeIs(generation + 1, "start", refs, FALSE)
    BY <1>1, <2>1 DEF startWakeLocked, WakeIs, SvcTypeOK, TypeOK
  <2>3. Wakens
    BY <1>1, <2>1, <2>2 DEF startWakeLocked, Wakens
  <2> QED
    BY <2>3
<1>2. CASE admitActive(r) \/ admitBackoff(r) \/ admitWait(r) \/ GiveUp(r) \/ EndRequest(r)
  <2>1. Idles
    BY <1>2 DEF Idles, admitActive, admitBackoff, admitWait, GiveUp, EndRequest
  <2> QED
    BY <2>1
<1> QED
  BY <1>1, <1>2 DEF RequestStep, BeginRequest

\* A graceful restart resumes what the proxy was doing.
LEMMA RestartCase ==
  ASSUME SvcTypeOK, Orderly, NEW kind \in world.restarts, Restart(kind)
  PROVE  Restarts
<1>1. kind = "graceful" /\ ~world.deploys /\ ~world.stopsFail
  BY DEF Orderly, SvcTypeOK
<1>2. saved' = MarshalJSON(state, active, rollout, sleeps)
  BY <1>1 DEF Restart
<1>3. saved'.idle = state /\ saved'.active = active /\ saved'.rollout = rollout /\ saved'.sleeps = sleeps
  BY <1>2 DEF MarshalJSON
<1>4. active' = active /\ rollout' = rollout /\ sleeps' = sleeps
  BY <1>3 DEF Restart
<1>5. state' = IF sleeps THEN IF state = "active" THEN "active" ELSE "sleeping" ELSE "active"
  BY <1>3 DEF Restart, ParseIdleState
<1>6. refs' = IF sleeps THEN containerRefs(active, rollout) ELSE {}
  BY <1>3 DEF Restart
<1>7. ~closed' /\ SleeperIs("top", {}, {}) /\ ~sleeper'.failed
  BY DEF Restart, SleeperIs, Running
<1>8. \A g \in Generations : wake'[g].step = "none"
  BY DEF Restart, NoWake
<1>9. up' = up \/ (sleeper.step = "stop" /\ up' \subseteq up)
  BY DEF Restart
<1>10. /\ inPool' = (IF state' = "sleeping" THEN {} ELSE Slots') /\ probing' = {} /\ fired' = {}
       /\ healthyCtx' = [lb \in LBs |-> 0] /\ installing' = NoLB /\ UNCHANGED <<fresh, world>>
  BY DEF Restart, Slots
<1>11. generation' \in Nat
  BY RestartRestores, SMTT(60)
<1> QED
  BY <1>1, <1>4, <1>5, <1>6, <1>7, <1>8, <1>9, <1>10, <1>11 DEF Restarts

\* The steps of a deploy.
LEMMA DeployCases ==
  ASSUME SvcTypeOK, IndInv, ~closed
  PROVE  /\ \A lb \in LBs, on \in BOOLEAN : DeployInitialize(lb, on) => Initializes(lb, on)
         /\ DeployInstall => Installs
         /\ \A lb \in LBs : SetRolloutTargets(lb) => RollsOut(lb)
<1>1. ASSUME NEW lb \in LBs, NEW on \in BOOLEAN, DeployInitialize(lb, on) PROVE Initializes(lb, on)
  <2>1. Configured(on, active, rollout)
    BY <1>1, ConfigureEffect DEF DeployInitialize
  <2> QED
    BY <1>1, <2>1 DEF DeployInitialize, Initializes
<1>2. ASSUME DeployInstall PROVE Installs
  <2>1. Configured(sleeps, installing, rollout)
    BY <1>2, ConfigureEffect DEF DeployInstall
  <2> QED
    BY <1>2, <2>1 DEF DeployInstall, Installs
<1>3. ASSUME NEW lb \in LBs, SetRolloutTargets(lb) PROVE RollsOut(lb)
  <2>1. Configured(sleeps, active, lb)
    BY <1>3, ConfigureEffect DEF SetRolloutTargets
  <2> QED
    BY <1>3, <2>1 DEF SetRolloutTargets, RollsOut
<1> QED
  BY <1>1, <1>2, <1>3

WakeAny(g) ==
  WakeStarts(g) \/ WakeFails(g) \/ WakeResumes(g) \/ WakeAwaits(g) \/ WakeEnds(g) \/ WakeReturns(g)

AnyStep ==
  \/ Idles \/ Wakens \/ Stops \/ StopSuspends \/ StopsOne \/ StopEnds \/ StopResumes
  \/ (\E g \in Generations : WakeAny(g))
  \/ Elapses \/ (\E lb \in LBs : Answers(lb))
  \/ (\E lb \in LBs, on \in BOOLEAN : Initializes(lb, on))
  \/ Installs \/ (\E lb \in LBs : RollsOut(lb)) \/ Restarts

\* Every step of the service has one of the effects summarised above.
LEMMA SvcCases ==
  ASSUME SvcInv, Orderly, [SvcNext]_allVars PROVE AnyStep
<1>t. SvcTypeOK /\ IndInv /\ ~closed
  BY DEF SvcInv, SlotsInv
<1>1. CASE UNCHANGED allVars
  BY <1>1 DEF allVars, vars, svcVars, Idles, Same, Rest, AnyStep
<1>2. CASE \E r \in world.requests : RequestStep(r) /\ UNCHANGED svcVars
  <2>1. world.requests \subseteq Requests
    BY <1>t, WorldsAssumption DEF SvcTypeOK
  <2> QED
    BY <1>2, <1>t, <2>1, RequestCases DEF AnyStep
<1>3. CASE RunStep /\ UNCHANGED svcVars
  BY <1>3, <1>t, StopCases DEF AnyStep
<1>4. CASE SvcSleepStep
  BY <1>4, <1>t, StopCases DEF AnyStep
<1>5. CASE \E g \in Generations : SvcWakeStep(g)
  BY <1>5, <1>t, WakeCases DEF AnyStep, WakeAny
<1>6. CASE SvcTick
  <2>1. Elapses
    BY <1>6 DEF SvcTick, Orderly, Tick, SleepAfterElapses, BackoffElapses, Elapses, Rest,
       settings, requestVars, wakeErrors, loopVars, svcVars
  <2> QED
    BY <2>1 DEF AnyStep
<1>7. CASE \E lb \in LBs : Probe(lb)
  <2>1. PICK lb \in LBs : Probe(lb)
    BY <1>7
  <2>2. Answers(lb)
    BY <2>1 DEF Probe, Answers, Same, vars
  <2> QED
    BY <2>2 DEF AnyStep
<1>8. CASE \E lb \in LBs, on \in BOOLEAN : DeployInitialize(lb, on)
  BY <1>8, <1>t, DeployCases DEF AnyStep
<1>9. CASE DeployInstall
  BY <1>9, <1>t, DeployCases DEF AnyStep
<1>10. CASE \E lb \in LBs : SetRolloutTargets(lb)
  BY <1>10, <1>t, DeployCases DEF AnyStep
<1>11. CASE \E kind \in world.restarts : Restart(kind)
  BY <1>11, <1>t, RestartCase DEF AnyStep
<1> QED
  BY <1>1, <1>2, <1>3, <1>4, <1>5, <1>6, <1>7, <1>8, <1>9, <1>10, <1>11 DEF SvcNext

-----------------------------------------------------------------------------
(* Each part of the invariant survives every step.                           *)

\* An awake service has containers, those of the load balancers it started with.
LEMMA SlotRefs ==
  ASSUME NEW lb1 \in LBs, NEW lb2, lb1 # NoLB
  PROVE  ContainerOf[lb1] \in containerRefs(lb1, lb2)
  BY DEF containerRefs

\* A load balancer of its own container is known to no one else.
LEMMA OwnRefs ==
  ASSUME OwnContainers, NEW lb \in LBs, NEW lb1 \in LBs \cup {NoLB}, NEW lb2 \in LBs \cup {NoLB},
         lb \notin {lb1, lb2}
  PROVE  ContainerOf[lb] \notin containerRefs(lb1, lb2)
  BY DEF OwnContainers, containerRefs

\* Every step leaves the controller with the containers of the current load balancers.
LEMMA SlotsKept == ASSUME SvcInv, AnyStep PROVE SlotsInv'
<1>t. /\ SlotsInv /\ active \in LBs /\ rollout \in LBs \cup {NoLB} /\ fresh \subseteq LBs
      /\ installing \in LBs \cup {NoLB} /\ NoLB \notin LBs /\ sleeps \in BOOLEAN
  BY FirstLBAssumption DEF SvcInv, SvcTypeOK, TypeOK
<1>1. ASSUME UNCHANGED <<refs, sleeps, closed, deployVars>>, state' # "active" => state # "active" \/ sleeps
      PROVE  SlotsInv'
  BY <1>1, <1>t DEF SlotsInv, deployVars
<1>2. CASE Idles \/ Wakens \/ Stops \/ StopSuspends \/ StopsOne \/ StopEnds \/ StopResumes
  BY <1>2, <1>1 DEF Idles, Wakens, Stops, StopSuspends, StopsOne, StopEnds, StopResumes, Same, Rest
<1>3. CASE \E g \in Generations : WakeAny(g)
  BY <1>3, <1>1 DEF WakeAny, WakeStarts, WakeFails, WakeResumes, WakeAwaits, WakeEnds, WakeReturns, Same, Rest
<1>4. CASE Elapses \/ \E lb \in LBs : Answers(lb)
  BY <1>4, <1>1 DEF Elapses, Answers, Same, Rest
<1>5. ASSUME NEW lb \in LBs, NEW on \in BOOLEAN, Initializes(lb, on) PROVE SlotsInv'
  <2>1. sleeps' = on /\ ~closed' /\ refs' = IF on THEN containerRefs(active, rollout) ELSE {}
    BY <1>5, <1>t DEF Initializes, Configured, Reconfigured, Redeployed, SlotsInv
  <2>2. state' # "active" => sleeps'
    <3>1. CASE (IF on THEN containerRefs(active, rollout) ELSE {}) # refs
      BY <1>5, <3>1 DEF Initializes, Configured, Redeployed
    <3>2. CASE (IF on THEN containerRefs(active, rollout) ELSE {}) = refs
      <4>1. state' = state
        BY <1>5, <3>2 DEF Initializes, Configured, Reconfigured
      <4>2. ContainerOf[active] \in containerRefs(active, rollout)
        BY <1>t, SlotRefs
      <4> QED
        BY <2>1, <3>2, <4>1, <4>2, <1>t DEF SlotsInv
    <3> QED
      BY <3>1, <3>2
  <2>3. /\ fresh' \cap {FirstLB, active', rollout', installing'} = {}
        /\ installing' # NoLB => installing' \notin {active', rollout'}
    BY <1>5, <1>t DEF Initializes, SlotsInv
  <2> QED
    BY <1>5, <2>1, <2>2, <2>3 DEF SlotsInv, Initializes
<1>6. ASSUME NEW lb1, NEW lb2, Configured(sleeps, lb1, lb2)
      PROVE  /\ sleeps' = sleeps /\ ~closed' /\ (state' # "active" => sleeps')
             /\ refs' = IF sleeps' THEN containerRefs(lb1, lb2) ELSE {}
  BY <1>6, <1>t DEF Configured, Reconfigured, Redeployed, SlotsInv
<1>7. CASE Installs
  BY <1>7, <1>6, <1>t DEF Installs, SlotsInv
<1>8. ASSUME NEW lb \in LBs, RollsOut(lb) PROVE SlotsInv'
  BY <1>8, <1>6, <1>t DEF RollsOut, SlotsInv
<1>9. CASE Restarts
  <2>1. /\ ~closed' /\ refs' = IF sleeps' THEN containerRefs(active', rollout') ELSE {}
        /\ state' # "active" => sleeps'
    BY <1>9 DEF Restarts
  <2> QED
    BY <1>9, <2>1, <1>t DEF SlotsInv, Restarts
<1> QED
  BY <1>2, <1>3, <1>4, <1>5, <1>7, <1>8, <1>9 DEF AnyStep

\* Every step leaves the hooks that are due to a service they still concern.
LEMMA HooksKept == ASSUME SvcInv, AnyStep PROVE HooksInv'
<1>t. /\ HooksInv /\ state \in IdleStates /\ idle \in BOOLEAN /\ backoff \in BOOLEAN
      /\ generation \in Nat /\ Generations \subseteq Nat
  BY MaxGenerationAssumption, SMTT(60) DEF SvcInv, SvcTypeOK, TypeOK, Generations
<1>i. /\ WakeExcludesStop /\ StopIsLatest /\ OneCurrentWake
  BY DEF SvcInv, IndInv
<1>1. ASSUME UNCHANGED <<state, generation, backoff>>, idle' \in {idle, FALSE}, Stopping' => Stopping,
             \A g \in Generations : wake'[g] = wake[g] \/ wake'[g].step \notin {"start", "suspend"}
      PROVE  HooksInv'
  BY <1>1, <1>t DEF HooksInv, JustAwake
<1>2. CASE Idles \/ StopSuspends \/ StopsOne \/ StopResumes
  <2>1. Stopping' => Stopping
    BY <1>2 DEF Idles, StopSuspends, StopsOne, StopResumes, SleeperIs, Stopping
  <2> QED
    BY <1>2, <1>1, <2>1 DEF Idles, StopSuspends, StopsOne, StopResumes, Same
<1>3. CASE Wakens
  BY <1>3, <1>t DEF Wakens, WakeIs, HooksInv, JustAwake
<1>4. CASE Stops
  BY <1>4, <1>t DEF Stops, HooksInv, JustAwake
<1>5. CASE StopEnds
  BY <1>5, <1>t DEF StopEnds, HooksInv, JustAwake
<1>6. ASSUME NEW g \in Generations, WakeStarts(g) PROVE HooksInv'
  BY <1>6, <1>t DEF WakeStarts, WakeIs, Same, HooksInv, JustAwake, Stopping
<1>7. ASSUME NEW g \in Generations, WakeFails(g) \/ WakeResumes(g) \/ WakeAwaits(g) \/ WakeReturns(g)
      PROVE  HooksInv'
  <2>1. Stopping' => Stopping
    BY <1>7 DEF WakeFails, WakeResumes, WakeAwaits, WakeReturns, Stopping
  <2> QED
    BY <1>7, <1>1, <2>1 DEF WakeFails, WakeResumes, WakeAwaits, WakeReturns, WakeIs, Same
<1>8. ASSUME NEW g \in Generations, WakeEnds(g) PROVE HooksInv'
  <2>1. CASE g # generation
    <3>1. Stopping' => Stopping
      BY <1>8 DEF WakeEnds, Stopping
    <3> QED
      BY <1>8, <2>1, <3>1, <1>1 DEF WakeEnds, WakeIs, Same
  <2>2. CASE g = generation
    <3>1. /\ state = "waking" /\ UNCHANGED sleeper /\ wake[g].step = "finish"
          /\ \A h \in Generations \ {g} : wake'[h] = wake[h]
          /\ wake'[g].step \in {"suspend", "persist"}
          /\ wake'[g].step = "suspend" => state' = "sleeping" /\ backoff'
      BY <1>8, <2>2 DEF WakeEnds, WakeIs
    <3>2. ASSUME NEW h \in Generations, h # g
          PROVE  wake[h].step # "suspend" /\ (wake[h].step = "start" => wake[h].todo # {} /\ wake[h].cancelled)
      BY <3>1, <3>2, <2>2, <1>t DEF HooksInv, JustAwake
    <3> QED
      BY <3>1, <3>2 DEF HooksInv
  <2> QED
    BY <2>1, <2>2
<1>9. CASE Elapses
  BY <1>9, <1>t DEF Elapses, HookDue, HooksInv, JustAwake
<1>10. ASSUME NEW lb \in LBs, Answers(lb) PROVE HooksInv'
  <2>1. Stopping' => Stopping
    BY <1>10 DEF Answers, Stopping
  <2> QED
    BY <1>10, <2>1, <1>1 DEF Answers, Same
<1>11. ASSUME NEW on, NEW lb1, NEW lb2, Configured(on, lb1, lb2) PROVE HooksInv'
  <2> DEFINE rs == IF on THEN containerRefs(lb1, lb2) ELSE {}
  <2>s. Stopping' = Stopping
    BY <1>11 DEF Configured, Reconfigured, Redeployed, Stopping
  <2>1. CASE Reconfigured(on)
    BY <2>1, <2>s, <1>1 DEF Reconfigured
  <2>2. CASE Redeployed(on, rs)
    <3>1. ASSUME NEW g \in Generations, wake[g].step = "suspend" PROVE JustAwake'
      BY <3>1, <2>2, <2>s, <1>t, <1>i DEF Redeployed, HooksInv, JustAwake, StopIsLatest, Stopping
    <3>2. ASSUME NEW g \in Generations, wake[g].step = "start"
          PROVE  (wake'[g].todo # {} /\ wake'[g].cancelled) \/ (wake'[g].todo = {} /\ JustAwake')
      BY <3>2, <2>2, <2>s, <1>t, <1>i DEF Redeployed, HooksInv, JustAwake, WakeExcludesStop, Stopping
    <3> QED
      BY <3>1, <3>2, <2>2 DEF Redeployed, HooksInv
  <2> QED
    BY <1>11, <2>1, <2>2 DEF Configured
<1>12. CASE Restarts
  BY <1>12 DEF Restarts, HooksInv
<1> QED
  BY <1>2, <1>3, <1>4, <1>5, <1>6, <1>7, <1>8, <1>9, <1>10, <1>11, <1>12
     DEF AnyStep, WakeAny, Initializes, Installs, RollsOut

\* Every step leaves a stop away from load balancers that came after it.
LEMMA StopKept == ASSUME SvcInv, OwnContainers, AnyStep PROVE StopInv'
<1>t. /\ StopInv /\ SlotsInv /\ HooksInv /\ WakeExcludesStop
      /\ active \in LBs /\ rollout \in LBs \cup {NoLB} /\ fresh \subseteq LBs
      /\ installing \in LBs \cup {NoLB} /\ NoLB \notin LBs /\ inPool \subseteq LBs /\ probing \subseteq LBs
  BY FirstLBAssumption DEF SvcInv, SvcTypeOK, IndInv
<1>1. ASSUME UNCHANGED <<sleeper, deployVars>>, sleeper.step = "resume" => state' = "active",
             sleeper.step = "stop" => inPool' \cup probing' \subseteq inPool \cup probing
      PROVE  StopInv'
  BY <1>1, <1>t DEF StopInv, Stopping, Slots, deployVars
<1>2. ASSUME sleeper'.todo = {}, sleeper'.step \notin {"suspend", "stop"},
             sleeper'.step = "resume" => state' = "active"
      PROVE  StopInv'
  BY <1>2 DEF StopInv, Stopping
<1>3. CASE Idles
  <2>1. CASE UNCHANGED sleeper
    BY <1>3, <2>1, <1>1, <1>t DEF Idles, Same, Rest, poolVars, StopInv
  <2>2. CASE \E s \in {"top", "select", "exited"} : SleeperIs(s, {}, {})
    BY <2>2, <1>2 DEF SleeperIs
  <2> QED
    BY <1>3, <2>1, <2>2 DEF Idles
<1>4. CASE Wakens
  BY <1>4, <1>1, <1>t DEF Wakens, Rest, poolVars, StopInv
<1>5. CASE Stops
  <2>1. ASSUME NEW lb \in LBs, lb \in fresh \/ lb = installing PROVE ContainerOf[lb] \notin refs
    <3>1. lb \notin {active, rollout}
      BY <2>1, <1>t DEF SlotsInv
    <3> QED
      BY <3>1, <1>t, OwnRefs DEF SlotsInv
  <2> QED
    BY <1>5, <2>1 DEF Stops, SleeperIs, StopInv, Stopping, Rest, deployVars
<1>6. CASE StopSuspends
  <2>1. Slots' = Slots /\ Slots \cap (inPool' \cup probing') = {}
    BY <1>6 DEF StopSuspends, suspendForSleep, Slots, deployVars
  <2> QED
    BY <1>6, <2>1, <1>t DEF StopSuspends, SleeperIs, StopInv, Stopping, deployVars
<1>7. CASE StopsOne
  <2>1. Slots' = Slots /\ UNCHANGED <<fresh, installing, inPool, probing>>
    BY <1>7 DEF StopsOne, Rest, Slots, poolVars, deployVars
  <2>2. sleeper'.step = "stop" /\ sleeper'.refs = sleeper.refs /\ sleeper'.todo \subseteq sleeper.todo
    BY <1>7 DEF StopsOne, SleeperIs
  <2> QED
    BY <1>7, <2>1, <2>2, <1>t DEF StopsOne, StopInv, Stopping
<1>8. CASE StopEnds \/ StopResumes
  BY <1>8, <1>2 DEF StopEnds, StopResumes, SleeperIs
<1>9. ASSUME NEW g \in Generations, WakeStarts(g) \/ WakeFails(g) \/ WakeAwaits(g) PROVE StopInv'
  BY <1>9, <1>1, <1>t DEF WakeStarts, WakeFails, WakeAwaits, Same, Rest, poolVars, StopInv
<1>10. ASSUME NEW g \in Generations, WakeResumes(g) PROVE StopInv'
  <2>1. sleeper.step # "stop"
    BY <1>10, <1>t DEF WakeResumes, HooksInv, JustAwake, Stopping, WakeExcludesStop
  <2> QED
    BY <1>10, <2>1, <1>1, <1>t DEF WakeResumes, Same, StopInv
<1>11. ASSUME NEW g \in Generations, WakeEnds(g) PROVE StopInv'
  BY <1>11, <1>1, <1>t DEF WakeEnds, Same, Rest, poolVars, StopInv
<1>12. ASSUME NEW g \in Generations, WakeReturns(g) PROVE StopInv'
  BY <1>12, <1>1, <1>t DEF WakeReturns, Same, suspendForSleep, poolVars, StopInv
<1>13. CASE Elapses
  BY <1>13, <1>1, <1>t DEF Elapses, Rest, poolVars, StopInv
<1>14. ASSUME NEW lb \in LBs, Answers(lb) PROVE StopInv'
  BY <1>14, <1>1, <1>t DEF Answers, Same, StopInv
<1>15. ASSUME NEW on, NEW lb1, NEW lb2, Configured(on, lb1, lb2)
       PROVE  UNCHANGED <<sleeper, up>> /\ (state = "active" => state' = "active")
  BY <1>15 DEF Configured, Reconfigured, Redeployed
<1>16. ASSUME NEW lb \in LBs, NEW on, Initializes(lb, on) PROVE StopInv'
  <2>1. Slots' = Slots /\ lb \notin Slots
    BY <1>16, <1>t DEF Initializes, Slots, SlotsInv
  <2>2. UNCHANGED sleeper /\ (state = "active" => state' = "active")
    BY <1>16, <1>15 DEF Initializes
  <2> QED
    BY <1>16, <2>1, <2>2, <1>t DEF Initializes, StopInv, Stopping
<1>17. CASE Installs
  <2>1. UNCHANGED sleeper /\ (state = "active" => state' = "active")
    BY <1>17, <1>15 DEF Installs
  <2>2. Slots' \subseteq Slots \cup {installing}
    BY <1>17 DEF Installs, Slots
  <2> QED
    BY <1>17, <2>1, <2>2, <1>t DEF Installs, StopInv, Stopping
<1>18. ASSUME NEW lb \in LBs, RollsOut(lb) PROVE StopInv'
  <2>1. UNCHANGED sleeper /\ (state = "active" => state' = "active")
    BY <1>18, <1>15 DEF RollsOut
  <2>2. Slots' \subseteq Slots \cup {lb}
    BY <1>18 DEF RollsOut, Slots
  <2> QED
    BY <1>18, <2>1, <2>2, <1>t DEF RollsOut, StopInv, Stopping
<1>19. CASE Restarts
  BY <1>19, <1>2 DEF Restarts, SleeperIs
<1> QED
  BY <1>3, <1>4, <1>5, <1>6, <1>7, <1>8, <1>9, <1>10, <1>11, <1>12, <1>13, <1>14,
     <1>16, <1>17, <1>18, <1>19 DEF AnyStep, WakeAny

\* A deploy that ends while the service sleeps wakes it: its containers are new.
LEMMA DeployAwakens ==
  ASSUME SvcInv, OwnContainers
  PROVE  /\ Installs => Redeployed(sleeps, refs') \/ (~sleeps /\ Reconfigured(sleeps))
         /\ \A lb \in LBs : RollsOut(lb) => Redeployed(sleeps, refs') \/ (~sleeps /\ Reconfigured(sleeps))
<1>t. /\ SlotsInv /\ active \in LBs /\ rollout \in LBs \cup {NoLB} /\ fresh \subseteq LBs
      /\ installing \in LBs \cup {NoLB} /\ NoLB \notin LBs /\ sleeps \in BOOLEAN
  BY FirstLBAssumption DEF SvcInv, SvcTypeOK, TypeOK
<1>1. ASSUME NEW lb1 \in LBs, NEW lb2 \in LBs \cup {NoLB}, Configured(sleeps, lb1, lb2),
             sleeps => containerRefs(lb1, lb2) # refs
      PROVE  Redeployed(sleeps, refs') \/ (~sleeps /\ Reconfigured(sleeps))
  BY <1>1 DEF Configured, Redeployed
<1>2. ASSUME Installs PROVE Redeployed(sleeps, refs') \/ (~sleeps /\ Reconfigured(sleeps))
  <2>1. installing \in LBs /\ installing # NoLB /\ installing \notin {active, rollout}
    BY <1>2, <1>t DEF Installs, SlotsInv
  <2>2. ContainerOf[installing] \in containerRefs(installing, rollout)
    BY <2>1, SlotRefs
  <2>3. ContainerOf[installing] \notin containerRefs(active, rollout)
    BY <2>1, <1>t, OwnRefs
  <2> QED
    BY <1>2, <2>1, <2>2, <2>3, <1>t, <1>1 DEF Installs, SlotsInv
<1>3. ASSUME NEW lb \in LBs, RollsOut(lb) PROVE Redeployed(sleeps, refs') \/ (~sleeps /\ Reconfigured(sleeps))
  <2>1. lb \notin {active, rollout} /\ lb # NoLB
    BY <1>3, <1>t DEF RollsOut, SlotsInv
  <2>2. ContainerOf[lb] \in containerRefs(active, lb)
    BY <2>1 DEF containerRefs
  <2>3. ContainerOf[lb] \notin containerRefs(active, rollout)
    BY <2>1, <1>t, OwnRefs
  <2> QED
    BY <1>3, <2>1, <2>2, <2>3, <1>t, <1>1 DEF RollsOut, SlotsInv
<1> QED
  BY <1>2, <1>3

\* Every step leaves what is in a pool running, and a sleeping service quiet.
LEMMA PoolKept == ASSUME SvcInv, OwnContainers, AnyStep PROVE PoolInv'
<1>t. /\ PoolInv /\ StopInv /\ SlotsInv /\ HooksInv
      /\ active \in LBs /\ rollout \in LBs \cup {NoLB} /\ fresh \subseteq LBs
      /\ installing \in LBs \cup {NoLB} /\ NoLB \notin LBs /\ inPool \subseteq LBs /\ probing \subseteq LBs
  BY FirstLBAssumption DEF SvcInv, SvcTypeOK
<1>1. ASSUME UNCHANGED deployVars, up \subseteq up',
             \A lb \in Slots : lb \in inPool' => lb \in inPool \/ ContainerOf[lb] \in up,
             AsleepIsQuiet'
      PROVE  PoolInv'
  <2>1. Slots' = Slots
    BY <1>1 DEF Slots, deployVars
  <2> QED
    BY <1>1, <2>1, <1>t DEF PoolInv, deployVars
<1>q. ASSUME UNCHANGED deployVars, state' = "sleeping" => state = "sleeping",
             \A g \in Generations : wake[g].step = "suspend" => wake'[g].step = "suspend",
             Slots \cap (inPool' \cup probing') \subseteq inPool \cup probing
      PROVE  AsleepIsQuiet'
  <2>1. Slots' = Slots
    BY <1>q DEF Slots, deployVars
  <2> QED
    BY <1>q, <2>1, <1>t DEF PoolInv, AsleepIsQuiet
<1>2. CASE Idles \/ Wakens \/ Stops \/ Elapses
  <2>1. UNCHANGED <<deployVars, poolVars, up>> /\ (state' = "sleeping" => state = "sleeping")
    BY <1>2 DEF Idles, Wakens, Stops, Elapses, Rest, Same
  <2>2. \A g \in Generations : wake[g].step = "suspend" => wake'[g].step = "suspend"
    BY <1>2, <1>t DEF Idles, Wakens, WakeIs, Stops, Elapses, HooksInv, JustAwake
  <2> QED
    BY <2>1, <2>2, <1>1, <1>q DEF poolVars
<1>3. CASE StopSuspends
  BY <1>3, <1>1, <1>q DEF StopSuspends, Same, suspendForSleep
<1>4. CASE StopsOne
  <2>1. PICK c \in sleeper.todo : up \ {c} \subseteq up'
    BY <1>4 DEF StopsOne
  <2>2. sleeper.step = "stop" /\ c \in sleeper.refs /\ Stopping
    BY <1>4, <2>1, <1>t DEF StopsOne, StopInv, Stopping
  <2>3. UNCHANGED <<deployVars, poolVars, state, wake>>
    BY <1>4 DEF StopsOne, Same, Rest
  <2>4. Slots' = Slots /\ Slots \subseteq LBs
    BY <2>3, <1>t DEF Slots, deployVars
  <2>5. AsleepIsQuiet'
    BY <2>3, <1>q DEF poolVars
  <2>6. \A lb \in Slots : lb \in inPool => ContainerOf[lb] \in up'
    BY <2>1, <2>2, <1>t DEF PoolInv, StopInv
  <2>7. installing # NoLB => ContainerOf[installing] \in up'
    BY <2>1, <2>2, <1>t DEF PoolInv, StopInv
  <2> QED
    BY <2>3, <2>4, <2>5, <2>6, <2>7 DEF PoolInv, poolVars, deployVars
<1>5. CASE StopEnds
  <2>1. UNCHANGED <<deployVars, poolVars, up, wake>>
    BY <1>5 DEF StopEnds, Rest
  <2>2. Slots' = Slots /\ UNCHANGED <<inPool, probing>> /\ Slots \subseteq LBs
    BY <2>1, <1>t DEF Slots, deployVars, poolVars
  <2>3. \A lb \in Slots : ContainerOf[lb] \in sleeper.refs
    BY <1>5, <1>t, SMTT(60) DEF StopEnds, SlotsInv, containerRefs, Slots
  <2>4. Slots \cap (inPool \cup probing) = {}
    BY <1>5, <2>3, <1>t DEF StopEnds, StopInv
  <2>5. AsleepIsQuiet'
    BY <2>2, <2>4 DEF AsleepIsQuiet
  <2> QED
    BY <2>1, <2>2, <2>5, <1>1
<1>6. CASE StopResumes
  <2>1. state' # "sleeping"
    BY <1>6, <1>t DEF StopResumes, Same, StopInv
  <2> QED
    BY <1>6, <2>1, <1>1 DEF StopResumes, resumeFromSleep, AsleepIsQuiet
<1>7. ASSUME NEW g \in Generations, WakeStarts(g) \/ WakeFails(g) \/ WakeAwaits(g) PROVE PoolInv'
  BY <1>7, <1>1, <1>q DEF WakeStarts, WakeFails, WakeAwaits, WakeIs, Same, Rest, poolVars
<1>8. ASSUME NEW g \in Generations, WakeResumes(g) PROVE PoolInv'
  <2>1. state' # "sleeping"
    BY <1>8, <1>t DEF WakeResumes, Same, HooksInv, JustAwake
  <2> QED
    BY <1>8, <2>1, <1>1 DEF WakeResumes, resumeFromSleep, AsleepIsQuiet
<1>9. ASSUME NEW g \in Generations, WakeEnds(g) PROVE PoolInv'
  <2>1. UNCHANGED <<deployVars, poolVars, up>>
    BY <1>9 DEF WakeEnds, Rest
  <2>2. CASE wake'[g].step = "suspend"
    BY <2>1, <2>2, <1>1 DEF AsleepIsQuiet, poolVars
  <2>3. CASE wake'[g].step # "suspend"
    BY <1>9, <2>1, <2>3, <1>1, <1>q DEF WakeEnds, WakeIs, Same, poolVars
  <2> QED
    BY <2>2, <2>3
<1>10. ASSUME NEW g \in Generations, WakeReturns(g) PROVE PoolInv'
  <2>1. CASE wake[g].step = "suspend"
    <3>1. suspendForSleep /\ UNCHANGED <<deployVars, up>> /\ Slots' = Slots
      BY <1>10, <2>1 DEF WakeReturns, Slots, deployVars
    <3>2. AsleepIsQuiet'
      BY <3>1 DEF suspendForSleep, AsleepIsQuiet
    <3> QED
      BY <3>1, <3>2, <1>1 DEF suspendForSleep
  <2>2. CASE wake[g].step # "suspend"
    BY <1>10, <2>2, <1>1, <1>q DEF WakeReturns, WakeIs, Same, poolVars
  <2> QED
    BY <2>1, <2>2
<1>11. ASSUME NEW lb \in LBs, Answers(lb) PROVE PoolInv'
  BY <1>11, <1>1, <1>q DEF Answers, Same
<1>12. ASSUME NEW on, NEW lb1, NEW lb2, Configured(on, lb1, lb2)
       PROVE  /\ UNCHANGED up
              /\ state' = "sleeping" => state = "sleeping" /\ UNCHANGED wake
  BY <1>12 DEF Configured, Reconfigured, Redeployed
<1>13. ASSUME NEW lb \in LBs, NEW on, Initializes(lb, on) PROVE PoolInv'
  <2>1. Slots' = Slots /\ lb \notin Slots
    BY <1>13, <1>t DEF Initializes, Slots, SlotsInv
  <2>2. UNCHANGED up /\ (state' = "sleeping" => state = "sleeping" /\ UNCHANGED wake)
    BY <1>13, <1>12 DEF Initializes
  <2>3. inPool' = inPool \cup {lb} /\ probing' = probing /\ installing' = lb /\ ContainerOf[lb] \in up
    BY <1>13 DEF Initializes
  <2>4. AsleepIsQuiet'
    BY <2>1, <2>2, <2>3, <1>t DEF PoolInv, AsleepIsQuiet
  <2> QED
    BY <2>1, <2>2, <2>3, <2>4, <1>t DEF PoolInv
<1>14. ASSUME Redeployed(sleeps, refs') \/ (~sleeps /\ Reconfigured(sleeps))
       PROVE  AsleepIsQuiet' /\ UNCHANGED up
  BY <1>14, <1>t DEF Redeployed, Reconfigured, SlotsInv, AsleepIsQuiet
<1>15. CASE Installs
  <2>1. AsleepIsQuiet' /\ UNCHANGED up
    BY <1>15, <1>14, DeployAwakens
  <2>2. Slots' \subseteq Slots \cup {installing} /\ inPool' = inPool /\ installing # NoLB /\ installing' = NoLB
    BY <1>15 DEF Installs, Slots
  <2> QED
    BY <2>1, <2>2, <1>t DEF PoolInv
<1>16. ASSUME NEW lb \in LBs, RollsOut(lb) PROVE PoolInv'
  <2>1. AsleepIsQuiet' /\ UNCHANGED up
    BY <1>16, <1>14, DeployAwakens
  <2>2. /\ Slots' \subseteq Slots \cup {lb} /\ inPool' = inPool \cup {lb} /\ installing' = installing
        /\ ContainerOf[lb] \in up
    BY <1>16 DEF RollsOut, Slots
  <2> QED
    BY <2>1, <2>2, <1>t DEF PoolInv
<1>17. CASE Restarts
  <2>1. EarlyInv
    BY DEF SvcInv
  <2>2. /\ active = FirstLB /\ rollout = NoLB /\ sleeps /\ (Stopping => state = "stopping")
        /\ (state = "active" => active \in inPool)
    BY <1>17, <2>1 DEF Restarts, EarlyInv
  <2>3. Slots' = {active} /\ Slots = {active}
    BY <1>17, <2>2, <1>t DEF Restarts, Slots
  <2>4. CASE state' = "sleeping"
    BY <1>17, <2>4 DEF Restarts, PoolInv, AsleepIsQuiet
  <2>5. CASE state' # "sleeping"
    <3>1. state = "active" /\ up' = up
      BY <1>17, <2>5, <2>2 DEF Restarts, Stopping
    <3>2. ContainerOf[active] \in up'
      BY <3>1, <2>2, <2>3, <1>t DEF PoolInv
    <3> QED
      BY <1>17, <2>3, <2>5, <3>2 DEF Restarts, PoolInv, AsleepIsQuiet
  <2> QED
    BY <2>4, <2>5
<1> QED
  BY <1>2, <1>3, <1>4, <1>5, <1>6, <1>7, <1>8, <1>9, <1>10, <1>11, <1>13,
     <1>15, <1>16, <1>17, SMTT(60) DEF AnyStep, WakeAny

\* Every step leaves a wake to count only answers of targets in its pool.
LEMMA WakeKept == ASSUME SvcInv, OwnContainers, AnyStep PROVE WakeInv'
<1>t. /\ WakeInv /\ SlotsInv /\ HooksInv /\ generation \in Nat /\ Generations \subseteq Nat
      /\ healthyCtx \in [LBs -> Nat] /\ active \in LBs /\ awaits \in [Generations -> LBs \cup {NoLB}]
  BY MaxGenerationAssumption, SMTT(60) DEF SvcInv, SvcTypeOK, TypeOK, Generations
<1>i. /\ WakeExcludesStop /\ OneCurrentWake /\ WakesArePast
  BY DEF SvcInv, IndInv
<1>p. \A g \in Generations : wake[g].step \in {"await", "finish"} =>
         g <= generation /\ (g = generation => state = "waking")
  BY <1>i DEF OneCurrentWake, WakesArePast, LiveSteps
<1>1. ASSUME UNCHANGED <<fired, healthyCtx, awaits, active>>, generation' = generation,
             state' = "waking" => state = "waking", inPool \subseteq inPool',
             \A g \in Generations :
                \/ wake'[g].step = wake[g].step /\ wake'[g].todo = wake[g].todo /\ wake'[g].failed = wake[g].failed
                \/ wake'[g].step \notin {"await", "finish"}
                \/ wake'[g].step = "finish" /\ wake'[g].failed
      PROVE  WakeInv'
  BY <1>1, <1>t DEF WakeInv
<1>2. ASSUME UNCHANGED <<fired, healthyCtx>>, generation' = generation + 1, state' # "waking",
             \A g \in Generations :
                \/ wake'[g].step = wake[g].step /\ wake'[g].todo = wake[g].todo /\ wake'[g].failed = wake[g].failed
                \/ wake'[g].step \notin {"await", "finish"}
      PROVE  WakeInv'
  <2>1. /\ \A g \in Generations, lb \in LBs : <<g, lb>> \in fired' => g <= generation'
        /\ \A lb \in LBs : healthyCtx'[lb] <= generation'
    BY <1>2, <1>t, SMTT(60) DEF WakeInv
  <2>2. ASSUME NEW g \in Generations, wake'[g].step \in {"await", "finish"} PROVE g # generation'
    <3>1. g <= generation /\ g \in Nat
      BY <2>2, <1>2, <1>p, <1>t
    <3>2. generation' = generation + 1 /\ generation \in Nat
      BY <1>2, <1>t
    <3> QED
      BY <3>1, <3>2, SMTT(60)
  <2> QED
    BY <1>2, <2>1, <2>2, <1>t DEF WakeInv
<1>3. CASE Idles \/ StopsOne \/ Elapses
  BY <1>3, <1>1 DEF Idles, StopsOne, Elapses, Same, Rest, poolVars, deployVars
<1>4. CASE Stops \/ StopEnds
  BY <1>4, <1>2 DEF Stops, StopEnds, Rest, poolVars
<1>5. CASE Wakens
  <2>1. /\ \A g \in Generations, lb \in LBs : <<g, lb>> \in fired' => g <= generation'
        /\ \A lb \in LBs : healthyCtx'[lb] <= generation'
    BY <1>5, <1>t, SMTT(60) DEF WakeInv, Wakens, Rest, poolVars
  <2>2. \A lb \in LBs : <<generation', lb>> \notin fired'
    BY <1>5, <1>t, SMTT(60) DEF WakeInv, Wakens, Rest, poolVars
  <2>3. \A g \in Generations : wake'[g].step \in {"await", "finish"} => g # generation' /\ wake'[g] = wake[g]
    BY <1>5 DEF Wakens, WakeIs
  <2> QED
    BY <2>1, <2>2, <2>3, <1>t DEF WakeInv
<1>6. CASE StopSuspends
  <2>1. state # "waking"
    BY <1>6, <1>i DEF StopSuspends, WakeExcludesStop
  <2>2. \A g \in Generations : wake[g].step \in {"await", "finish"} => g # generation
    BY <2>1, <1>p
  <2> QED
    BY <1>6, <2>1, <2>2, <1>t DEF StopSuspends, suspendForSleep, Same, WakeInv, deployVars
<1>7. ASSUME NEW k \in Nat, k <= generation, resumeFromSleep(k), Same, UNCHANGED deployVars
      PROVE  /\ \A g \in Generations, lb \in LBs : <<g, lb>> \in fired' => g <= generation'
             /\ \A lb \in LBs : healthyCtx'[lb] <= generation'
             /\ state' = "waking" => \A lb \in LBs : <<generation', lb>> \in fired' => lb \in inPool'
  BY <1>7, <1>t DEF resumeFromSleep, Same, WakeInv
<1>8. CASE StopResumes
  <2>1. /\ \A g \in Generations, lb \in LBs : <<g, lb>> \in fired' => g <= generation'
        /\ \A lb \in LBs : healthyCtx'[lb] <= generation'
        /\ state' = "waking" => \A lb \in LBs : <<generation', lb>> \in fired' => lb \in inPool'
    BY <1>8, <1>7, <1>t, SMTT(60) DEF StopResumes
  <2> QED
    BY <1>8, <2>1, <1>t DEF StopResumes, resumeFromSleep, Same, WakeInv, deployVars
<1>9. ASSUME NEW g \in Generations, WakeStarts(g) \/ WakeFails(g) PROVE WakeInv'
  BY <1>9, <1>1 DEF WakeStarts, WakeFails, WakeIs, Same, Rest, poolVars, deployVars
<1>10. ASSUME NEW g \in Generations, WakeResumes(g) PROVE WakeInv'
  <2>1. g \in Nat /\ g <= generation
    BY <1>10, <1>t, <1>i DEF WakeResumes, WakesArePast, LiveSteps
  <2>2. /\ \A h \in Generations, lb \in LBs : <<h, lb>> \in fired' => h <= generation'
        /\ \A lb \in LBs : healthyCtx'[lb] <= generation'
        /\ state' = "waking" => \A lb \in LBs : <<generation', lb>> \in fired' => lb \in inPool'
    BY <1>10, <2>1, <1>7 DEF WakeResumes
  <2>3. awaits'[g] = active /\ \A h \in Generations \ {g} : awaits'[h] = awaits[h]
    BY <1>10, <1>t DEF WakeResumes
  <2> QED
    BY <1>10, <2>2, <2>3, <1>t DEF WakeResumes, resumeFromSleep, WakeIs, Same, WakeInv, deployVars
<1>11. ASSUME NEW g \in Generations, WakeAwaits(g) PROVE WakeInv'
  <2>1. PICK ok \in BOOLEAN : (ok => <<g, awaits[g]>> \in fired) /\ WakeIs(g, "finish", wake[g].todo, ~ok)
    BY <1>11 DEF WakeAwaits
  <2>2. wake[g].todo = {}
    BY <1>11, <1>t DEF WakeAwaits, WakeInv
  <2>3. ok /\ g = generation => active \in inPool
    BY <1>11, <2>1, <1>p, <1>t DEF WakeAwaits, WakeInv
  <2>4. \A h \in Generations \ {g} : awaits'[h] = awaits[h]
    BY <1>11, <1>t DEF WakeAwaits
  <2>5. fired' \subseteq fired
    BY <1>11 DEF WakeAwaits
  <2> QED
    BY <1>11, <2>1, <2>2, <2>3, <2>4, <2>5, <1>t DEF WakeAwaits, WakeIs, Same, WakeInv, deployVars
<1>12. ASSUME NEW g \in Generations, WakeEnds(g) PROVE WakeInv'
  <2>1. CASE g # generation
    BY <1>12, <2>1, <1>1 DEF WakeEnds, WakeIs, Same, Rest, poolVars, deployVars
  <2>2. CASE g = generation
    BY <1>12, <2>2, <1>2 DEF WakeEnds, WakeIs, Rest, poolVars
  <2> QED
    BY <2>1, <2>2
<1>13. ASSUME NEW g \in Generations, WakeReturns(g) PROVE WakeInv'
  <2>1. CASE wake[g].step = "suspend"
    <3>1. state # "waking"
      BY <2>1, <1>t DEF HooksInv, JustAwake
    <3>2. \A h \in Generations : wake[h].step \in {"await", "finish"} => h # generation
      BY <3>1, <1>p
    <3> QED
      BY <1>13, <2>1, <3>1, <3>2, <1>t DEF WakeReturns, WakeIs, suspendForSleep, Same, WakeInv, deployVars
  <2>2. CASE wake[g].step # "suspend"
    BY <1>13, <2>2, <1>1 DEF WakeReturns, WakeIs, Same, poolVars, deployVars
  <2> QED
    BY <2>1, <2>2
<1>14. ASSUME NEW lb \in LBs, Answers(lb) PROVE WakeInv'
  <2>1. /\ \A g \in Generations, k \in LBs : <<g, k>> \in fired' => g <= generation
        /\ \A g \in Generations, k \in LBs : <<g, k>> \in fired' => <<g, k>> \in fired \/ k \in inPool'
    BY <1>14, <1>t DEF Answers, WakeInv
  <2>2. state = "waking" => generation \in Generations
    BY DEF SvcInv, IndInv, TransitionHasOwner
  <2> QED
    BY <1>14, <2>1, <2>2, <1>t DEF Answers, Same, WakeInv, deployVars
<1>15. ASSUME NEW lb \in LBs, NEW on, Initializes(lb, on) PROVE WakeInv'
  <2>1. UNCHANGED <<fired, healthyCtx, awaits, active>> /\ inPool \subseteq inPool'
    BY <1>15 DEF Initializes
  <2>2. CASE Reconfigured(on)
    BY <2>1, <2>2, <1>1 DEF Reconfigured
  <2>3. ASSUME NEW rs, Redeployed(on, rs) PROVE WakeInv'
    BY <2>1, <2>3, <1>2 DEF Redeployed
  <2> QED
    BY <1>15, <2>2, <2>3 DEF Initializes, Configured
<1>16. ASSUME Installs \/ \E lb \in LBs : RollsOut(lb) PROVE WakeInv'
  <2>1. UNCHANGED <<fired, healthyCtx, awaits>> /\ inPool \subseteq inPool'
    BY <1>16 DEF Installs, RollsOut
  <2>2. CASE Redeployed(sleeps, refs')
    BY <2>1, <2>2, <1>2 DEF Redeployed
  <2>3. CASE ~sleeps /\ Reconfigured(sleeps)
    <3>1. state = "active"
      BY <2>3, <1>t DEF SlotsInv
    <3>2. \A h \in Generations : wake[h].step \in {"await", "finish"} => h # generation
      BY <3>1, <1>p
    <3> QED
      BY <2>1, <2>3, <3>1, <3>2, <1>t DEF Reconfigured, WakeInv
  <2> QED
    BY <1>16, <2>2, <2>3, DeployAwakens
<1>17. CASE Restarts
  <2>1. /\ fired' = {} /\ healthyCtx' = [lb \in LBs |-> 0] /\ generation' \in Nat
        /\ \A g \in Generations : wake'[g].step = "none"
    BY <1>17 DEF Restarts
  <2>2. \A lb \in LBs : healthyCtx'[lb] <= generation'
    BY <2>1, SMTT(60)
  <2> QED
    BY <2>1, <2>2 DEF WakeInv
<1> QED
  BY <1>3, <1>4, <1>5, <1>6, <1>8, <1>9, <1>10, <1>11, <1>12, <1>13, <1>14, <1>15,
     <1>16, <1>17, SMTT(60) DEF AnyStep, WakeAny

\* Every step before the first deploy leaves stops and wakes not overtaken.
LEMMA EarlyKept == ASSUME SvcInv, AnyStep PROVE EarlyInv'
<1>t. /\ EarlyInv /\ SlotsInv /\ HooksInv /\ WakeInv /\ StopInv /\ WakeExcludesStop /\ OneCurrentWake
      /\ active \in LBs /\ fresh \subseteq LBs /\ NoLB \notin LBs /\ FirstLB \in LBs
      /\ Generations \subseteq Nat /\ generation \in Nat
  BY FirstLBAssumption, MaxGenerationAssumption, SMTT(60)
     DEF SvcInv, SvcTypeOK, TypeOK, IndInv, Generations
<1> DEFINE Early == fresh = LBs \ {FirstLB}
<1>d. ASSUME NEW lb \in fresh, fresh' = fresh \ {lb}, UNCHANGED world, world.deploys
      PROVE  EarlyInv'
  <2>1. fresh' # LBs \ {FirstLB}
    BY <1>d, <1>t DEF SlotsInv
  <2> QED
    BY <1>d, <2>1 DEF EarlyInv
<1>1. ASSUME UNCHANGED <<deployVars, world, sleeps>>,
             Early => /\ Stopping' => state' = "stopping"
                      /\ \A g \in Generations : wake'[g].step = "suspend" => state' = "sleeping"
                      /\ state' = "active" => active \in inPool' \/ active \in probing' \/ sleeper'.step = "resume"
                      /\ ~world.stopsFail =>
                           /\ ~sleeper'.failed /\ sleeper'.step # "resume"
                           /\ state' = "active" => active \in inPool'
      PROVE  EarlyInv'
  BY <1>1, <1>t DEF EarlyInv, deployVars
<1>2. CASE Idles
  <2>1. CASE UNCHANGED sleeper
    BY <1>2, <2>1, <1>1, <1>t DEF Idles, Same, Rest, poolVars, EarlyInv, Stopping
  <2>2. CASE sleeper.step # "resume" /\ \E s \in {"top", "select", "exited"} : SleeperIs(s, {}, {}) /\ ~sleeper'.failed
    BY <1>2, <2>2, <1>1, <1>t DEF Idles, SleeperIs, Same, Rest, poolVars, EarlyInv, Stopping
  <2> QED
    BY <1>2, <2>1, <2>2 DEF Idles
<1>3. CASE Wakens
  BY <1>3, <1>1, <1>t DEF Wakens, WakeIs, Rest, poolVars, EarlyInv, Stopping, HooksInv, JustAwake
<1>4. CASE Stops
  BY <1>4, <1>1, <1>t DEF Stops, SleeperIs, Rest, poolVars, EarlyInv, Stopping
<1>5. CASE StopSuspends
  BY <1>5, <1>1, <1>t DEF StopSuspends, SleeperIs, suspendForSleep, Same, EarlyInv, Stopping
<1>6. CASE StopsOne
  BY <1>6, <1>1, <1>t DEF StopsOne, SleeperIs, Same, Rest, poolVars, EarlyInv, Stopping
<1>7. CASE StopEnds
  BY <1>7, <1>1, <1>t DEF StopEnds, SleeperIs, Rest, poolVars, EarlyInv, Stopping
<1>8. CASE StopResumes
  <2>1. active \in Slots
    BY <1>t DEF Slots
  <2> QED
    BY <1>8, <2>1, <1>1, <1>t DEF StopResumes, SleeperIs, resumeFromSleep, Same, EarlyInv, Stopping
<1>9. ASSUME NEW g \in Generations, WakeStarts(g) \/ WakeFails(g) \/ WakeAwaits(g) PROVE EarlyInv'
  BY <1>9, <1>1, <1>t DEF WakeStarts, WakeFails, WakeAwaits, WakeIs, Same, Rest, poolVars, EarlyInv, Stopping
<1>10. ASSUME NEW g \in Generations, WakeResumes(g) PROVE EarlyInv'
  BY <1>10, <1>1, <1>t DEF WakeResumes, WakeIs, resumeFromSleep, Same, EarlyInv, Stopping
<1>11. ASSUME NEW g \in Generations, WakeEnds(g) PROVE EarlyInv'
  <2>1. CASE g # generation
    BY <1>11, <2>1, <1>1, <1>t DEF WakeEnds, WakeIs, Same, Rest, poolVars, EarlyInv, Stopping
  <2>2. CASE g = generation
    <3>1. state = "waking" /\ wake[g].step = "finish" /\ ~Stopping /\ sleeper.step # "resume"
      BY <1>11, <2>2, <1>t DEF WakeEnds, WakeExcludesStop, StopInv, Stopping
    <3>2. state' = "active" => active \in inPool'
      BY <1>11, <2>2, <3>1, <1>t DEF WakeEnds, WakeInv, Rest, poolVars
    <3>3. Early => \A h \in Generations : wake'[h].step = "suspend" => state' = "sleeping"
      BY <1>11, <2>2, <3>1, <1>t DEF WakeEnds, WakeIs, EarlyInv
    <3>4. UNCHANGED <<sleeper, deployVars, world, sleeps>>
      BY <1>11 DEF WakeEnds, Rest
    <3> QED
      BY <3>1, <3>2, <3>3, <3>4, <1>1, <1>t DEF EarlyInv, Stopping
  <2> QED
    BY <2>1, <2>2
<1>12. ASSUME NEW g \in Generations, WakeReturns(g) PROVE EarlyInv'
  <2>1. CASE wake[g].step = "suspend"
    BY <1>12, <2>1, <1>1, <1>t DEF WakeReturns, WakeIs, Same, EarlyInv, Stopping
  <2>2. CASE wake[g].step # "suspend"
    BY <1>12, <2>2, <1>1, <1>t DEF WakeReturns, WakeIs, Same, poolVars, EarlyInv, Stopping
  <2> QED
    BY <2>1, <2>2
<1>13. CASE Elapses
  BY <1>13, <1>1, <1>t DEF Elapses, Rest, poolVars, EarlyInv, Stopping
<1>14. ASSUME NEW lb \in LBs, Answers(lb) PROVE EarlyInv'
  BY <1>14, <1>1, <1>t DEF Answers, Same, EarlyInv, Stopping
<1>15. ASSUME NEW lb \in LBs, NEW on, Initializes(lb, on) PROVE EarlyInv'
  BY <1>15, <1>d DEF Initializes
<1>16. CASE Installs
  BY <1>16, <1>t DEF Installs, EarlyInv
<1>17. ASSUME NEW lb \in LBs, RollsOut(lb) PROVE EarlyInv'
  BY <1>17, <1>d DEF RollsOut
<1>18. CASE Restarts
  <2>1. Early /\ active = FirstLB /\ rollout = NoLB /\ sleeps
    BY <1>18, <1>t DEF Restarts, EarlyInv
  <2>2. active' \in Slots'
    BY <1>18, <1>t DEF Restarts, Slots
  <2> QED
    BY <1>18, <2>1, <2>2 DEF Restarts, SleeperIs, EarlyInv, Stopping
<1> QED
  BY <1>2, <1>3, <1>4, <1>5, <1>6, <1>7, <1>8, <1>9, <1>10, <1>11, <1>12, <1>13, <1>14,
     <1>15, <1>16, <1>17, <1>18, SMTT(60) DEF AnyStep, WakeAny

-----------------------------------------------------------------------------
(* The theorems.                                                             *)

\* A service just started, or restored, satisfies the inductive invariant.
LEMMA SvcInitInv == SvcInit => SvcInv
<1> SUFFICES ASSUME SvcInit PROVE SvcInv
  OBVIOUS
<1>0. NewIdleController /\ state = "active" /\ generation = 1 /\ up = Containers
  BY DEF SvcInit
<1>1. refs = containerRefs(FirstLB, NoLB) /\ refs \in SUBSET Containers
  BY RefsType, FirstLBAssumption, RefSetsAssumption DEF SvcInit
<1>2. sleeper.step = "top" /\ sleeper.refs = {} /\ sleeper.todo = {} /\ ~sleeper.failed
  BY <1>0 DEF NewIdleController, Running
<1>3. \A g \in Generations : wake[g].step = "none"
  BY <1>0 DEF NewIdleController, NoWake
<1>4. TypeOK
  <2>1. sleeper \in Sleepers
    BY <1>0, RunningType DEF NewIdleController, SleeperSteps
  <2>2. wake \in [Generations -> Wakes]
    BY <1>0, NoWakeType DEF NewIdleController
  <2>3. generation \in 0..MaxGeneration /\ cancel \in 0..MaxGeneration
    BY <1>0, MaxGenerationAssumption, SMTT(60) DEF NewIdleController
  <2>4. req \in [Requests -> RequestStates]
    BY <1>0 DEF NewIdleController, RequestStates
  <2> QED
    BY <1>0, <1>1, <2>1, <2>2, <2>3, <2>4 DEF TypeOK, NewIdleController, IdleStates
<1>5. IndInv
  <2>1. TransitionInv
    BY <1>0, <1>2, <1>3 DEF TransitionInv, TransitionHasOwner, OneCurrentWake, CancelIsForTheWake,
       WakeExcludesStop, StopIsLatest, WakesArePast, RoomReserved, LiveSteps, NewIdleController
  <2>2. Admitted = {}
    BY <1>0 DEF Admitted, NewIdleController
  <2>3. RequestInv
    BY <1>0, <2>2, FS_EmptySet DEF RequestInv, ParkedAwaitsTransition, NoRequestOutsideActive,
       InflightCounted, NewIdleController
  <2>4. BackoffHasError
    BY <1>0 DEF BackoffHasError, NewIdleController
  <2> QED
    BY <1>4, <2>1, <2>3, <2>4 DEF IndInv, TransitionInv, RequestInv
<1>6. SvcTypeOK
  <2>1. saved \in [idle : IdleStates, active : LBs, rollout : LBs \cup {NoLB}, sleeps : BOOLEAN]
    BY FirstLBAssumption DEF SvcInit, MarshalJSON, IdleStates
  <2>2. healthyCtx \in [LBs -> 0..MaxGeneration] /\ awaits \in [Generations -> LBs \cup {NoLB}]
    BY MaxGenerationAssumption, SMTT(60) DEF SvcInit
  <2>3. restarts \in 0..MaxRestarts
    BY WorldsAssumption, SMTT(60) DEF SvcInit
  <2> QED
    BY <1>4, <2>1, <2>2, <2>3, FirstLBAssumption DEF SvcInit, SvcTypeOK
<1>7. SlotsInv
  BY <1>0, <1>1, FirstLBAssumption DEF SvcInit, SlotsInv, NewIdleController
<1>8. HooksInv /\ StopInv
  BY <1>2, <1>3 DEF HooksInv, StopInv, Stopping
<1>9. PoolInv
  BY <1>0, ContainerOfAssumption, FirstLBAssumption DEF SvcInit, PoolInv, AsleepIsQuiet, Slots
<1>10. WakeInv
  <2>1. fired = {} /\ healthyCtx = [lb \in LBs |-> 0]
    BY DEF SvcInit
  <2>2. \A lb \in LBs : healthyCtx[lb] <= generation
    BY <1>0, <2>1, SMTT(60)
  <2> QED
    BY <1>0, <1>3, <2>1, <2>2 DEF WakeInv
<1>11. EarlyInv
  BY <1>0, <1>2, <1>3 DEF SvcInit, EarlyInv, Stopping, NewIdleController
<1> QED
  BY <1>5, <1>6, <1>7, <1>8, <1>9, <1>10, <1>11 DEF SvcInv

\* Every step of the service, its operator and its restarts preserves the inductive invariant.
LEMMA SvcInvKept == ASSUME OwnContainers, Orderly, SvcInv, [SvcNext]_allVars PROVE SvcInv'
<1>1. AnyStep
  BY SvcCases
<1>2. SvcTypeOK' /\ IndInv'
  BY SvcTypesKept, ControllerKept DEF SvcInv
<1> QED
  BY <1>1, <1>2, SlotsKept, HooksKept, StopKept, PoolKept, WakeKept, EarlyKept DEF SvcInv

\* The invariant of the service with its controller, around any number of
\* deploys, wakes, failed stops and graceful restarts.
THEOREM ServiceInvariant == ASSUME OwnContainers, Orderly PROVE SvcSpec => []SvcInv
<1>1. SvcInv /\ [SvcNext]_allVars => SvcInv'
  BY SvcInvKept
<1> QED
  BY <1>1, SvcInitInv, PTL DEF SvcSpec

\* An awake service never routes to a container that was stopped, and a sleeping
\* one neither routes nor probes, whatever deploys, stops and wakes interleave
\* (suspendForSleep, resumeFromSleep, trySleep, finishWake).
THEOREM PoolsAlwaysMatchContainers ==
  ASSUME OwnContainers, Orderly PROVE SvcSpec => []PoolsMatchContainers
<1>1. SvcInv => PoolsMatchContainers
  BY DEF SvcInv, PoolInv, PoolsMatchContainers, RoutedToRunning
<1> QED
  BY <1>1, ServiceInvariant, PTL

\* No request is let through to an empty pool: by an awake service, at the end
\* of a wake, or, before the first deploy, for want of anybody who would refill
\* the pool (trySleep, finishWake, resumeFromSleep).
THEOREM AdmittedAreServable ==
  ASSUME OwnContainers, Orderly PROVE SvcSpec => []AdmittedMeansServable
<1>1. SvcInv => AdmittedMeansServable
  <2> SUFFICES ASSUME SvcInv PROVE AdmittedMeansServable
    OBVIOUS
  <2>1. AwakeMeansServable
    BY DEF SvcInv, EarlyInv, AwakeMeansServable
  <2>2. StrandedOnlyByDeploys
    BY DEF SvcInv, EarlyInv, StrandedOnlyByDeploys, NoStrandedPool
  <2>3. ASSUME NEW g \in Generations, wake[g].step = "finish", ~wake[g].failed, g = generation
        PROVE  active \in inPool /\ refs \subseteq up
    <3>1. active \in inPool /\ wake[g].todo = {}
      BY <2>3 DEF SvcInv, WakeInv
    <3>2. state = "waking"
      BY <2>3 DEF SvcInv, IndInv, OneCurrentWake, LiveSteps
    <3>3. wake[g].refs = refs /\ wake[g].refs \ wake[g].todo \subseteq up
      BY <2>3, <3>2 DEF SvcInv, IndInv, TransitionHasOwner, WakeExcludesStop
    <3> QED
      BY <3>1, <3>3
  <2> QED
    BY <2>1, <2>2, <2>3 DEF AdmittedMeansServable, WokenHasAnswered
<1> QED
  BY <1>1, ServiceInvariant, PTL
=============================================================================
