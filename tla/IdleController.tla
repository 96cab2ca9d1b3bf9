---------------------------- MODULE IdleController ----------------------------
(***************************************************************************)
(* The scale-to-zero controller of one service                             *)
(* (internal/server/idle_controller.go).                                   *)
(*                                                                         *)
(* Three kinds of goroutine share the controller's mutex:                  *)
(*   - request goroutines, inside BeginRequest ... EndRequest;             *)
(*   - run, the single idle timer, which also executes trySleep;           *)
(*   - one goroutine per wake, started by startWakeLocked and named here   *)
(*     by the generation it captured.                                      *)
(* Each critical section of the code is one action; container calls and    *)
(* the suspend/resume/persist hooks, made outside the mutex, are actions   *)
(* of their own.  Operators (Configure, Close, ...) come from deploys.     *)
(*                                                                         *)
(* Time is abstracted to the two comparisons the code makes: idle is       *)
(* "time.Since(lastRequest) >= sleepAfter", backoff is                     *)
(* "time.Now().Before(retryAfter)".  refs is the set of containers of the  *)
(* refs slice: a loop over the slice visits the set in any order.          *)
(***************************************************************************)
EXTENDS Naturals, FiniteSets

CONSTANTS
  Requests,       \* request goroutines; each may come back after it is answered
  Containers,     \* container references the runtime knows
  RefSets,        \* the container sets a deploy may configure
  MaxGeneration   \* bound on generation, so on transitions and redeploys

ASSUME RequestsAssumption == IsFiniteSet(Requests)
ASSUME RefSetsAssumption == RefSets \subseteq SUBSET Containers
ASSUME MaxGenerationAssumption == MaxGeneration \in Nat /\ MaxGeneration >= 2

VARIABLES
  state,       \* c.state
  generation,  \* c.generation
  refs,        \* c.refs
  inflight,    \* c.inflight
  idle,        \* time.Since(c.lastRequest) >= c.sleepAfter
  sleeps,      \* c.sleepAfter > 0
  lastErr,     \* c.lastErr # nil
  backoff,     \* time.Now().Before(c.retryAfter)
  disabled,    \* c.disabled
  cancel,      \* the wake c.cancel belongs to, 0 for nil
  closed,      \* c.closed is closed
  signalled,   \* c.signalled holds its one buffered nudge
  req,         \* where each request goroutine is
  armed,       \* eligible as run last computed it: FALSE parks it for an hour
  sleeper,     \* the run goroutine: its step, and trySleep's locals
  wake,        \* the wake goroutine that captured each generation
  up           \* external: the containers that are running

requestVars == <<inflight, idle, req>>
settings    == <<refs, sleeps, disabled, closed>>
wakeErrors  == <<lastErr, backoff>>
loopVars    == <<armed, sleeper>>
control     == <<state, generation, settings, requestVars, wakeErrors, cancel>>
vars == <<state, generation, refs, inflight, idle, sleeps, lastErr, backoff,
          disabled, cancel, closed, signalled, req, armed, sleeper, wake, up>>

IdleStates  == {"active", "stopping", "sleeping", "waking"}
Generations == 1..MaxGeneration

\* out: not in BeginRequest; parked: in its select on the current changed
\* channel; ready: that channel was closed, admit comes next; admitted:
\* between a nil BeginRequest and EndRequest; uncounted: admitted by a nil
\* error although no slot was taken.
RequestStates == {"out", "parked", "ready", "admitted", "uncounted"}

\* top, select: the two halves of run's loop; suspend .. persist: trySleep.
SleeperSteps == {"top", "select", "suspend", "stop", "resume",
                 "await", "persist", "exited"}
WakeSteps    == {"none", "start", "await", "finish", "suspend", "persist"}

Sleepers == [step : SleeperSteps, gen : 0..MaxGeneration,
             refs : SUBSET Containers, todo : SUBSET Containers, failed : BOOLEAN]
Wakes    == [step : WakeSteps, refs : SUBSET Containers, todo : SUBSET Containers,
             failed : BOOLEAN, cancelled : BOOLEAN]

Running(step) == [step |-> step, gen |-> 0, refs |-> {}, todo |-> {}, failed |-> FALSE]
NoWake == [step |-> "none", refs |-> {}, todo |-> {}, failed |-> FALSE, cancelled |-> FALSE]

-----------------------------------------------------------------------------
(* Initial states. *)

\* The parts NewIdleController sets the same way for every service.
NewIdleController ==
  /\ inflight = 0 /\ idle = FALSE /\ sleeps = TRUE
  /\ lastErr = FALSE /\ backoff = FALSE /\ disabled = FALSE
  /\ cancel = 0 /\ closed = FALSE /\ signalled = TRUE
  /\ req = [r \in Requests |-> "out"]
  /\ armed = FALSE /\ sleeper = Running("top")
  /\ wake = [g \in Generations |-> NoWake]

\* A first deploy: the controller exists before the load balancer does, so it
\* starts with no containers and learns them from the next Configure.
InitDeployed ==
  /\ NewIdleController
  /\ state = "active" /\ generation = 0 /\ refs = {}
  /\ up = Containers

\* A restart with a state file that said sleeping: Configure (generation 1) and
\* then RestoreSleeping (generation 2), both before any listener is open.
RestoreSleeping ==
  /\ NewIdleController
  /\ state = "sleeping" /\ generation = 2 /\ refs \in RefSets
  /\ up = Containers \ refs

Init == InitDeployed \/ RestoreSleeping

-----------------------------------------------------------------------------
(* Helpers shared by the critical sections. *)

\* The bound: an operation that takes n transitions may begin.
Room(n) == generation + n <= MaxGeneration

\* close(c.changed): every goroutine parked on it is released to loop again.
Broadcast(rs) == [r \in Requests |-> IF rs[r] = "parked" THEN "ready" ELSE rs[r]]

\* Mutant: the transition forgets to close the changed channel.
setStateLocked_NoBroadcast(s, rs) ==
  /\ state' = s
  /\ generation' = IF s = state THEN generation ELSE generation + 1
  /\ req' = rs

\* rs is where the requests are once the step has moved its own.
setStateLocked(s, rs) ==
  /\ state' = s
  /\ generation' = IF s = state THEN generation ELSE generation + 1
  /\ req' = IF s = state THEN rs ELSE Broadcast(rs)

signal == signalled' = TRUE

\* cancel(): the wake's context is done, its next StartContainer cannot succeed.
Cancel(ws) ==
  IF cancel = 0 THEN ws ELSE [ws EXCEPT ![cancel].cancelled = TRUE]

-----------------------------------------------------------------------------
(* Request goroutines: BeginRequest, admit, EndRequest. *)

admitActive(r) ==
  /\ state = "active"
  /\ inflight' = inflight + 1
  /\ idle' = FALSE
  /\ req' = [req EXCEPT ![r] = "admitted"]
  /\ UNCHANGED <<state, generation, settings, wakeErrors, cancel, signalled,
                 loopVars, wake, up>>

\* A recent wake failed: return lastErr without waiting.  A nil lastErr would
\* read as an admission.
admitBackoff(r) ==
  /\ state = "sleeping" /\ backoff
  /\ req' = [req EXCEPT ![r] = IF lastErr THEN "out" ELSE "uncounted"]
  /\ UNCHANGED <<state, generation, settings, inflight, idle, wakeErrors, cancel,
                 signalled, loopVars, wake, up>>

\* startWakeLocked: the caller then parks on the channel made by the transition.
startWakeLocked(r) ==
  /\ state = "sleeping" /\ ~backoff /\ Room(2)
  /\ state' = "waking"
  /\ generation' = generation + 1
  /\ req' = [Broadcast(req) EXCEPT ![r] = "parked"]
  /\ wake' = [wake EXCEPT ![generation + 1] =
                [step |-> "start", refs |-> refs, todo |-> refs,
                 failed |-> FALSE, cancelled |-> FALSE]]
  /\ cancel' = generation + 1
  /\ UNCHANGED <<settings, inflight, idle, wakeErrors, signalled, loopVars, up>>

admitWait(r) ==
  /\ state \in {"stopping", "waking"}
  /\ req' = [req EXCEPT ![r] = "parked"]
  /\ UNCHANGED <<state, generation, settings, inflight, idle, wakeErrors, cancel,
                 signalled, loopVars, wake, up>>

\* One iteration of BeginRequest's loop up to its select.
BeginRequest(r) ==
  /\ req[r] \in {"out", "ready"}
  /\ \/ admitActive(r)
     \/ admitBackoff(r)
     \/ startWakeLocked(r)
     \/ admitWait(r)

\* The other arms of the select: the deadline, the client, the closed channel.
GiveUp(r) ==
  /\ req[r] \in {"parked", "ready"}
  /\ req' = [req EXCEPT ![r] = "out"]
  /\ UNCHANGED <<state, generation, settings, inflight, idle, wakeErrors, cancel,
                 signalled, loopVars, wake, up>>

EndRequest(r) ==
  /\ req[r] \in {"admitted", "uncounted"}
  /\ inflight' = IF inflight > 0 THEN inflight - 1 ELSE inflight
  /\ idle' = FALSE
  /\ req' = [req EXCEPT ![r] = "out"]
  /\ signal
  /\ UNCHANGED <<state, generation, settings, wakeErrors, cancel, loopVars, wake, up>>

-----------------------------------------------------------------------------
(* Operators: deploys, pause, removal. *)

\* Mutant: a redeploy does not bump the generation.
redeploy_SameGeneration(rs) ==
  /\ refs' = rs
  /\ idle' = FALSE
  /\ lastErr' = FALSE /\ backoff' = FALSE
  /\ cancel' = 0
  /\ wake' = Cancel(wake)
  /\ state' = "active"
  /\ req' = IF state = "active" THEN req ELSE Broadcast(req)
  /\ UNCHANGED generation

\* A deploy landed on these containers: awake, no errors, any wake cancelled.
redeploy(rs) ==
  /\ Room(1)
  /\ refs' = rs
  /\ idle' = FALSE
  /\ lastErr' = FALSE /\ backoff' = FALSE
  /\ cancel' = 0
  /\ wake' = Cancel(wake)
  /\ state' = "active"
  /\ generation' = generation + 1
  /\ req' = IF state = "active" THEN req ELSE Broadcast(req)

\* Configure(sleepAfter, wakeTimeout, refs): on = (sleepAfter > 0).  Only a
\* changed set of containers is a redeploy; otherwise the new sleepAfter alone
\* may turn an idle service into one that is not idle yet.
Configure(on, rs) ==
  /\ on \/ rs = {}
  /\ sleeps' = on
  /\ signal
  /\ IF rs = refs
     THEN /\ idle' \in {idle, FALSE}
          /\ UNCHANGED <<state, generation, refs, req, wakeErrors, cancel, wake>>
     ELSE redeploy(rs)
  /\ UNCHANGED <<inflight, disabled, closed, loopVars, up>>

\* Reset: the same, whatever the containers were.
Reset(rs) ==
  /\ redeploy(rs)
  /\ signal
  /\ UNCHANGED <<inflight, sleeps, disabled, closed, loopVars, up>>

\* Close: the service was removed.  Neither the state nor the generation moves.
Close ==
  /\ ~closed
  /\ closed' = TRUE
  /\ cancel' = 0
  /\ wake' = Cancel(wake)
  /\ UNCHANGED <<state, generation, refs, sleeps, disabled, requestVars, wakeErrors,
                 signalled, loopVars, up>>

Disable ==
  /\ disabled' = TRUE
  /\ signal
  /\ UNCHANGED <<state, generation, refs, sleeps, closed, requestVars, wakeErrors,
                 cancel, loopVars, wake, up>>

Enable ==
  /\ disabled' = FALSE
  /\ idle' = FALSE
  /\ signal
  /\ UNCHANGED <<state, generation, refs, sleeps, closed, inflight, req, wakeErrors,
                 cancel, loopVars, wake, up>>

-----------------------------------------------------------------------------
(* run: the idle timer. *)

eligible == /\ ~disabled /\ state = "active" /\ inflight = 0
            /\ sleeps /\ refs # {}

RunArm ==
  /\ sleeper.step = "top"
  /\ armed' = eligible
  /\ sleeper' = Running("select")
  /\ UNCHANGED <<control, signalled, wake, up>>

RunSignalled ==
  /\ sleeper.step = "select" /\ signalled
  /\ signalled' = FALSE
  /\ sleeper' = Running("top")
  /\ UNCHANGED <<control, armed, wake, up>>

RunClosed ==
  /\ sleeper.step = "select" /\ closed
  /\ sleeper' = Running("exited")
  /\ UNCHANGED <<control, signalled, armed, wake, up>>

\* The guard of trySleep.
mayStop == eligible /\ idle

\* The timer fires and trySleep returns at once.
TimerTooSoon ==
  /\ sleeper.step = "select" /\ ~mayStop
  /\ sleeper' = Running("top")
  /\ UNCHANGED <<control, signalled, armed, wake, up>>

\* The timer fires and trySleep's first critical section begins a stop.
trySleep ==
  /\ sleeper.step = "select" /\ mayStop /\ Room(2)
  /\ setStateLocked("stopping", req)
  /\ sleeper' = [step |-> "suspend", gen |-> generation + 1, refs |-> refs,
                 todo |-> refs, failed |-> FALSE]
  /\ UNCHANGED <<settings, inflight, idle, wakeErrors, cancel, signalled, armed,
                 wake, up>>

\* The suspend hook: its effect on the pool belongs to the service.
SleepSuspend ==
  /\ sleeper.step = "suspend"
  /\ sleeper' = [sleeper EXCEPT !.step = "stop"]
  /\ UNCHANGED <<control, signalled, armed, wake, up>>

\* StopContainer(c): the loop goes on after an error, and a call that reports
\* one may still have stopped the container.
SleepStop(c, ok, stopped) ==
  /\ sleeper.step = "stop" /\ c \in sleeper.todo
  /\ ok => stopped
  /\ sleeper' = [sleeper EXCEPT !.todo = @ \ {c}, !.failed = @ \/ ~ok]
  /\ up' = IF stopped THEN up \ {c} ELSE up
  /\ UNCHANGED <<control, signalled, armed, wake>>

\* Mutant: a stop overtaken by a redeploy still settles the state.
SleepDecide_AnyGeneration ==
  /\ sleeper.step = "stop" /\ sleeper.todo = {} /\ ~sleeper.failed /\ Room(1)
  /\ setStateLocked("sleeping", req)
  /\ sleeper' = Running("persist")
  /\ UNCHANGED <<settings, inflight, idle, wakeErrors, cancel, signalled, armed,
                 wake, up>>

\* trySleep's second critical section.
SleepDecide ==
  /\ sleeper.step = "stop" /\ sleeper.todo = {}
  /\ IF sleeper.gen # generation
     THEN /\ sleeper' = Running("top")
          /\ UNCHANGED <<state, generation, idle, req>>
     ELSE IF ~sleeper.failed
     THEN /\ setStateLocked("sleeping", req)
          /\ sleeper' = Running("persist")
          /\ UNCHANGED idle
     ELSE /\ setStateLocked("active", req)
          /\ sleeper' = Running("resume")
          /\ idle' = FALSE
  /\ UNCHANGED <<settings, inflight, wakeErrors, cancel, signalled, armed, wake, up>>

\* After a failed stop, resume(containerStopTimeout): put the targets back, then
\* wait for one to answer.  The outcome is only logged.
SleepResume ==
  /\ sleeper.step = "resume"
  /\ sleeper' = Running("await")
  /\ UNCHANGED <<control, signalled, armed, wake, up>>

\* Mutant: trySleep waits for a target to answer, however long that takes.
SleepReturn_KeepsWaiting ==
  /\ sleeper.step \in {"await", "persist"}
  /\ sleeper' = Running("await")
  /\ UNCHANGED <<control, signalled, armed, wake, up>>

\* The end of trySleep: the resume has returned, or persist has.
SleepReturn ==
  /\ sleeper.step \in {"await", "persist"}
  /\ sleeper' = Running("top")
  /\ UNCHANGED <<control, signalled, armed, wake, up>>

-----------------------------------------------------------------------------
(* A wake goroutine, named by the generation it captured. *)

\* StartContainer(c) succeeds; impossible once the context is cancelled.
WakeStarted(g, c) ==
  /\ wake[g].step = "start" /\ c \in wake[g].todo /\ ~wake[g].cancelled
  /\ wake' = [wake EXCEPT ![g].todo = @ \ {c}]
  /\ up' = up \cup {c}
  /\ UNCHANGED <<control, signalled, loopVars>>

\* Mutant: the error of a start is swallowed.
WakeStartFails_Swallowed(g, c, started) ==
  /\ wake[g].step = "start" /\ c \in wake[g].todo
  /\ wake' = [wake EXCEPT ![g].step = "finish"]
  /\ up' = IF started THEN up \cup {c} ELSE up
  /\ UNCHANGED <<control, signalled, loopVars>>

\* StartContainer(c) reports an error, which ends the loop; the runtime may have
\* started the container all the same.
WakeStartFails(g, c, started) ==
  /\ wake[g].step = "start" /\ c \in wake[g].todo
  /\ wake' = [wake EXCEPT ![g].step = "finish", ![g].failed = TRUE]
  /\ up' = IF started THEN up \cup {c} ELSE up
  /\ UNCHANGED <<control, signalled, loopVars>>

\* The starts used up the budget: ErrWakeTimeout without calling resume.
WakeNoBudget(g) ==
  /\ wake[g].step = "start" /\ wake[g].todo = {}
  /\ wake' = [wake EXCEPT ![g].step = "finish", ![g].failed = TRUE]
  /\ UNCHANGED <<control, signalled, loopVars, up>>

\* The resume hook puts the targets back ...
WakeResume(g) ==
  /\ wake[g].step = "start" /\ wake[g].todo = {}
  /\ wake' = [wake EXCEPT ![g].step = "await"]
  /\ UNCHANGED <<control, signalled, loopVars, up>>

\* ... and returns once one answers, or fails when its budget runs out.
WakeAwait(g, ok) ==
  /\ wake[g].step = "await"
  /\ wake' = [wake EXCEPT ![g].step = "finish", ![g].failed = ~ok]
  /\ UNCHANGED <<control, signalled, loopVars, up>>

finishWake(g) ==
  /\ wake[g].step = "finish"
  /\ IF g # generation
     THEN /\ wake' = [wake EXCEPT ![g] = NoWake]
          /\ UNCHANGED <<state, generation, req, idle, wakeErrors, cancel>>
     ELSE /\ cancel' = 0
          /\ lastErr' = wake[g].failed
          /\ backoff' = wake[g].failed
          /\ IF wake[g].failed
             THEN /\ setStateLocked("sleeping", req)
                  /\ wake' = [wake EXCEPT ![g] = [NoWake EXCEPT !.step = "suspend"]]
                  /\ UNCHANGED idle
             ELSE /\ setStateLocked("active", req)
                  /\ wake' = [wake EXCEPT ![g] = [NoWake EXCEPT !.step = "persist"]]
                  /\ idle' = FALSE
  /\ UNCHANGED <<settings, inflight, signalled, loopVars, up>>

\* The hook finishWake calls once it has released the mutex: suspend after a
\* failed wake, persist after a successful one.
WakeReturn(g) ==
  /\ wake[g].step \in {"suspend", "persist"}
  /\ wake' = [wake EXCEPT ![g] = NoWake]
  /\ UNCHANGED <<control, signalled, loopVars, up>>

-----------------------------------------------------------------------------
(* The clock. *)

SleepAfterElapses ==
  /\ ~idle /\ sleeps
  /\ idle' = TRUE
  /\ UNCHANGED <<state, generation, settings, inflight, req, wakeErrors, cancel,
                 signalled, loopVars, wake, up>>

BackoffElapses ==
  /\ backoff
  /\ backoff' = FALSE
  /\ UNCHANGED <<state, generation, settings, requestVars, lastErr, cancel,
                 signalled, loopVars, wake, up>>

-----------------------------------------------------------------------------
(* The specification. *)

RequestStep(r) == BeginRequest(r) \/ GiveUp(r) \/ EndRequest(r)

OperatorStep ==
  \/ \E on \in BOOLEAN, rs \in RefSets \cup {{}} : Configure(on, rs)
  \/ \E rs \in RefSets : Reset(rs)
  \/ Close \/ Disable \/ Enable

SleepStep ==
  \/ SleepSuspend \/ SleepDecide \/ SleepResume \/ SleepReturn
  \/ \E c \in Containers, ok, stopped \in BOOLEAN : SleepStop(c, ok, stopped)

RunStep == RunArm \/ RunSignalled \/ RunClosed \/ TimerTooSoon \/ trySleep

WakeStep(g) ==
  \/ \E c \in Containers : WakeStarted(g, c)
  \/ \E c \in Containers, started \in BOOLEAN : WakeStartFails(g, c, started)
  \/ WakeNoBudget(g) \/ WakeResume(g) \/ finishWake(g) \/ WakeReturn(g)
  \/ \E ok \in BOOLEAN : WakeAwait(g, ok)

Tick == SleepAfterElapses \/ BackoffElapses

Next ==
  \/ \E r \in Requests : RequestStep(r)
  \/ OperatorStep
  \/ RunStep
  \/ SleepStep
  \/ \E g \in Generations : WakeStep(g)
  \/ Tick

Spec == Init /\ [][Next]_vars

-----------------------------------------------------------------------------
(* Properties. *)

\* Every variable holds a value of its type.
TypeOK ==
  /\ state \in IdleStates
  /\ generation \in 0..MaxGeneration
  /\ refs \in SUBSET Containers
  /\ inflight \in Nat
  /\ idle \in BOOLEAN /\ sleeps \in BOOLEAN
  /\ lastErr \in BOOLEAN /\ backoff \in BOOLEAN
  /\ disabled \in BOOLEAN /\ closed \in BOOLEAN
  /\ cancel \in 0..MaxGeneration
  /\ signalled \in BOOLEAN /\ armed \in BOOLEAN
  /\ req \in [Requests -> RequestStates]
  /\ sleeper \in Sleepers
  /\ wake \in [Generations -> Wakes]
  /\ up \in SUBSET Containers

Admitted == {r \in Requests : req[r] = "admitted"}

\* Every request BeginRequest let through holds exactly one slot: the count the
\* idle timer trusts is the number of requests between BeginRequest and
\* EndRequest, through every wake, redeploy, timeout and hang-up.
InflightCounted ==
  /\ inflight = Cardinality(Admitted)
  /\ \A r \in Requests : req[r] # "uncounted"

\* No request is being served while the service stops, sleeps or wakes.
NoRequestOutsideActive == inflight > 0 => state = "active"

LiveSteps == {"start", "await", "finish"}

\* A service that is stopping or waking has a goroutine, holding the current
\* generation and the currently configured containers, that will settle it; so
\* a redeploy can strand neither state.
TransitionHasOwner ==
  /\ state = "stopping" => /\ sleeper.step \in {"suspend", "stop"}
                           /\ sleeper.gen = generation
                           /\ sleeper.refs = refs
  /\ state = "waking" => /\ generation \in Generations
                         /\ wake[generation].step \in LiveSteps
                         /\ wake[generation].refs = refs

\* A wake goroutine whose outcome would still be accepted belongs to a service
\* that is waking: concurrent requests coalesce into one wake, and a superseded
\* one can never settle a later state.
OneCurrentWake ==
  \A g \in Generations : wake[g].step \in LiveSteps /\ g = generation => state = "waking"

\* c.cancel, which a redeploy or a removal calls, is the cancel function of the
\* wake in progress and never that of an older one.
CancelIsForTheWake ==
  /\ cancel # 0 => cancel = generation /\ state = "waking"
  /\ state = "waking" /\ cancel = 0 => closed

\* A wake whose outcome counts never overlaps a stop, even a superseded stop
\* still working through its containers, so what it has started stays started.
WakeExcludesStop ==
  state = "waking" =>
    /\ sleeper.step \notin {"suspend", "stop"}
    /\ wake[generation].refs \ wake[generation].todo \subseteq up

\* A request waits only while some goroutine owes it a transition: no wake-up
\* is lost between admit handing out the channel and the select on it.
ParkedAwaitsTransition ==
  \A r \in Requests : req[r] = "parked" => state \in {"stopping", "waking"}

\* A request turned away for the backoff gets an error to report.
BackoffHasError == backoff => lastErr

\* A stop in progress has not been overtaken by a later stop or by a sleep: the
\* service is the one it is stopping, or a redeploy has made it active.
StopIsLatest ==
  sleeper.step \in {"suspend", "stop"} =>
    /\ sleeper.gen <= generation
    /\ state = IF sleeper.gen = generation THEN "stopping" ELSE "active"

\* The wakes still running are those of past generations.
WakesArePast ==
  \A g \in Generations : wake[g].step \in LiveSteps => g <= generation

\* A transition begins only with room for the one that ends it.
RoomReserved == state \in {"stopping", "waking"} => Room(1)

\* All of the above together are preserved by every step.
IndInv ==
  /\ TypeOK
  /\ TransitionHasOwner /\ OneCurrentWake /\ CancelIsForTheWake /\ WakeExcludesStop
  /\ StopIsLatest /\ WakesArePast /\ RoomReserved
  /\ ParkedAwaitsTransition /\ BackoffHasError
  /\ NoRequestOutsideActive /\ InflightCounted

\* A service falls asleep only as the outcome of the stop or of the failed wake
\* of the containers it is configured with at that moment.
SleepIsForCurrentContainers ==
  [][state # "sleeping" /\ state' = "sleeping" =>
       \/ state = "stopping" /\ sleeper.refs = refs /\ sleeper.todo = {} /\ ~sleeper.failed
       \/ state = "waking" /\ wake[generation].refs = refs /\ wake[generation].failed]_vars

\* A parked request is released without the help of its own timeout.
ParkedIsReleased ==
  \A r \in Requests : req[r] = "parked" ~> req[r] # "parked"

\* A service cannot stay idle forever with its containers running (short of the
\* bound on generations).
IdleServiceSleeps == []<>~(mayStop /\ ~closed /\ Room(2))

\* run's comment: a service that could not sleep when the timer was armed "parks
\* for an hour and is nudged by signal the moment anything changes".
NudgedWhenEligible ==
  (/\ sleeper.step = "select" /\ ~armed /\ eligible
   /\ \A g \in Generations : wake[g].step = "none"
   /\ \A r \in Requests : req[r] = "out")
  => signalled
=============================================================================
