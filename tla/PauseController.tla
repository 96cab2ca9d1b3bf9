---------------------------- MODULE PauseController ----------------------------
(***************************************************************************)
(* The pause gate of a service (internal/server/pause_controller.go): every *)
(* request calls Wait before it is given a target, and an operator pauses,  *)
(* stops and resumes the service.  A pause holds requests on a channel that *)
(* is made when the pause begins and closed, as the broadcast, when it ends.*)
(***************************************************************************)
EXTENDS Naturals, FiniteSets

CONSTANTS
  Requests,
  MaxPauses,    \* bound on the channels made
  Restarts      \* whether the proxy restarts and restores the saved state

ASSUME MaxPausesAssumption == MaxPauses \in Nat
ASSUME RestartsAssumption == Restarts \in BOOLEAN

VARIABLES
  pstate,     \* p.State
  channel,    \* p.pauseChannel: 0 is nil, the others are numbered as they are made
  made,       \* how many channels were made
  closed,     \* the closed ones
  gate,       \* each request's progress through Wait
  saved,      \* State in the state file
  dead        \* closing a nil channel panicked, and took the process down

pauseVars == <<pstate, channel, made, closed>>
gateVars  == <<pauseVars, gate, saved, dead>>

PauseStates == {"running", "paused", "stopped"}
Channels    == 0..MaxPauses
GateStates  == [at : {"out", "waiting", "through", "stopped", "timedout"}, on : Channels]
Out         == [at |-> "out", on |-> 0]

PauseInit ==
  /\ pstate = "running" /\ channel = 0 /\ made = 0 /\ closed = {}
  /\ gate = [r \in Requests |-> Out]
  /\ saved = "running" /\ dead = FALSE

-----------------------------------------------------------------------------
(* Requests. *)

\* getWaitState, and the answer when there is nothing to wait for.
Wait(r) ==
  /\ gate[r].at = "out"
  /\ gate' = [gate EXCEPT ![r] =
       [at |-> CASE pstate = "running" -> "through"
                 [] pstate = "stopped" -> "stopped"
                 [] OTHER -> "waiting",
        on |-> IF pstate = "paused" THEN channel ELSE 0]]
  /\ UNCHANGED <<pauseVars, saved, dead>>

\* The channel is closed: the waiter reads the state again.
WaitReleased(r) ==
  /\ gate[r].at = "waiting" /\ gate[r].on \in closed
  /\ gate' = [gate EXCEPT ![r] =
       [at |-> IF pstate = "stopped" THEN "stopped" ELSE "through", on |-> 0]]
  /\ UNCHANGED <<pauseVars, saved, dead>>

\* failAfter ran out.
WaitTimesOut(r) ==
  /\ gate[r].at = "waiting"
  /\ gate' = [gate EXCEPT ![r] = [at |-> "timedout", on |-> 0]]
  /\ UNCHANGED <<pauseVars, saved, dead>>

\* The request was answered with an error page.
Rejected(r) ==
  /\ gate[r].at \in {"stopped", "timedout"}
  /\ gate' = [gate EXCEPT ![r] = Out]
  /\ UNCHANGED <<pauseVars, saved, dead>>

\* The request was served by what is behind the gate.
Leave(r) ==
  /\ gate[r].at = "through"
  /\ gate' = [gate EXCEPT ![r] = Out]
  /\ UNCHANGED <<pauseVars, saved, dead>>

-----------------------------------------------------------------------------
(* The operator. *)

\* Mutant: ending a pause does not close its channel.
setState_NoClose(new) == pstate' = new /\ UNCHANGED <<channel, made, closed, dead>>

\* setState.  Closing a nil channel panics before the state is assigned.
setState(new) ==
  LET ends == pstate = "paused" /\ new # "paused"
  IN IF ends /\ channel = 0
     THEN dead' = TRUE /\ UNCHANGED pauseVars
     ELSE /\ pstate' = new
          /\ closed' = IF ends THEN closed \cup {channel} ELSE closed
          /\ UNCHANGED <<channel, made, dead>>

Stop   == ~dead /\ setState("stopped") /\ UNCHANGED <<gate, saved>>
Resume == ~dead /\ setState("running") /\ UNCHANGED <<gate, saved>>

\* Pausing again keeps the channel, and the requests waiting on it.
Pause ==
  /\ ~dead
  /\ IF pstate = "paused" THEN UNCHANGED <<channel, made>>
     ELSE made < MaxPauses /\ made' = made + 1 /\ channel' = made'
  /\ pstate' = "paused"
  /\ UNCHANGED <<closed, gate, saved, dead>>

\* saveStateSnapshot, deferred by every command.
Save ==
  /\ ~dead /\ saved' = pstate
  /\ UNCHANGED <<pauseVars, gate, dead>>

\* A new process: UnmarshalJSON assigns State and then calls Pause, Stop or
\* Resume, which find the state already set.
Restart ==
  /\ Restarts
  /\ pstate' = saved
  /\ channel' = 0 /\ closed' = {} /\ UNCHANGED made
  /\ gate' = [r \in Requests |-> Out]
  /\ dead' = FALSE
  /\ UNCHANGED saved

-----------------------------------------------------------------------------
(* The specification. *)

GateStep(r) == ~dead /\ (Wait(r) \/ WaitReleased(r) \/ WaitTimesOut(r) \/ Rejected(r))

PauseNext ==
  \/ \E r \in Requests : GateStep(r) \/ Leave(r)
  \/ Stop \/ Resume \/ Pause \/ Save \/ Restart

PauseSpec == PauseInit /\ [][PauseNext]_gateVars

\* A waiter whose channel is closed is scheduled; nothing else has to happen.
PauseFairSpec == PauseSpec /\ \A r \in Requests : WF_gateVars(WaitReleased(r))

-----------------------------------------------------------------------------
(* Properties. *)

\* Every variable holds a value of its type.
PauseTypeOK ==
  /\ pstate \in PauseStates /\ saved \in PauseStates
  /\ channel \in Channels /\ made \in Channels
  /\ closed \subseteq (Channels \ {0})
  /\ gate \in [Requests -> GateStates]
  /\ dead \in BOOLEAN

\* UnmarshalJSON is described as re-driving the state machine on restore: a
\* paused service has an open channel, the one that ending the pause closes.
PausedCanBeReleased == pstate = "paused" => channel # 0 /\ channel \notin closed

\* No request is left on a channel that nothing will close: the one it waits on
\* is closed already or is the one the current pause ends by closing.
NoOrphanWaiter ==
  \A r \in Requests : gate[r].at = "waiting" =>
    gate[r].on \in closed \/ (pstate = "paused" /\ gate[r].on = channel)

\* A request held by a pause that has ended gets its answer without having to
\* wait for its timeout.
ReleasedByResume ==
  \A r \in Requests :
    gate[r].at = "waiting" /\ pstate # "paused" ~> gate[r].at # "waiting"
=============================================================================
