------------------------------ MODULE StateFile ------------------------------
(***************************************************************************)
(* The routing state on disk (internal/server/router.go, util.go): every    *)
(* command changes the services in memory and saves a snapshot through a    *)
(* temp file; the next process restores it, keeping a last-known-good copy  *)
(* to fall back on.  The process may be killed between any two steps.       *)
(*                                                                          *)
(* The state is abstracted to the number of changes it has seen.            *)
(***************************************************************************)
EXTENDS Integers, FiniteSets

CONSTANTS
  Savers,          \* the goroutines that may be saving at the same time
  Shutdown,        \* the one that runs Server.Stop
  MaxChanges,      \* bound on the changes made
  WritesFail,      \* whether the file system may refuse a write
  IgnoreErrors     \* --ignore-restore-errors

ASSUME SaversAssumption == Shutdown \in Savers /\ "nobody" \notin Savers
ASSUME MaxChangesAssumption == MaxChanges \in Nat
ASSUME FlagsAssumption == WritesFail \in BOOLEAN /\ IgnoreErrors \in BOOLEAN

VARIABLES
  phase,     \* the process
  mem,       \* r.services
  saver,     \* each goroutine's progress through a command and its save
  holder,    \* who holds r.saveLock
  file,      \* statePath
  tmp,       \* statePath + ".tmp"
  bak,       \* statePath + ".bak"
  acked,     \* the newest change whose command has returned
  clean      \* history: no write was refused and no two saves overlapped so far

disk == <<file, tmp, bak>>
vars == <<phase, mem, saver, holder, disk, acked, clean>>

Versions == 0..MaxChanges
Missing  == -1
Torn     == -2     \* does not decode
Contents == Versions \cup {Missing, Torn}

Nobody == "nobody"
Idle   == [at |-> "idle", change |-> 0, data |-> 0]
Steps  == {"idle", "changed", "marshalled", "locked", "opened", "synced"}

\* What a proxy finds: nothing, its own files, or a torn file that a version
\* which did not write atomically left, with or without a copy.
Init ==
  /\ phase = "down" /\ mem = 0
  /\ saver = [s \in Savers |-> Idle] /\ holder = Nobody
  /\ \/ file \in {Missing, 0} /\ bak = Missing
     \/ file \in {0, Torn} /\ bak = 0
     \/ file = Torn /\ bak = Missing
  /\ tmp \in {Missing, Torn}
  /\ acked = 0 /\ clean = TRUE

-----------------------------------------------------------------------------
(* Restoring: RestoreLastSavedState. *)

\* The stale temp file is removed and the state file read.
Restore ==
  /\ phase = "down"
  /\ tmp' = Missing
  /\ CASE file = Missing -> phase' = "up" /\ mem' = 0
       [] file \in Versions -> phase' = "backing up" /\ mem' = file
       [] file = Torn /\ bak \in Versions -> phase' = "repairing" /\ mem' = bak
       [] OTHER -> phase' = (IF IgnoreErrors THEN "up" ELSE "down") /\ mem' = 0
  /\ UNCHANGED <<saver, holder, file, bak, acked, clean>>

\* writeFileAtomic of the last-known-good copy; a failure is only logged.
BackUp ==
  /\ phase = "backing up"
  /\ phase' = "up"
  /\ bak' \in {mem} \cup (IF WritesFail THEN {bak} ELSE {})
  /\ UNCHANGED <<mem, saver, holder, file, tmp, acked, clean>>

\* restoreFromBackup repairs the primary; a failure leaves its temp file behind.
Repair ==
  /\ phase = "repairing"
  /\ phase' = "up"
  /\ \/ file' = mem /\ UNCHANGED tmp
     \/ WritesFail /\ tmp' \in {tmp, Torn} /\ UNCHANGED file
  /\ UNCHANGED <<mem, saver, holder, bak, acked, clean>>

-----------------------------------------------------------------------------
(* Commands and their saves. *)

Alone(s) == \A t \in Savers \ {s} : saver[t] = Idle

\* A command changes the services in memory; its deferred save is to follow.
Change(s) ==
  /\ phase = "up" /\ s # Shutdown /\ saver[s] = Idle /\ mem < MaxChanges
  /\ mem' = mem + 1
  /\ saver' = [saver EXCEPT ![s] = [at |-> "changed", change |-> mem', data |-> 0]]
  /\ clean' = (clean /\ Alone(s))
  /\ UNCHANGED <<phase, holder, disk, acked>>

\* The final SaveState of Server.Stop or BeginDrain.  What is still saving then
\* goes on until the process exits.
Stop ==
  /\ phase = "up" /\ saver[Shutdown] = Idle
  /\ phase' = "stopping"
  /\ saver' = [saver EXCEPT ![Shutdown] = [at |-> "changed", change |-> mem, data |-> 0]]
  /\ clean' = (clean /\ Alone(Shutdown))
  /\ UNCHANGED <<mem, holder, disk, acked>>

Running == phase \in {"up", "stopping", "stopped"}

At(s, step) == Running /\ saver[s].at = step

\* saveStateSnapshot marshals the services before it takes the save lock.
Marshal(s) ==
  /\ At(s, "changed")
  /\ saver' = [saver EXCEPT ![s].at = "marshalled", ![s].data = mem]
  /\ UNCHANGED <<phase, mem, holder, disk, acked, clean>>

Lock(s) ==
  /\ At(s, "marshalled") /\ holder = Nobody
  /\ holder' = s
  /\ saver' = [saver EXCEPT ![s].at = "locked"]
  /\ UNCHANGED <<phase, mem, disk, acked, clean>>

\* writeFileAtomic: open with O_TRUNC, then write and sync, then rename.
Open(s) ==
  /\ At(s, "locked")
  /\ tmp' = Torn
  /\ saver' = [saver EXCEPT ![s].at = "opened"]
  /\ UNCHANGED <<phase, mem, holder, file, bak, acked, clean>>

\* Mutant: the command replies once the temp file is written.
WriteAndSync_Replies(s) ==
  /\ At(s, "opened")
  /\ tmp' = saver[s].data
  /\ saver' = [saver EXCEPT ![s].at = "synced"]
  /\ acked' = saver[s].change
  /\ UNCHANGED <<phase, mem, holder, file, bak, clean>>

WriteAndSync(s) ==
  /\ At(s, "opened")
  /\ tmp' = saver[s].data
  /\ saver' = [saver EXCEPT ![s].at = "synced"]
  /\ UNCHANGED <<phase, mem, holder, file, bak, acked, clean>>

\* The save is over, well or badly: the lock is released and the command
\* returns, its result not depending on the save's.
Return(s) ==
  /\ holder' = Nobody
  /\ saver' = [saver EXCEPT ![s] = Idle]
  /\ acked' = IF saver[s].change > acked THEN saver[s].change ELSE acked
  /\ phase' = IF s = Shutdown THEN "stopped" ELSE phase
  /\ UNCHANGED <<mem, bak>>

Rename(s) ==
  /\ At(s, "synced")
  /\ file' = tmp /\ tmp' = Missing /\ UNCHANGED clean
  /\ Return(s)

SaveFails(s) ==
  /\ WritesFail
  /\ At(s, "locked") \/ At(s, "opened") \/ At(s, "synced")
  /\ clean' = FALSE
  /\ UNCHANGED <<file, tmp>>
  /\ Return(s)

\* The process is killed, or exits having stopped.
Crash ==
  /\ phase # "down"
  /\ phase' = "down"
  /\ saver' = [s \in Savers |-> Idle] /\ holder' = Nobody
  /\ mem' = 0
  /\ UNCHANGED <<disk, acked, clean>>

-----------------------------------------------------------------------------
(* The specification. *)

SaveStep(s) ==
  Marshal(s) \/ Lock(s) \/ Open(s) \/ WriteAndSync(s) \/ Rename(s) \/ SaveFails(s)

Next ==
  \/ Restore \/ BackUp \/ Repair \/ Stop \/ Crash
  \/ \E s \in Savers : Change(s) \/ SaveStep(s)

Spec == Init /\ [][Next]_vars

-----------------------------------------------------------------------------
(* Properties. *)

\* Every variable holds a value of its type.
TypeOK ==
  /\ phase \in {"down", "backing up", "repairing", "up", "stopping", "stopped"}
  /\ mem \in Versions /\ acked \in Versions
  /\ saver \in [Savers -> [at : Steps, change : Versions, data : Versions]]
  /\ holder \in Savers \cup {Nobody} /\ clean \in BOOLEAN
  /\ file \in Contents /\ tmp \in Contents /\ bak \in Contents

\* writeFileAtomic's comment: "readers never observe a partial write".  Whatever
\* step a save is killed at, the state file never turns into one that does not
\* decode, and neither does the backup.
NeverTorn == [][(file' = Torn => file = Torn) /\ bak' # Torn]_vars

\* As long as saves neither fail nor overlap, a change whose command has returned
\* is in the state file, and so survives a crash at any later step.
AckedIsDurable == clean => acked = 0 \/ file >= acked

\* Server.Stop's comment: "the next boot restores exactly what was serving, even
\* if a mutation raced the last deferred save".  Once it has returned, the state
\* file holds the services as they are.
FlushedAtStop == phase = "stopped" => file = mem

\* The final save does so when it has no other save to race.
FlushedWhenAlone == clean => FlushedAtStop

\* What was acknowledged, and what was serving at a stop, is in the state file, as
\* long as no write is refused and no saves overlap (saveStateSnapshot, Stop).
SavesAreDurable == AckedIsDurable /\ FlushedWhenAlone
=============================================================================
