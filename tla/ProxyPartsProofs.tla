-------------------------- MODULE ProxyPartsProofs --------------------------
(***************************************************************************)
(* Two of the parts that ProxyParts puts side by side, for every instance: *)
(* what the state file keeps, and the ceilings of the request gates.       *)
(***************************************************************************)
EXTENDS RequestGates, StateFile, FiniteSetTheorems, TLAPS

\* Zenon proves most leaves; one that needs SMT says so.
USE ZenonT(60)

-----------------------------------------------------------------------------
(***************************************************************************)
(* What StateFile promises, for any savers and any number of changes.      *)
(***************************************************************************)
Writing == {"locked", "opened", "synced"}
Snapped == {"marshalled", "locked", "opened", "synced"}

\* The save lock: one saver writes the temp file at a time, only a running
\* process saves, and what a saver has synced is its own snapshot.
LockInv ==
  /\ \A s \in Savers : saver[s].at = "idle" => saver[s] = Idle
  /\ \A s \in Savers : saver[s].at # "idle" => Running
  /\ \A s \in Savers : saver[s].at \in Writing => holder = s
  /\ \A s \in Savers : saver[s].at = "synced" => tmp = saver[s].data
  /\ bak # Torn

\* While no write was refused and no two saves overlapped: one saver is busy at
\* most, its snapshot is what is in memory, and memory is as new as any reply.
CleanInv ==
  /\ \A s, t \in Savers : s # t => saver[s].at = "idle" \/ saver[t].at = "idle"
  /\ \A s \in Savers : saver[s].at \in Snapped => saver[s].data = mem
  /\ \A s \in Savers : saver[s].change <= mem
  /\ acked = 0 \/ file >= acked
  /\ phase # "down" => mem >= acked
  /\ phase = "up" => saver[Shutdown].at = "idle"
  /\ phase = "stopping" => saver[Shutdown].at # "idle"
  /\ phase = "stopped" => file = mem /\ \A s \in Savers : saver[s].at = "idle"

StateInv == TypeOK /\ LockInv /\ (clean => CleanInv)

-----------------------------------------------------------------------------
USE SaversAssumption, MaxChangesAssumption
    DEF Idle, Steps, Versions, Contents, Missing, Torn, Nobody, Writing, Snapped, disk

\* What the proxy finds on disk satisfies the invariant.
LEMMA InitState == Init => StateInv
BY SMTT(60) DEF Init, StateInv, TypeOK, LockInv, CleanInv, Running

\* A version is a number, and neither a missing nor a torn file.
LEMMA VersionIsNumber == \A v \in Versions : v \in Nat /\ v >= 0 /\ v # Torn
BY SMTT(60)

\* Restoring, stopping and being killed preserve it.
LEMMA ProcessStep == ASSUME StateInv, Restore \/ BackUp \/ Repair \/ Stop \/ Crash PROVE StateInv'
<1> USE DEF Running
<1>1. ASSUME Restore PROVE StateInv'
  <2>1. /\ phase' \in {"backing up", "repairing", "up", "down"}
        /\ mem' \in Versions
        /\ mem' = file \/ file \notin Versions
    <3>1. CASE file = Missing
      BY <1>1, <3>1, SMTT(60) DEF Restore
    <3>2. CASE file \in Versions
      <4>1. file # Missing /\ file # Torn
        BY <3>2, SMTT(60)
      <4>2. phase' = "backing up" /\ mem' = file
        BY <1>1, <3>2, <4>1 DEF Restore
      <4> QED BY <3>2, <4>2
    <3>3. CASE file = Torn /\ bak \in Versions
      BY <1>1, <3>3, SMTT(60) DEF Restore
    <3>4. CASE file = Torn /\ bak \notin Versions
      <4>1. file # Missing /\ file \notin Versions
        BY <3>4, SMTT(60)
      <4>2. phase' = (IF IgnoreErrors THEN "up" ELSE "down") /\ mem' = 0
        BY <1>1, <3>4, <4>1 DEF Restore
      <4>3. 0 \in Versions
        BY SMTT(60)
      <4> QED BY <4>1, <4>2, <4>3
    <3> QED BY <3>1, <3>2, <3>3, <3>4 DEF StateInv, TypeOK
  <2>2. tmp' = Missing /\ UNCHANGED <<saver, holder, file, bak, acked, clean>>
    BY <1>1 DEF Restore
  <2>3. TypeOK'
    BY <2>1, <2>2 DEF StateInv, TypeOK
  <2>4. \A s \in Savers : saver[s] = Idle
    BY <1>1 DEF Restore, StateInv, LockInv
  <2>5. LockInv'
    BY <2>2, <2>4, SMTT(60) DEF StateInv, LockInv
  <2>6. ASSUME clean PROVE CleanInv'
    <3>1. acked = 0 \/ file >= acked
      BY <2>6 DEF StateInv, CleanInv
    <3>2. mem' >= acked /\ acked \in Nat /\ mem' \in Nat
      <4>1. acked \in Versions /\ file \in Contents
        BY DEF StateInv, TypeOK
      <4>2. file \in Versions \/ acked = 0
        BY <3>1, <4>1, SMTT(60)
      <4>3. CASE file \in Versions
        BY <2>1, <3>1, <4>1, <4>3, VersionIsNumber
      <4>4. CASE acked = 0
        BY <2>1, <4>4, VersionIsNumber
      <4> QED BY <4>2, <4>3, <4>4
    <3>3. \A s \in Savers : saver'[s].at = "idle" /\ saver'[s].change = 0
      BY <2>2, <2>4, SMTT(60)
    <3>4. phase' # "stopping" /\ phase' # "stopped" /\ acked' = acked /\ file' = file
      BY <2>1, <2>2
    <3> QED BY <3>1, <3>2, <3>3, <3>4, SMTT(60) DEF CleanInv
  <2> QED BY <2>2, <2>3, <2>5, <2>6 DEF StateInv
<1>2. ASSUME BackUp PROVE StateInv'
  <2>1. /\ phase = "backing up" /\ phase' = "up" /\ bak' \in {mem, bak}
        /\ UNCHANGED <<mem, saver, holder, file, tmp, acked, clean>>
    BY <1>2 DEF BackUp
  <2>2. TypeOK'
    BY <2>1 DEF StateInv, TypeOK
  <2>3. LockInv'
    <3>1. bak' # Torn
      <4>1. mem # Torn
        <5>1. mem \in Versions
          BY DEF StateInv, TypeOK
        <5> QED BY <5>1, VersionIsNumber
      <4>2. bak # Torn
        BY DEF StateInv, LockInv
      <4> QED BY <2>1, <4>1, <4>2
    <3> QED BY <2>1, <3>1 DEF StateInv, LockInv
  <2>4. clean' => CleanInv'
    BY <2>1 DEF StateInv, LockInv, CleanInv
  <2> QED BY <2>2, <2>3, <2>4 DEF StateInv
<1>3. ASSUME Repair PROVE StateInv'
  <2>1. TypeOK'
    BY <1>3 DEF StateInv, TypeOK, Repair
  <2>2. LockInv'
    BY <1>3 DEF StateInv, TypeOK, LockInv, Repair
  <2>3. clean' => CleanInv'
    BY <1>3 DEF StateInv, TypeOK, LockInv, CleanInv, Repair
  <2> QED BY <2>1, <2>2, <2>3 DEF StateInv
<1>4. ASSUME Stop PROVE StateInv'
  <2>1. TypeOK'
    BY <1>4, SMTT(60) DEF StateInv, TypeOK, Stop, Alone
  <2>2. LockInv'
    BY <1>4 DEF StateInv, TypeOK, LockInv, Stop, Alone
  <2>3. ASSUME clean' PROVE CleanInv'
    <3>1. clean /\ \A t \in Savers : t # Shutdown => saver[t] = Idle
      BY <1>4, <2>3 DEF Stop, Alone
    <3>2. CleanInv /\ TypeOK
      BY <3>1 DEF StateInv
    <3>3. /\ saver'[Shutdown] = [at |-> "changed", change |-> mem, data |-> 0]
          /\ \A t \in Savers : t # Shutdown => saver'[t] = Idle
      BY <1>4, <3>1, <3>2 DEF Stop, TypeOK
    <3>4. phase = "up" /\ phase' = "stopping" /\ UNCHANGED <<mem, file, acked>>
      BY <1>4 DEF Stop
    <3> QED BY <3>2, <3>3, <3>4, SMTT(60) DEF CleanInv, TypeOK
  <2> QED BY <2>1, <2>2, <2>3 DEF StateInv
<1>5. ASSUME Crash PROVE StateInv'
  <2>1. /\ phase' = "down" /\ mem' = 0 /\ holder' = Nobody
        /\ UNCHANGED <<file, tmp, bak, acked, clean>>
    BY <1>5 DEF Crash
  <2>2. saver' = [s \in Savers |-> Idle]
    BY <1>5 DEF Crash
  <2>3. saver' \in [Savers -> [at : Steps, change : Versions, data : Versions]]
    BY <2>2, SMTT(60)
  <2>4. TypeOK'
    <3>1. mem' \in Versions
      BY <2>1, SMTT(60)
    <3> QED BY <2>1, <2>3, <3>1 DEF StateInv, TypeOK
  <2>5. LockInv'
    BY <2>1, <2>2 DEF StateInv, LockInv
  <2>6. ASSUME clean PROVE CleanInv'
    <3>1. acked = 0 \/ file >= acked
      BY <2>6 DEF StateInv, CleanInv
    <3>2. \A s \in Savers : saver'[s].at = "idle" /\ saver'[s].change = 0
      BY <2>2
    <3> QED BY <2>1, <3>1, <3>2, SMTT(60) DEF CleanInv
  <2> QED BY <2>1, <2>4, <2>5, <2>6 DEF StateInv
<1> QED BY <1>1, <1>2, <1>3, <1>4, <1>5

\* So do a command's change and the steps of its save before the rename, which
\* leave the state file alone.
LEMMA WriteStep ==
  ASSUME StateInv, NEW s \in Savers,
         Change(s) \/ Marshal(s) \/ Lock(s) \/ Open(s) \/ WriteAndSync(s)
  PROVE  StateInv'
<1> USE DEF Running
<1>1. ASSUME Change(s) PROVE StateInv'
  <2>1. TypeOK'
    BY <1>1, SMTT(60) DEF StateInv, TypeOK, Change, Alone
  <2>2. LockInv'
    BY <1>1 DEF StateInv, TypeOK, LockInv, Change, Alone
  <2>3. ASSUME clean' PROVE CleanInv'
    <3>1. clean /\ \A t \in Savers : t # s => saver[t] = Idle
      BY <1>1, <2>3 DEF Change, Alone
    <3>2. CleanInv /\ TypeOK
      BY <3>1 DEF StateInv
    <3>3. /\ saver'[s] = [at |-> "changed", change |-> mem', data |-> 0]
          /\ \A t \in Savers : t # s => saver'[t] = Idle
      BY <1>1, <3>1, <3>2 DEF Change, TypeOK
    <3>4. /\ phase = "up" /\ s # Shutdown /\ mem' = mem + 1
          /\ UNCHANGED <<phase, file, acked>>
      BY <1>1 DEF Change
    <3> QED BY <3>2, <3>3, <3>4, SMTT(60) DEF CleanInv, TypeOK
  <2> QED BY <2>1, <2>2, <2>3 DEF StateInv
<1>2. ASSUME Marshal(s) PROVE StateInv'
  <2>1. TypeOK'
    BY <1>2 DEF StateInv, TypeOK, Marshal, At
  <2>2. LockInv'
    BY <1>2 DEF StateInv, TypeOK, LockInv, Marshal, At
  <2>3. ASSUME clean PROVE CleanInv'
    <3>1. CleanInv /\ TypeOK /\ saver[s].at = "changed"
      BY <1>2, <2>3 DEF StateInv, Marshal, At
    <3>2. /\ saver'[s].at = "marshalled" /\ saver'[s].change = saver[s].change
          /\ saver'[s].data = mem
          /\ \A t \in Savers : t # s => saver'[t] = saver[t]
      BY <1>2, <3>1 DEF Marshal, TypeOK
    <3>3. UNCHANGED <<phase, mem, file, acked>>
      BY <1>2 DEF Marshal
    <3> QED BY <3>1, <3>2, <3>3, SMTT(60) DEF CleanInv
  <2>4. clean' = clean
    BY <1>2 DEF Marshal
  <2> QED BY <2>1, <2>2, <2>3, <2>4 DEF StateInv
<1>3. ASSUME Lock(s) PROVE StateInv'
  <2>1. TypeOK'
    BY <1>3 DEF StateInv, TypeOK, Lock, At
  <2>2. LockInv'
    <3>1. \A t \in Savers : saver[t].at \notin Writing
      BY <1>3 DEF StateInv, LockInv, Lock
    <3>2. saver'[s].at = "locked" /\ \A t \in Savers : t # s => saver'[t] = saver[t]
      BY <1>3 DEF StateInv, TypeOK, Lock
    <3> QED BY <1>3, <3>1, <3>2 DEF StateInv, TypeOK, LockInv, Lock, At
  <2>3. ASSUME clean PROVE CleanInv'
    <3>1. CleanInv /\ TypeOK /\ saver[s].at = "marshalled"
      BY <1>3, <2>3 DEF StateInv, Lock, At
    <3>2. /\ saver'[s].at = "locked" /\ saver'[s].change = saver[s].change
          /\ saver'[s].data = saver[s].data
          /\ \A t \in Savers : t # s => saver'[t] = saver[t]
      BY <1>3, <3>1 DEF Lock, TypeOK
    <3>3. UNCHANGED <<phase, mem, file, acked>>
      BY <1>3 DEF Lock
    <3> QED BY <3>1, <3>2, <3>3, SMTT(60) DEF CleanInv
  <2>4. clean' = clean
    BY <1>3 DEF Lock
  <2> QED BY <2>1, <2>2, <2>3, <2>4 DEF StateInv
<1>4. ASSUME Open(s) PROVE StateInv'
  <2>1. TypeOK'
    BY <1>4 DEF StateInv, TypeOK, Open, At
  <2>2. LockInv'
    BY <1>4 DEF StateInv, TypeOK, LockInv, Open, At
  <2>3. ASSUME clean PROVE CleanInv'
    <3>1. CleanInv /\ TypeOK /\ saver[s].at = "locked"
      BY <1>4, <2>3 DEF StateInv, Open, At
    <3>2. /\ saver'[s].at = "opened" /\ saver'[s].change = saver[s].change
          /\ saver'[s].data = saver[s].data
          /\ \A t \in Savers : t # s => saver'[t] = saver[t]
      BY <1>4, <3>1 DEF Open, TypeOK
    <3>3. UNCHANGED <<phase, mem, file, acked>>
      BY <1>4 DEF Open
    <3> QED BY <3>1, <3>2, <3>3, SMTT(60) DEF CleanInv
  <2>4. clean' = clean
    BY <1>4 DEF Open
  <2> QED BY <2>1, <2>2, <2>3, <2>4 DEF StateInv
<1>5. ASSUME WriteAndSync(s) PROVE StateInv'
  <2>1. TypeOK'
    BY <1>5 DEF StateInv, TypeOK, WriteAndSync, At
  <2>2. LockInv'
    BY <1>5 DEF StateInv, TypeOK, LockInv, WriteAndSync, At
  <2>3. ASSUME clean PROVE CleanInv'
    <3>1. CleanInv /\ TypeOK /\ saver[s].at = "opened"
      BY <1>5, <2>3 DEF StateInv, WriteAndSync, At
    <3>2. /\ saver'[s].at = "synced" /\ saver'[s].change = saver[s].change
          /\ saver'[s].data = saver[s].data
          /\ \A t \in Savers : t # s => saver'[t] = saver[t]
      BY <1>5, <3>1 DEF WriteAndSync, TypeOK
    <3>3. UNCHANGED <<phase, mem, file, acked>>
      BY <1>5 DEF WriteAndSync
    <3> QED BY <3>1, <3>2, <3>3, SMTT(60) DEF CleanInv
  <2>4. clean' = clean
    BY <1>5 DEF WriteAndSync
  <2> QED BY <2>1, <2>2, <2>3, <2>4 DEF StateInv
<1> QED BY <1>1, <1>2, <1>3, <1>4, <1>5

\* So does the end of a save, by the rename or by a refused write.
LEMMA ReturnStep == ASSUME StateInv, NEW s \in Savers, Rename(s) \/ SaveFails(s) PROVE StateInv'
<1> USE DEF Running
<1>1. /\ saver[s].at \in Writing /\ phase \in {"up", "stopping", "stopped"}
      /\ Return(s)
  BY DEF Rename, SaveFails, At
<1>2. TypeOK /\ LockInv
  BY DEF StateInv
<1>3. /\ saver'[s] = Idle /\ \A t \in Savers : t # s => saver'[t] = saver[t]
      /\ saver' \in [Savers -> [at : Steps, change : Versions, data : Versions]]
  <2>1. Idle \in [at : Steps, change : Versions, data : Versions]
    BY SMTT(60)
  <2>2. /\ saver' = [saver EXCEPT ![s] = Idle]
        /\ saver \in [Savers -> [at : Steps, change : Versions, data : Versions]]
    BY <1>1, <1>2 DEF Return, TypeOK
  <2> HIDE DEF Idle, Steps, Versions
  <2> QED BY <2>1, <2>2
<1>4. /\ phase' \in {"up", "stopping", "stopped"}
      /\ acked' \in {acked, saver[s].change} /\ acked' \in Versions
      /\ holder' = Nobody /\ mem' = mem /\ bak' = bak
  BY <1>1, <1>2 DEF Return, TypeOK
<1>5. file' \in {file, tmp} /\ tmp' \in {tmp, Missing} /\ clean' \in BOOLEAN
  BY <1>2 DEF Rename, SaveFails, TypeOK
<1>6. TypeOK'
  BY <1>2, <1>3, <1>4, <1>5 DEF TypeOK
<1>7. LockInv'
  <2>1. \A t \in Savers : saver'[t].at \notin Writing
    BY <1>1, <1>2, <1>3, SMTT(60) DEF LockInv
  <2> QED BY <1>2, <1>3, <1>4, <2>1 DEF LockInv
<1>8. ASSUME clean' PROVE CleanInv'
  <2>1. clean /\ saver[s].at = "synced" /\ file' = tmp
    BY <1>8 DEF Rename, SaveFails, At
  <2>2. CleanInv
    BY <2>1 DEF StateInv
  <2>3. file' = mem /\ saver[s].change <= mem /\ acked <= mem
    BY <1>1, <1>2, <2>1, <2>2 DEF LockInv, CleanInv, TypeOK
  <2>4. \A t \in Savers : saver'[t].at = "idle" /\ saver'[t].change <= mem
    <3>1. 0 <= mem
      <4>1. mem \in Versions
        BY <1>2 DEF TypeOK
      <4> QED BY <4>1, VersionIsNumber
    <3>2. \A t \in Savers : t # s => saver[t].at = "idle" /\ saver[t].change <= mem
      BY <2>1, <2>2 DEF CleanInv
    <3> QED BY <1>3, <3>1, <3>2, SMTT(60)
  <2>5. phase' # "stopping"
    BY <1>1, <2>1, <2>2 DEF CleanInv, Return
  <2>6. acked' <= mem
    BY <1>4, <2>3
  <2> QED BY <1>2, <1>4, <2>3, <2>4, <2>5, <2>6 DEF CleanInv, TypeOK
<1> QED BY <1>6, <1>7, <1>8 DEF StateInv

\* Hence every step does.
LEMMA StateStep == StateInv /\ [Next]_vars => StateInv'
<1> SUFFICES ASSUME StateInv, [Next]_vars PROVE StateInv'
  OBVIOUS
<1>1. CASE UNCHANGED vars
  <2>1. TypeOK'
    BY <1>1 DEF StateInv, TypeOK, vars
  <2>2. LockInv'
    BY <1>1 DEF StateInv, LockInv, Running, vars
  <2>3. clean' => CleanInv'
    BY <1>1 DEF StateInv, CleanInv, vars
  <2> QED BY <2>1, <2>2, <2>3 DEF StateInv
<1>2. CASE Next
  BY <1>2, ProcessStep, WriteStep, ReturnStep DEF Next, SaveStep
<1> QED BY <1>1, <1>2

\* It holds in every reachable state.
THEOREM StateInvariance == Spec => []StateInv
BY InitState, StateStep, PTL DEF Spec

\* Every variable of the model always has a value of its type.
THEOREM StateTypes == Spec => []TypeOK
<1>1. StateInv => TypeOK
  BY DEF StateInv
<1> QED BY <1>1, StateInvariance, PTL

\* A save killed or refused at any step of writeFileAtomic tears neither the
\* state file nor its backup: a rename moves a snapshot that was synced whole.
THEOREM SavesAreAtomic == Spec => NeverTorn
<1>1. StateInv /\ StateInv' /\ [Next]_vars
        => [(file' = Torn => file = Torn) /\ bak' # Torn]_vars
  <2> SUFFICES ASSUME StateInv, StateInv', Next, file' = Torn PROVE file = Torn
    BY DEF StateInv, LockInv
  <2>1. CASE Restore \/ BackUp \/ Stop \/ Crash
    BY <2>1 DEF Restore, BackUp, Stop, Crash
  <2>2. CASE Repair
    BY <2>2, SMTT(60) DEF Repair, StateInv, TypeOK
  <2>3. ASSUME NEW s \in Savers, Change(s) \/ SaveStep(s) PROVE file = Torn
    <3>1. CASE Rename(s)
      <4>1. file' = saver[s].data
        BY <3>1 DEF Rename, At, StateInv, LockInv
      <4>2. saver[s].data \in Versions
        BY DEF StateInv, TypeOK
      <4> QED BY <4>1, <4>2, SMTT(60)
    <3>2. CASE ~Rename(s)
      BY <2>3, <3>2 DEF Change, SaveStep, Marshal, Lock, Open, WriteAndSync, SaveFails
    <3> QED BY <3>1, <3>2
  <2> QED BY <2>1, <2>2, <2>3 DEF Next
<1> QED BY <1>1, StateInvariance, PTL DEF Spec, NeverTorn

\* As long as no write was refused and no two saves overlapped, a change whose
\* command returned is in the state file, whatever crashes and restarts follow.
THEOREM RepliesAreDurable == Spec => []AckedIsDurable
<1>1. StateInv => AckedIsDurable
  BY DEF StateInv, CleanInv, AckedIsDurable
<1> QED BY <1>1, StateInvariance, PTL

\* Under the same condition the file that Server.Stop leaves is what was serving.
THEOREM StopFlushes == Spec => []FlushedWhenAlone
<1>1. StateInv => FlushedWhenAlone
  BY DEF StateInv, CleanInv, FlushedWhenAlone, FlushedAtStop
<1> QED BY <1>1, StateInvariance, PTL

\* Together: while no write is refused and no saves overlap, nothing that was
\* acknowledged, or was serving at a stop, is missing from the state file.
THEOREM SavesReachTheFile == Spec => []SavesAreDurable
<1>1. AckedIsDurable /\ FlushedWhenAlone => SavesAreDurable
  BY DEF SavesAreDurable
<1> QED BY <1>1, RepliesAreDurable, StopFlushes, PTL

HIDE DEF Idle, Steps, Versions, Contents, Missing, Torn, Nobody, Writing, Snapped, disk

-----------------------------------------------------------------------------
(***************************************************************************)
(* The two ceilings of RequestGates for every number of clients, burst,    *)
(* rate, cap and interval.  Each rests on a potential: what a bucket still *)
(* holds plus what it has given out never exceeds what it was allowed.     *)
(***************************************************************************)
(* What a network's bucket holds; one that was forgotten, or never made,   *)
(* counts as full, because that is how the next request will find it.      *)
Held(b) == IF b \in tracked \cup {Overflow} THEN level[b] ELSE Full

BudgetInv ==
    \A b \in Bucket :
        IF now >= from THEN spent[b] * Cost + Held(b) <= Full + Gain * (now - from)
                       ELSE spent[b] = 0

(* What a warning bucket would hold if it were refilled continuously: it   *)
(* keeps up to a fraction of an interval above its capacity.               *)
Brim == LogBurst * LogInterval + LogInterval - 1

Potential(b, t) ==
    LET p == b.tokens * LogInterval + (t - b.lastRefill)
    IN  IF p <= Brim THEN p ELSE Brim

WarningInv ==
    \A w \in Warning :
        IF now >= from
        THEN warned[w] * LogInterval + Potential(log[w], now) <= Brim + (now - from)
        ELSE warned[w] = 0

GatesInv == GatesTypeOK /\ BudgetInv /\ WarningInv

-----------------------------------------------------------------------------
(* A full bucket is a natural number of units, at least one request's.     *)
LEMMA FullType == Full \in Nat /\ Full >= Cost
<1>1. Burst \in Nat /\ Burst >= 1 /\ Cost \in Nat /\ Cost >= 1
  BY GatesAssumption, SMTT(60)
<1>2. Burst * Cost \in Nat
  BY <1>1, SMTT(60)
<1>3. Burst * Cost = (Burst - 1) * Cost + Cost /\ (Burst - 1) * Cost \in Nat
  BY <1>1, SMTT(60)
<1>. QED  BY <1>1, <1>2, <1>3, SMTT(60) DEF Full

(* The clock, and the instant a window opens at.                           *)
LEMMA ClockTypes == GatesTypeOK => now \in Nat /\ from \in Nat
<1>1. Window \subseteq Nat /\ MaxTime \in Nat
  BY GatesAssumption
<1>. QED  BY <1>1, SMTT(60) DEF GatesTypeOK

(* Whole intervals that fit in a span of time, and what remains.           *)
LEMMA Intervals ==
  ASSUME NEW e \in Nat, NEW i \in Nat \ {0}
  PROVE  /\ e \div i \in Nat
         /\ (e \div i) * i <= e
         /\ e < (e \div i) * i + i
<1>1. e = i * (e \div i) + (e % i) /\ e % i \in 0..(i - 1) /\ e \div i \in Nat
  BY SMT
<1>2. PICK q \in Nat : q = e \div i
  BY <1>1
<1>3. q * i = i * q
  BY <1>2, SMTT(60)
<1>. QED  BY <1>1, <1>2, <1>3, SMTT(60)

(* Taking a token off a bucket lowers its potential by one interval, and   *)
(* looking at an empty one does not raise it: lazy refilling invents no    *)
(* token.                                                                  *)
LEMMA TakeSpends ==
  ASSUME NEW b \in [tokens : 0..LogBurst, lastRefill : Nat],
         NEW t \in Nat, b.lastRefill <= t
  PROVE  LET c == TryTake(b, LogBurst, LogInterval, t)
             n == IF MayTake(b, LogBurst, LogInterval, t) THEN 1 ELSE 0
         IN  /\ c \in [tokens : 0..LogBurst, lastRefill : Nat]
             /\ c.lastRefill <= t
             /\ n * LogInterval + Potential(c, t) <= Potential(b, t)
<1>. DEFINE I == LogInterval
            e == t - b.lastRefill
            q == e \div I
            f == refill(b, LogBurst, LogInterval, t)
            c == TryTake(b, LogBurst, LogInterval, t)
<1>0. I \in Nat /\ I >= 1 /\ LogBurst \in Nat /\ LogBurst >= 1 /\ e \in Nat
      /\ b.tokens \in 0..LogBurst /\ b.lastRefill \in Nat
  BY GatesAssumption, SMTT(60)
<1>1. q \in Nat /\ q * I <= e /\ e < q * I + I
  <2>1. e \in Nat /\ I \in Nat \ {0}
    BY <1>0, SMTT(60)
  <2>. HIDE DEF e, I
  <2>. QED  BY <2>1, Intervals
<1>2. \A m \in Nat : m * I \in Nat /\ (m + 1) * I = m * I + I
  BY <1>0, SMTT(60)
<1>3. \A m, n \in Nat : (m + n) * I = m * I + n * I /\ (m <= n => m * I <= n * I)
  <2>. SUFFICES ASSUME NEW m \in Nat, NEW n \in Nat
                PROVE  (m + n) * I = m * I + n * I /\ (m <= n => m * I <= n * I)
    OBVIOUS
  <2>1. (m + n) * I = m * I + n * I
    BY <1>0, SMTT(60)
  <2>2. ASSUME m <= n PROVE m * I <= n * I
    <3>1. (n - m) * I \in Nat /\ n * I = m * I + (n - m) * I
      BY <1>0, <2>2, SMTT(60)
    <3>2. m * I \in Nat /\ n * I \in Nat
      BY <1>2
    <3>. QED  BY <3>1, <3>2, SMTT(60)
  <2>. QED  BY <2>1, <2>2
<1>4. CASE b.tokens >= LogBurst
  <2>1. b.tokens = LogBurst
    BY <1>0, <1>4, SMTT(60)
  <2>2. f = [tokens |-> LogBurst, lastRefill |-> t]
    BY <1>0, <1>4, <2>1 DEF refill
  <2>3. c = [tokens |-> LogBurst - 1, lastRefill |-> t]
        /\ MayTake(b, LogBurst, LogInterval, t)
    BY <1>0, <2>2, SMTT(60) DEF TryTake, MayTake
  <2>4. LogBurst * I = (LogBurst - 1) * I + I /\ (LogBurst - 1) * I \in Nat
    BY <1>0, <1>2, SMTT(60)
  <2>5. Potential(c, t) = (LogBurst - 1) * I
    BY <1>0, <2>3, <2>4, SMTT(60) DEF Potential, Brim
  <2>6. Potential(b, t) >= LogBurst * I
    BY <1>0, <2>1, <2>4, SMTT(60) DEF Potential, Brim
  <2>7. Potential(b, t) \in Nat
    BY <1>0, <1>2, <2>1, SMTT(60) DEF Potential, Brim
  <2>. QED  BY <1>0, <2>3, <2>4, <2>5, <2>6, <2>7, SMTT(60)
<1>5. CASE b.tokens < LogBurst
  <2>. DEFINE s == b.tokens + q
  <2>0. s \in Nat /\ s * I = b.tokens * I + q * I /\ b.tokens * I \in Nat
        /\ q * I \in Nat /\ s * I \in Nat
    BY <1>0, <1>1, <1>2, <1>3, SMTT(60)
  <2>1. f = [tokens |-> IF s < LogBurst THEN s ELSE LogBurst,
             lastRefill |-> b.lastRefill + q * I]
    BY <1>0, <1>5, SMTT(60) DEF refill
  <2>2. Brim = LogBurst * I + I - 1 /\ LogBurst * I \in Nat
    BY <1>0, <1>2 DEF Brim
  <2>3. CASE s = 0
    <3>1. f = [tokens |-> 0, lastRefill |-> b.lastRefill + q * I] /\ q = 0
      BY <1>0, <1>1, <2>1, <2>3, SMTT(60)
    <3>2. q * I = 0
      BY <1>0, <3>1, SMTT(60)
    <3>3. c = [tokens |-> 0, lastRefill |-> b.lastRefill] /\ b.tokens = 0
          /\ ~MayTake(b, LogBurst, LogInterval, t)
      BY <1>0, <1>1, <2>3, <3>1, <3>2, SMTT(60) DEF TryTake, MayTake
    <3>4. c.tokens = b.tokens /\ c.lastRefill = b.lastRefill
      BY <3>3
    <3>5. Potential(c, t) = Potential(b, t)
      BY <3>4 DEF Potential
    <3>6. Potential(b, t) \in Nat
      BY <1>0, <2>0, <2>2, SMTT(60) DEF Potential
    <3>. QED  BY <1>0, <3>3, <3>5, <3>6, SMTT(60)
  <2>4. CASE s > 0 /\ s < LogBurst
    <3>1. c = [tokens |-> s - 1, lastRefill |-> b.lastRefill + q * I]
          /\ MayTake(b, LogBurst, LogInterval, t)
      BY <1>0, <2>0, <2>1, <2>4, SMTT(60) DEF TryTake, MayTake
    <3>2. (s - 1) * I \in Nat /\ s * I = (s - 1) * I + I
      BY <1>2, <2>0, <2>4, SMTT(60)
    <3>3. s * I <= LogBurst * I
      BY <1>0, <1>3, <2>0, <2>4, SMTT(60)
    <3>4. b.tokens * I + e <= Brim
      BY <1>0, <1>1, <2>0, <2>2, <3>3, SMTT(60)
    <3>5. Potential(b, t) = b.tokens * I + e
      BY <1>0, <3>4 DEF Potential
    <3>6. (s - 1) * I + (t - (b.lastRefill + q * I)) = b.tokens * I + e - I
      BY <1>0, <2>0, <3>2, SMTT(60)
    <3>7. Potential(c, t) = b.tokens * I + e - I
      BY <1>0, <2>0, <2>2, <3>1, <3>4, <3>6, SMTT(60) DEF Potential
    <3>8. c \in [tokens : 0..LogBurst, lastRefill : Nat] /\ c.lastRefill <= t
      BY <1>0, <1>1, <2>0, <2>4, <3>1, SMTT(60)
    <3>. QED  BY <1>0, <2>0, <3>1, <3>5, <3>7, <3>8, SMTT(60)
  <2>5. CASE s >= LogBurst
    <3>1. c = [tokens |-> LogBurst - 1, lastRefill |-> b.lastRefill + q * I]
          /\ MayTake(b, LogBurst, LogInterval, t)
      BY <1>0, <2>0, <2>1, <2>5, SMTT(60) DEF TryTake, MayTake
    <3>2. (LogBurst - 1) * I \in Nat /\ LogBurst * I = (LogBurst - 1) * I + I
      BY <1>0, <1>2, SMTT(60)
    <3>3. LogBurst * I <= s * I
      BY <1>0, <1>3, <2>0, <2>5
    <3>4. t - (b.lastRefill + q * I) = e - q * I /\ e - q * I \in 0..(I - 1)
      BY <1>0, <1>1, <2>0, SMTT(60)
    <3>5. Potential(c, t) = (LogBurst - 1) * I + (e - q * I)
      BY <1>0, <2>2, <3>1, <3>2, <3>4, SMTT(60) DEF Potential
    <3>6. LogBurst * I + (e - q * I) <= b.tokens * I + e
      BY <1>0, <2>0, <2>2, <3>3, SMTT(60)
    <3>7. LogBurst * I + (e - q * I) <= Potential(b, t)
      BY <1>0, <2>0, <2>2, <3>4, <3>6, SMTT(60) DEF Potential
    <3>8. c \in [tokens : 0..LogBurst, lastRefill : Nat] /\ c.lastRefill <= t
      BY <1>0, <1>1, <2>0, <3>1, SMTT(60)
    <3>9. Potential(b, t) \in Nat
      BY <1>0, <2>0, <2>2, SMTT(60) DEF Potential
    <3>. QED  BY <1>0, <2>0, <2>2, <3>1, <3>2, <3>5, <3>7, <3>8, <3>9, SMTT(60)
  <2>. QED  BY <2>0, <2>3, <2>4, <2>5, <1>0, SMTT(60)
<1>. QED  BY <1>0, <1>4, <1>5, SMTT(60)
(* A request finds its bucket as Held says, also when the sweep has just   *)
(* forgotten it: the sweep only drops buckets that are full.               *)
LEMMA FoundAsHeld ==
  ASSUME GatesTypeOK, NEW b \in Bucket
  PROVE  LevelOf(b) = Held(b) /\ Held(b) \in 0..Full
<1>1. level[b] \in 0..Full /\ Full \in Nat
  BY FullType DEF GatesTypeOK
<1>2. b \in tracked /\ b \notin sweepIfDue => level[b] = Full
  BY <1>1, SMTT(60) DEF sweepIfDue
<1>3. sweepIfDue \subseteq tracked
  BY DEF sweepIfDue
<1>. QED  BY <1>1, <1>2, <1>3, SMTT(60) DEF LevelOf, Held

(* Spending one request's worth, or none.                                  *)
LEMMA ChargeKeepsBudget ==
  ASSUME GatesTypeOK, BudgetInv, NEW addr \in Address \cup {None},
         Charge(addr), now' = now, from' = from
  PROVE  /\ BudgetInv'
         /\ level' \in [Bucket -> 0..Full] /\ tracked' \subseteq Key
         /\ spent' \in [Bucket -> Nat] /\ lastSweep' \in 0..now
<1>. DEFINE b == bucketFor(addr)
            paid == IF allow(addr) THEN 1 ELSE 0
<1>0. Cost \in Nat /\ Cost >= 1 /\ Gain \in Nat /\ Full \in Nat /\ Overflow \notin Key
  BY GatesAssumption, FullType, SMTT(60)
<1>1. CASE isExempt(addr)
  <2>1. UNCHANGED <<limiter, spent>>
    BY <1>1 DEF Charge
  <2>2. tracked' = tracked /\ level' = level /\ lastSweep' = lastSweep /\ spent' = spent
    BY <2>1 DEF limiter
  <2>. QED  BY <2>2 DEF BudgetInv, Held, GatesTypeOK
<1>2. CASE ~isExempt(addr)
  <2>1. /\ tracked' = sweepIfDue \cup ({b} \ {Overflow})
        /\ level' = [level EXCEPT ![b] = LevelOf(b) - paid * Cost]
        /\ lastSweep' = SweptAt
        /\ spent' = [spent EXCEPT ![b] = @ + IF now >= from THEN paid ELSE 0]
    BY <1>2 DEF Charge
  <2>2. b \in Bucket
    BY GatesAssumption DEF bucketFor, Bucket
  <2>3. paid \in {0, 1} /\ (paid = 1 => LevelOf(b) >= Cost)
    BY <1>2, SMTT(60) DEF allow
  <2>4. LevelOf(b) = Held(b) /\ Held(b) \in 0..Full
    BY <2>2, FoundAsHeld
  <2>5. paid * Cost \in Nat /\ paid * Cost <= LevelOf(b)
    BY <1>0, <2>3, <2>4, SMTT(60)
  <2>6. sweepIfDue \subseteq tracked
    BY DEF sweepIfDue
  <2>7. level' \in [Bucket -> 0..Full] /\ tracked' \subseteq Key
    BY <1>0, <2>1, <2>2, <2>4, <2>5, <2>6, SMTT(60) DEF GatesTypeOK, Bucket
  <2>8. spent' \in [Bucket -> Nat]
    BY <2>1, <2>2, <2>3, SMTT(60) DEF GatesTypeOK
  <2>9. lastSweep' \in 0..now
    BY <2>1, SMTT(60) DEF SweptAt, GatesTypeOK
  <2>10. ASSUME NEW k \in Bucket
         PROVE  IF now >= from THEN spent'[k] * Cost + Held(k)' <= Full + Gain * (now - from)
                               ELSE spent'[k] = 0
    <3>1. k # b => Held(k)' = Held(k) /\ spent'[k] = spent[k]
      <4>1. LevelOf(k) = Held(k)
        BY FoundAsHeld
      <4>. QED  BY <2>1, <2>2, <4>1 DEF Held, LevelOf, GatesTypeOK
    <3>2. k = b => Held(k)' = Held(k) - paid * Cost
      <4>1. k = b => k \in tracked' \cup {Overflow}
        BY <2>1
      <4>2. k = b => level'[k] = LevelOf(k) - paid * Cost
        BY <2>1, <2>2 DEF GatesTypeOK
      <4>. QED  BY <2>4, <4>1, <4>2 DEF Held
    <3>3. spent'[b] = spent[b] + (IF now >= from THEN paid ELSE 0) /\ spent[b] \in Nat
      BY <2>1, <2>2 DEF GatesTypeOK
    <3>4. (spent[b] + paid) * Cost = spent[b] * Cost + paid * Cost /\ spent[b] * Cost \in Nat
      BY <1>0, <2>3, <3>3, SMTT(60)
    <3>5. now \in Nat /\ from \in Nat
      BY ClockTypes
    <3>6. CASE now >= from
      <4>1. Gain * (now - from) \in Nat
        BY <1>0, <3>5, <3>6, SMTT(60)
      <4>2. CASE k = b
        <5>1. spent[b] * Cost + Held(b) <= Full + Gain * (now - from)
          BY <2>2, <3>6 DEF BudgetInv
        <5>2. Held(k)' = Held(b) - paid * Cost /\ spent'[k] = spent[b] + paid
          BY <3>2, <3>3, <3>6, <4>2
        <5>3. spent'[k] * Cost + Held(k)' = spent[b] * Cost + Held(b)
          BY <1>0, <2>4, <2>5, <3>4, <5>2, SMTT(60)
        <5>. QED  BY <3>6, <5>1, <5>3
      <4>3. CASE k # b
        BY <3>1, <3>6, <4>3 DEF BudgetInv
      <4>. QED  BY <4>2, <4>3
    <3>7. CASE ~(now >= from)
      BY <2>2, <3>1, <3>3, <3>7, SMTT(60) DEF BudgetInv
    <3>. QED  BY <3>6, <3>7
  <2>. QED  BY <2>7, <2>8, <2>9, <2>10 DEF BudgetInv
<1>. QED  BY <1>1, <1>2

(* One warning, or a suppressed one.                                       *)
LEMMA WarnKeepsCeiling ==
  ASSUME GatesTypeOK, WarningInv, NEW w \in Warning, Warn(w), now' = now, from' = from
  PROVE  /\ WarningInv'
         /\ log' \in [Warning -> [tokens : 0..LogBurst, lastRefill : 0..now]]
         /\ warned' \in [Warning -> Nat]
<1>. DEFINE b == log[w]
            c == TryTake(b, LogBurst, LogInterval, now)
            n == IF MayTake(b, LogBurst, LogInterval, now) THEN 1 ELSE 0
<1>0. now \in Nat /\ from \in Nat /\ LogInterval \in Nat /\ LogBurst \in Nat
  BY GatesAssumption, SMTT(60) DEF GatesTypeOK
<1>1. b \in [tokens : 0..LogBurst, lastRefill : 0..now]
  BY DEF GatesTypeOK
<1>2. b \in [tokens : 0..LogBurst, lastRefill : Nat] /\ b.lastRefill <= now
  BY <1>0, <1>1, SMTT(60)
<1>3. /\ c \in [tokens : 0..LogBurst, lastRefill : Nat] /\ c.lastRefill <= now
      /\ n * LogInterval + Potential(c, now) <= Potential(b, now)
  BY <1>0, <1>2, TakeSpends
<1>4. c \in [tokens : 0..LogBurst, lastRefill : 0..now]
  BY <1>0, <1>3, SMTT(60)
<1>5. log' = [log EXCEPT ![w] = c]
      /\ warned' = [warned EXCEPT ![w] = @ + IF now >= from THEN n ELSE 0]
  BY <1>0 DEF Warn
<1>6. log' \in [Warning -> [tokens : 0..LogBurst, lastRefill : 0..now]]
      /\ warned' \in [Warning -> Nat]
  BY <1>0, <1>4, <1>5, SMTT(60) DEF GatesTypeOK
<1>7. ASSUME NEW v \in Warning
      PROVE  IF now >= from
             THEN warned'[v] * LogInterval + Potential(log'[v], now) <= Brim + (now - from)
             ELSE warned'[v] = 0
  <2>1. CASE v # w
    <3>1. log'[v] = log[v] /\ warned'[v] = warned[v]
      BY <1>5, <2>1 DEF GatesTypeOK
    <3>. QED  BY <3>1 DEF WarningInv
  <2>2. CASE v = w
    <3>1. log'[v] = c /\ warned'[v] = warned[v] + (IF now >= from THEN n ELSE 0)
          /\ warned[v] \in Nat
      BY <1>5, <2>2 DEF GatesTypeOK
    <3>2. (warned[v] + n) * LogInterval = warned[v] * LogInterval + n * LogInterval
          /\ warned[v] * LogInterval \in Nat /\ n * LogInterval \in Nat
      BY <1>0, <3>1, SMTT(60)
    <3>3. Potential(c, now) \in Int /\ Potential(b, now) \in Int /\ Brim \in Int
      <4>1. \A d \in [tokens : 0..LogBurst, lastRefill : Nat] : d.tokens * LogInterval \in Nat
        BY <1>0, SMTT(60)
      <4>2. Brim \in Int
        BY <1>0, SMTT(60) DEF Brim
      <4>. QED  BY <1>0, <1>2, <1>3, <4>1, <4>2, SMTT(60) DEF Potential
    <3>4. CASE now >= from
      <4>1. warned[v] * LogInterval + Potential(b, now) <= Brim + (now - from)
        BY <2>2, <3>4 DEF WarningInv
      <4>2. warned'[v] = warned[v] + n
        BY <3>1, <3>4
      <4>. QED  BY <1>0, <1>3, <3>1, <3>2, <3>3, <3>4, <4>1, <4>2, SMTT(60)
    <3>5. CASE ~(now >= from)
      BY <1>0, <2>2, <3>1, <3>5, SMTT(60) DEF WarningInv
    <3>. QED  BY <3>4, <3>5
  <2>. QED  BY <2>1, <2>2
<1>. QED  BY <1>6, <1>7 DEF WarningInv
(* Any instant may open a window, and nothing has been given out then.     *)
LEMMA GatesStart == GatesInit => GatesInv
<1>. SUFFICES ASSUME GatesInit PROVE GatesInv
  OBVIOUS
<1>0. /\ Cost \in Nat /\ Gain \in Nat /\ Full \in Nat /\ MaxTime \in Nat
      /\ LogBurst \in Nat /\ LogInterval \in Nat /\ LogInterval >= 1
      /\ Window \subseteq Nat
  BY GatesAssumption, FullType, SMTT(60)
<1>1. GatesTypeOK
  BY <1>0, SMTT(60) DEF GatesInit, GatesTypeOK, newTokenBucket
<1>2. BudgetInv
  <2>. SUFFICES ASSUME NEW b \in Bucket
                PROVE  IF now >= from THEN spent[b] * Cost + Held(b) <= Full + Gain * (now - from)
                                      ELSE spent[b] = 0
    BY DEF BudgetInv
  <2>1. spent[b] = 0 /\ Held(b) = Full /\ now = 0 /\ from \in Nat
    BY <1>0 DEF GatesInit, Held, Bucket
  <2>2. now >= from => from = 0
    BY <2>1, SMTT(60)
  <2>3. 0 * Cost = 0 /\ Gain * 0 = 0
    BY <1>0, SMTT(60)
  <2>. QED  BY <1>0, <2>1, <2>2, <2>3, SMTT(60)
<1>3. WarningInv
  <2>. SUFFICES ASSUME NEW w \in Warning
                PROVE  IF now >= from
                       THEN warned[w] * LogInterval + Potential(log[w], now) <= Brim + (now - from)
                       ELSE warned[w] = 0
    BY DEF WarningInv
  <2>1. warned[w] = 0 /\ log[w] = [tokens |-> LogBurst, lastRefill |-> 0] /\ now = 0
        /\ from \in Nat
    BY <1>0 DEF GatesInit, newTokenBucket
  <2>2. 0 * LogInterval = 0 /\ LogBurst * LogInterval \in Nat
    BY <1>0, SMTT(60)
  <2>3. Potential(log[w], now) <= Brim /\ Potential(log[w], now) \in Int /\ Brim \in Int
    BY <1>0, <2>1, <2>2, SMTT(60) DEF Potential, Brim
  <2>. QED  BY <1>0, <2>1, <2>2, <2>3, SMTT(60)
<1>. QED  BY <1>1, <1>2, <1>3 DEF GatesInv

(* Time restores at most its due.                                          *)
LEMMA TickKeeps == GatesInv /\ Tick => GatesInv'
<1>. SUFFICES ASSUME GatesTypeOK, BudgetInv, WarningInv, Tick PROVE GatesInv'
  BY DEF GatesInv
<1>0. /\ Cost \in Nat /\ Gain \in Nat /\ Full \in Nat /\ MaxTime \in Nat
      /\ LogBurst \in Nat /\ LogInterval \in Nat /\ LogInterval >= 1
      /\ now \in Nat /\ from \in Nat
  BY GatesAssumption, FullType, SMTT(60) DEF GatesTypeOK
<1>1. GatesTypeOK'
  <2>1. level' \in [Bucket -> 0..Full]
    BY <1>0, SMTT(60) DEF Tick, GatesTypeOK
  <2>2. now' \in 0..MaxTime /\ now' = now + 1 /\ lastSweep' = lastSweep /\ log' = log
        /\ tracked' = tracked /\ service' = service /\ from' = from
        /\ spent' = spent /\ warned' = warned
    BY <1>0, SMTT(60) DEF Tick, GatesTypeOK
  <2>3. log \in [Warning -> [tokens : 0..LogBurst, lastRefill : 0..(now + 1)]]
    <3>1. [tokens : 0..LogBurst, lastRefill : 0..now]
            \subseteq [tokens : 0..LogBurst, lastRefill : 0..(now + 1)]
      BY <1>0, SMTT(60)
    <3>. QED  BY <3>1 DEF GatesTypeOK
  <2>4. lastSweep \in 0..(now + 1)
    BY <1>0, SMTT(60) DEF GatesTypeOK
  <2>. QED  BY <2>1, <2>2, <2>3, <2>4 DEF GatesTypeOK
<1>2. BudgetInv'
  <2>. SUFFICES ASSUME NEW b \in Bucket
                PROVE  IF now' >= from' THEN spent'[b] * Cost + Held(b)' <= Full + Gain * (now' - from')
                                        ELSE spent'[b] = 0
    BY DEF BudgetInv
  <2>1. now' = now + 1 /\ from' = from /\ spent' = spent /\ tracked' = tracked
    BY DEF Tick
  <2>2. Held(b) \in 0..Full
    BY FoundAsHeld
  <2>3. Held(b)' \in 0..Full /\ Held(b)' <= Held(b) + Gain
    <3>1. level[b] \in 0..Full
      BY DEF GatesTypeOK
    <3>. QED  BY <1>0, <3>1, <2>1, SMTT(60) DEF Tick, Held
  <2>4. spent[b] \in Nat /\ spent[b] * Cost \in Nat
    BY <1>0, SMTT(60) DEF GatesTypeOK
  <2>5. CASE now >= from
    <3>1. Gain * ((now + 1) - from) = Gain * (now - from) + Gain /\ Gain * (now - from) \in Nat
      BY <1>0, <2>5, SMTT(60)
    <3>2. spent[b] * Cost + Held(b) <= Full + Gain * (now - from)
      BY <2>5 DEF BudgetInv
    <3>. QED  BY <1>0, <2>1, <2>2, <2>3, <2>4, <2>5, <3>1, <3>2, SMTT(60)
  <2>6. CASE ~(now >= from)
    <3>1. spent[b] = 0 /\ 0 * Cost = 0
      BY <1>0, <2>6, SMTT(60) DEF BudgetInv
    <3>2. now + 1 >= from => Gain * ((now + 1) - from) \in Nat
      BY <1>0, SMTT(60)
    <3>. QED  BY <1>0, <2>1, <2>3, <3>1, <3>2, SMTT(60)
  <2>. QED  BY <2>5, <2>6
<1>3. WarningInv'
  <2>. SUFFICES ASSUME NEW w \in Warning
                PROVE  IF now' >= from'
                       THEN warned'[w] * LogInterval + Potential(log'[w], now') <= Brim + (now' - from')
                       ELSE warned'[w] = 0
    BY DEF WarningInv
  <2>1. now' = now + 1 /\ from' = from /\ log' = log /\ warned' = warned
    BY DEF Tick
  <2>2. log[w].tokens \in Nat /\ log[w].lastRefill \in Nat
        /\ log[w].tokens * LogInterval \in Nat /\ Brim \in Int
    <3>1. log[w] \in [tokens : 0..LogBurst, lastRefill : 0..now]
      BY DEF GatesTypeOK
    <3>2. log[w].tokens \in Nat /\ log[w].lastRefill \in Nat
      BY <1>0, <3>1, SMTT(60)
    <3>3. Brim \in Int
      BY <1>0, SMTT(60) DEF Brim
    <3>. QED  BY <1>0, <3>2, <3>3, SMTT(60)
  <2>3. /\ Potential(log[w], now + 1) <= Potential(log[w], now) + 1
        /\ Potential(log[w], now + 1) <= Brim
        /\ Potential(log[w], now + 1) \in Int /\ Potential(log[w], now) \in Int
    BY <1>0, <2>2, SMTT(60) DEF Potential
  <2>4. warned[w] \in Nat /\ warned[w] * LogInterval \in Nat
    BY <1>0, SMTT(60) DEF GatesTypeOK
  <2>5. CASE now >= from
    <3>1. warned[w] * LogInterval + Potential(log[w], now) <= Brim + (now - from)
      BY <2>5 DEF WarningInv
    <3>. QED  BY <1>0, <2>1, <2>2, <2>3, <2>4, <2>5, <3>1, SMTT(60)
  <2>6. CASE ~(now >= from)
    <3>1. warned[w] = 0 /\ 0 * LogInterval = 0
      BY <1>0, <2>6, SMTT(60) DEF WarningInv
    <3>. QED  BY <1>0, <2>1, <2>2, <2>3, <3>1, SMTT(60)
  <2>. QED  BY <2>5, <2>6
<1>. QED  BY <1>1, <1>2, <1>3 DEF GatesInv

(* The gates a request passes touch one bucket and one log at most.        *)
LEMMA RequestKeeps ==
  ASSUME GatesInv, NEW r, clientAddr(r) \in Address \cup {None}, serviceRequestWithTarget(r)
  PROVE  GatesInv'
<1>0. /\ GatesTypeOK /\ BudgetInv /\ WarningInv
      /\ now' = now /\ service' = service /\ from' = from
  BY DEF GatesInv, serviceRequestWithTarget
<1>1. ASSUME UNCHANGED <<limiter, spent>>
      PROVE  /\ BudgetInv'
             /\ level' \in [Bucket -> 0..Full] /\ tracked' \subseteq Key
             /\ spent' \in [Bucket -> Nat] /\ lastSweep' \in 0..now
  <2>1. tracked' = tracked /\ level' = level /\ lastSweep' = lastSweep /\ spent' = spent
    BY <1>1 DEF limiter
  <2>. QED  BY <1>0, <2>1 DEF BudgetInv, Held, GatesTypeOK
<1>2. ASSUME UNCHANGED <<log, warned>>
      PROVE  /\ WarningInv'
             /\ log' \in [Warning -> [tokens : 0..LogBurst, lastRefill : 0..now]]
             /\ warned' \in [Warning -> Nat]
  BY <1>0, <1>2 DEF WarningInv, GatesTypeOK
<1>3. CASE Refuse(r)
  <2>1. Verdict(r) \in Warning /\ Warn(Verdict(r)) /\ UNCHANGED <<limiter, spent>>
    BY <1>3 DEF Refuse, Warning
  <2>2. PICK w \in Warning : w = Verdict(r)
    BY <2>1
  <2>. QED  BY <1>0, <1>1, <2>1, <2>2, WarnKeepsCeiling DEF GatesInv, GatesTypeOK
<1>4. CASE Limit(r)
  <2>1. Charge(clientAddr(r)) /\ Warn("limited") /\ "limited" \in Warning
    BY <1>4 DEF Limit, Warning
  <2>. QED  BY <1>0, <2>1, ChargeKeepsBudget, WarnKeepsCeiling DEF GatesInv, GatesTypeOK
<1>5. CASE Pass(r)
  <2>1. UNCHANGED <<limiter, spent>> \/ Charge(clientAddr(r))
    BY <1>5 DEF Pass
  <2>2. UNCHANGED <<log, warned>>
    BY <1>5 DEF Pass
  <2>. QED  BY <1>0, <1>1, <1>2, <2>1, <2>2, ChargeKeepsBudget DEF GatesInv, GatesTypeOK
<1>. QED  BY <1>3, <1>4, <1>5 DEF serviceRequestWithTarget
-----------------------------------------------------------------------------
(* The entries of two header chains one after the other.                   *)
LEMMA Joined ==
  ASSUME NEW S, NEW front \in Seq(S), NEW rest \in Seq(S)
  PROVE  LET both == front \o rest
         IN  /\ both \in Seq(S) /\ Len(both) = Len(front) + Len(rest)
             /\ \A i \in 1..Len(front) + Len(rest) :
                   both[i] = IF i <= Len(front) THEN front[i] ELSE rest[i - Len(front)]
  BY SMTT(60)

(* The first n hops are hops.                                              *)
LEMMA FirstHops ==
  ASSUME NEW S, NEW hops \in Seq(S), NEW n \in 0..Len(hops)
  PROVE  SubSeq(hops, 1, n) \in Seq(S) /\ Len(SubSeq(hops, 1, n)) = n
  BY SMTT(60)

(* What the client sent, then the client, then declared proxies only.      *)
LEMMA AppendedChain ==
  ASSUME NEW S, NEW T, NEW sent \in Seq(S), NEW c \in S, NEW rest \in Seq(T), T \subseteq S
  PROVE  LET chain == sent \o <<c>> \o rest
         IN  /\ Len(chain) = Len(sent) + 1 + Len(rest)
             /\ chain[Len(sent) + 1] = c
             /\ \A j \in (Len(sent) + 2)..Len(chain) : chain[j] \in T
<1>1. rest \in Seq(S) /\ Len(rest) \in Nat /\ \A i \in 1..Len(rest) : rest[i] \in T
  BY SMT
<1>2. <<c>> \in Seq(S) /\ Len(<<c>>) = 1 /\ <<c>>[1] = c /\ Len(sent) \in Nat
  BY SMT
<1>3. PICK front \in Seq(S) : /\ front = sent \o <<c>>
                              /\ Len(front) = Len(sent) + 1 /\ front[Len(sent) + 1] = c
  <2>1. /\ sent \o <<c>> \in Seq(S) /\ Len(sent \o <<c>>) = Len(sent) + Len(<<c>>)
        /\ \A i \in 1..Len(sent) + Len(<<c>>) :
              (sent \o <<c>>)[i] = IF i <= Len(sent) THEN sent[i] ELSE <<c>>[i - Len(sent)]
    BY <1>2, Joined
  <2>2. (sent \o <<c>>)[Len(sent) + 1] = c
    BY <1>2, <2>1, SMTT(60)
  <2>. QED  BY <1>2, <2>1, <2>2
<1>4. PICK chain \in Seq(S) : /\ chain = front \o rest
                              /\ Len(chain) = Len(front) + Len(rest)
                              /\ \A i \in 1..Len(front) + Len(rest) :
                                    chain[i] = IF i <= Len(front) THEN front[i]
                                                                  ELSE rest[i - Len(front)]
  <2>1. /\ front \o rest \in Seq(S) /\ Len(front \o rest) = Len(front) + Len(rest)
        /\ \A i \in 1..Len(front) + Len(rest) :
              (front \o rest)[i] = IF i <= Len(front) THEN front[i] ELSE rest[i - Len(front)]
    BY <1>1, <1>3, Joined, SMTT(60)
  <2>. QED  BY <2>1
<1>5. /\ Len(chain) = Len(front) + Len(rest)
      /\ \A i \in 1..Len(front) : chain[i] = front[i]
      /\ \A i \in (Len(front) + 1)..(Len(front) + Len(rest)) : chain[i] = rest[i - Len(front)]
  BY <1>1, <1>2, <1>3, <1>4, SMTT(60)
<1>6. ASSUME NEW j \in (Len(sent) + 2)..Len(chain) PROVE chain[j] \in T
  <2>1. j - Len(front) \in 1..Len(rest) /\ j \in (Len(front) + 1)..(Len(front) + Len(rest))
    BY <1>1, <1>2, <1>3, <1>5, SMTT(60)
  <2>. QED  BY <1>1, <1>5, <2>1
<1>7. Len(chain) = Len(sent) + 1 + Len(rest) /\ chain[Len(sent) + 1] = c
  BY <1>1, <1>2, <1>3, <1>5, SMTT(60)
<1>. QED  BY <1>3, <1>4, <1>6, <1>7

(* Walking back from L past the entries of T stops at the last foreign     *)
(* entry, or finds none if the walk is cut short before it.                *)
LEMMA NearestForeign ==
  ASSUME NEW T, NEW chain, NEW L \in Nat, NEW at \in 1..L, NEW first \in Nat, first >= 1,
         chain[at] \notin T, \A j \in (at + 1)..L : chain[j] \in T
  PROVE  LET foreign == {i \in first..L : chain[i] \notin T}
         IN  /\ at < first => foreign = {}
             /\ at >= first => /\ foreign # {}
                               /\ (CHOOSE i \in foreign : \A j \in foreign : j <= i) = at
<1>. DEFINE foreign == {i \in first..L : chain[i] \notin T}
<1>1. \A i \in foreign : i \in Nat /\ i <= at /\ i >= first
  BY SMTT(60)
<1>2. ASSUME at >= first PROVE at \in foreign
  BY <1>2, SMTT(60)
<1>. HIDE DEF foreign
<1>3. ASSUME at >= first
      PROVE  (CHOOSE i \in foreign : \A j \in foreign : j <= i) = at
  <2>1. at \in foreign /\ \A j \in foreign : j <= at
    BY <1>1, <1>2, <1>3
  <2>2. PICK n \in foreign : n = (CHOOSE i \in foreign : \A j \in foreign : j <= i)
                            /\ \A j \in foreign : j <= n
    BY <2>1
  <2>3. n = at
    BY <1>1, <2>1, <2>2, SMTT(60)
  <2>. QED  BY <2>2, <2>3
<1>4. ASSUME at < first PROVE foreign = {}
  BY <1>1, <1>4, SMTT(60)
<1>. QED  BY <1>2, <1>3, <1>4 DEF foreign

(* The walk finds the client: never an address the client only claims, and *)
(* nothing at all only when the path is longer than the chain limit.       *)
LEMMA WalkFindsClient ==
  ASSUME NEW r, r.client \in Address, r.hops \in Seq(Trusted),
         r.sent \in Seq(Address \cup Trusted \cup {Garbage})
  PROVE  /\ clientAddr(r) \in {r.client, None}
         /\ Len(r.hops) <= ChainLimit => clientAddr(r) = r.client
<1>0. r.client \notin Trusted /\ ChainLimit \in Nat /\ ChainLimit >= 1
  BY GatesAssumption, SMTT(60)
<1>1. CASE r.hops = <<>>
  BY <1>0, <1>1 DEF clientAddr, Peer
<1>2. CASE r.hops # <<>>
  <2>1. PICK hops \in Seq(Trusted) : hops = r.hops
    OBVIOUS
  <2>2. PICK n \in Nat : n = Len(hops) /\ n >= 1
    BY <1>2, <2>1, SMTT(60)
  <2>3. PICK rest \in Seq(Trusted) : rest = SubSeq(hops, 1, n - 1) /\ Len(rest) = n - 1
    <3>1. n - 1 \in 0..Len(hops)
      BY <2>2, SMTT(60)
    <3>. QED  BY <3>1, FirstHops
  <2>4. PICK sent \in Seq(Address \cup Trusted \cup {Garbage}) : sent = r.sent
    OBVIOUS
  <2>5. PICK m \in Nat : m = Len(sent)
    BY SMTT(60)
  <2>6. PICK chain : chain = sent \o <<r.client>> \o rest
    OBVIOUS
  <2>7. Chain(r) = chain
    BY <1>2, <2>1, <2>2, <2>3, <2>4, <2>6 DEF Chain
  <2>8. /\ Len(chain) = m + n /\ chain[m + 1] = r.client
        /\ \A j \in (m + 2)..(m + n) : chain[j] \in Trusted
    <3>1. /\ Len(chain) = m + 1 + Len(rest) /\ chain[m + 1] = r.client
          /\ \A j \in (m + 2)..Len(chain) : chain[j] \in Trusted
      BY <2>5, <2>6, AppendedChain, SMTT(60)
    <3>2. Len(chain) = m + n
      BY <2>3, <3>1, SMTT(60)
    <3>. QED  BY <3>1, <3>2
  <2>9. Peer(r) \in Trusted
    <3>1. Peer(r) = hops[n]
      BY <1>2, <2>1, <2>2 DEF Peer
    <3>. QED  BY <2>2, <3>1, SMTT(60)
  <2>. DEFINE first == IF Len(chain) > ChainLimit THEN Len(chain) - ChainLimit + 1 ELSE 1
              foreign == {i \in first..Len(chain) : chain[i] \notin Trusted}
              nearest == CHOOSE i \in foreign : \A j \in foreign : j <= i
  <2>10. first \in Nat /\ first >= 1 /\ Len(chain) \in Nat
    BY <1>0, <2>8, SMTT(60)
  <2>11. clientAddr(r) = IF foreign = {} \/ chain[nearest] \notin Address
                         THEN None ELSE chain[nearest]
    BY <2>7, <2>9, SMTT(60) DEF clientAddr, forwardedAddr
  <2>12. /\ m + 1 < first => foreign = {}
         /\ m + 1 >= first => foreign # {} /\ nearest = m + 1
    <3>. HIDE DEF first
    <3>1. m + 1 \in 1..Len(chain) /\ chain[m + 1] \notin Trusted
      BY <1>0, <2>2, <2>8, SMTT(60)
    <3>2. \A j \in ((m + 1) + 1)..Len(chain) : chain[j] \in Trusted
      BY <2>8, SMTT(60)
    <3>. QED  BY <2>10, <3>1, <3>2, NearestForeign
  <2>. HIDE DEF foreign, nearest
  <2>13. m + 1 < first => n > ChainLimit
    BY <1>0, <2>8, SMTT(60)
  <2>. HIDE DEF first
  <2>14. CASE m + 1 >= first
    BY <2>8, <2>11, <2>12, <2>14
  <2>15. CASE m + 1 < first
    BY <1>0, <2>1, <2>2, <2>11, <2>12, <2>13, <2>15, SMTT(60)
  <2>. QED  BY <2>10, <2>14, <2>15, SMTT(60)
<1>. QED  BY <1>1, <1>2

(* The requests of the service observed are requests clients can make.     *)
LEMMA RequestType ==
  ASSUME GatesTypeOK, NEW r \in service.requests
  PROVE  /\ r.client \in Address /\ r.hops \in Seq(Trusted)
         /\ r.sent \in Seq(Address \cup Trusted \cup {Garbage})
BY GatesAssumption DEF GatesTypeOK

(* Nothing the gates do breaks the invariant.                              *)
LEMMA GatesStep == GatesInv /\ [GatesNext]_gateVars => GatesInv'
<1>. SUFFICES ASSUME GatesInv, [GatesNext]_gateVars PROVE GatesInv'
  OBVIOUS
<1>1. CASE Tick
  BY <1>1, TickKeeps
<1>2. ASSUME NEW r \in service.requests, serviceRequestWithTarget(r) PROVE GatesInv'
  <2>1. clientAddr(r) \in Address \cup {None}
    <3>1. clientAddr(r) \in {r.client, None} /\ r.client \in Address
      BY RequestType, WalkFindsClient DEF GatesInv
    <3>. QED  BY <3>1
  <2>. QED  BY <1>2, <2>1, RequestKeeps
<1>3. CASE UNCHANGED gateVars
  BY <1>3 DEF gateVars, GatesInv, GatesTypeOK, BudgetInv, WarningInv, Held
<1>. QED  BY <1>1, <1>2, <1>3 DEF GatesNext

(* No network is admitted more than its burst and what the rate restores,  *)
(* in any window: rate_limit.go's budgets survive sweeps and the cap.      *)
THEOREM CeilingHolds == GatesSpec => []Ceiling
<1>1. GatesInv => Ceiling
  <2>. SUFFICES ASSUME GatesInv, now >= from, NEW b \in Bucket
                PROVE  spent[b] * Cost <= Full + Gain * (now - from)
    BY DEF Ceiling
  <2>1. spent[b] * Cost + Held(b) <= Full + Gain * (now - from)
    BY DEF GatesInv, BudgetInv
  <2>2. Held(b) \in Nat /\ Full \in Nat
    BY FoundAsHeld, FullType, SMTT(60) DEF GatesInv
  <2>3. spent[b] * Cost \in Nat /\ Gain * (now - from) \in Nat
    BY GatesAssumption, SMTT(60) DEF GatesInv, GatesTypeOK
  <2>. QED  BY <2>1, <2>2, <2>3, SMTT(60)
<1>. QED  BY <1>1, GatesStart, GatesStep, PTL DEF GatesSpec

(* The warnings of a kind stay under their ceiling in any window: the lazy *)
(* refill of token_bucket.go keeps less than one interval above capacity.  *)
THEOREM WarningCeilingHolds == GatesSpec => []WarningCeiling
<1>1. GatesInv => WarningCeiling
  <2>. SUFFICES ASSUME GatesInv, now >= from, NEW w \in Warning
                PROVE  warned[w] * LogInterval < (LogBurst + 1) * LogInterval + (now - from)
    BY DEF WarningCeiling
  <2>0. LogInterval \in Nat /\ LogInterval >= 1 /\ LogBurst \in Nat
        /\ now \in Nat /\ from \in Nat
    BY GatesAssumption, SMTT(60) DEF GatesInv, GatesTypeOK
  <2>1. warned[w] * LogInterval + Potential(log[w], now) <= Brim + (now - from)
    BY DEF GatesInv, WarningInv
  <2>2. Potential(log[w], now) \in Nat
    <3>1. log[w] \in [tokens : 0..LogBurst, lastRefill : 0..now]
      BY DEF GatesInv, GatesTypeOK
    <3>2. log[w].tokens * LogInterval \in Nat /\ now - log[w].lastRefill \in Nat
      BY <2>0, <3>1, SMTT(60)
    <3>3. Brim \in Nat
      <4>1. LogBurst * LogInterval \in Nat
        BY <2>0, SMTT(60)
      <4>. QED  BY <2>0, <4>1, SMTT(60) DEF Brim
    <3>. QED  BY <3>2, <3>3, SMTT(60) DEF Potential
  <2>3. warned[w] * LogInterval \in Nat
    BY <2>0, SMTT(60) DEF GatesInv, GatesTypeOK
  <2>4. (LogBurst + 1) * LogInterval = LogBurst * LogInterval + LogInterval
        /\ LogBurst * LogInterval \in Nat
    BY <2>0, SMTT(60)
  <2>. QED  BY <2>0, <2>1, <2>2, <2>3, <2>4, SMTT(60) DEF Brim
<1>. QED  BY <1>1, GatesStart, GatesStep, PTL DEF GatesSpec

(* Whatever header a client sends, and through however many declared       *)
(* proxies, the lists judge the address the request came from.             *)
THEOREM ServedOnTrueAddressHolds == GatesSpec => []ServedOnTrueAddress
<1>1. GatesInv => ServedOnTrueAddress
  <2>. SUFFICES ASSUME GatesInv, NEW r \in service.requests, Verdict(r) = "served", ~r.probe
                PROVE  /\ service.allowed # {} => r.client \in service.allowed
                       /\ Len(r.hops) <= ChainLimit => r.client \notin Denied
    BY DEF ServedOnTrueAddress
  <2>1. /\ clientAddr(r) \in {r.client, None} /\ r.client \in Address
        /\ Len(r.hops) <= ChainLimit => clientAddr(r) = r.client
    BY RequestType, WalkFindsClient DEF GatesInv
  <2>2. ~rejectDenied(r) /\ ~rejectDisallowedIP(r)
    BY DEF Verdict
  <2>3. r.client # None
    BY <2>1, GatesAssumption
  <2>. QED  BY <2>1, <2>2, <2>3
         DEF rejectDenied, rejectDisallowedIP, deniesAddr, permits
<1>. QED  BY <1>1, GatesStart, GatesStep, PTL DEF GatesSpec

-----------------------------------------------------------------------------
(* The cap on the table.                                                   *)
TrackedInv == IsFiniteSet(tracked) /\ Cardinality(tracked) <= MaxTracked

(* A sweep only forgets, and a bucket is made only while there is room.    *)
LEMMA ChargeKeepsCap ==
  ASSUME TrackedInv, NEW addr, Charge(addr)
  PROVE  TrackedInv'
<1>. DEFINE S == sweepIfDue
            b == bucketFor(addr)
<1>1. CASE isExempt(addr)
  BY <1>1 DEF Charge, limiter, TrackedInv
<1>2. CASE ~isExempt(addr)
  <2>1. IsFiniteSet(S) /\ Cardinality(S) <= Cardinality(tracked)
    BY FS_Subset DEF sweepIfDue, TrackedInv
  <2>2. Cardinality(S) \in Nat /\ Cardinality(tracked) \in Nat /\ MaxTracked \in Nat
    BY <2>1, FS_CardinalityType, GatesAssumption DEF TrackedInv
  <2>3. tracked' = S \cup ({b} \ {Overflow})
    BY <1>2 DEF Charge
  <2>4. CASE b \in S \cup {Overflow}
    <3>1. tracked' = S
      BY <2>3, <2>4
    <3>. QED  BY <2>1, <2>2, <3>1, SMTT(60) DEF TrackedInv
  <2>5. CASE b \notin S \cup {Overflow}
    <3>1. Cardinality(S) < MaxTracked
      BY <2>5 DEF bucketFor
    <3>2. tracked' = S \cup {b}
      BY <2>3, <2>5
    <3>3. IsFiniteSet(S \cup {b}) /\ Cardinality(S \cup {b}) = Cardinality(S) + 1
      BY <2>1, <2>5, FS_AddElement
    <3>. QED  BY <2>2, <3>1, <3>2, <3>3, SMTT(60) DEF TrackedInv
  <2>. QED  BY <2>4, <2>5
<1>. QED  BY <1>1, <1>2

(* The table of buckets never outgrows rateLimitMaxTrackedClients, whatever *)
(* addresses arrive and whenever the sweep runs (bucketFor, sweepIfDue).    *)
THEOREM TrackedBoundedHolds == GatesSpec => []TrackedBounded
<1>1. GatesInit => TrackedInv
  BY FS_EmptySet, GatesAssumption, SMTT(60) DEF GatesInit, TrackedInv
<1>2. TrackedInv /\ [GatesNext]_gateVars => TrackedInv'
  <2>. SUFFICES ASSUME TrackedInv, [GatesNext]_gateVars PROVE TrackedInv'
    OBVIOUS
  <2>1. CASE Tick \/ UNCHANGED gateVars
    BY <2>1 DEF Tick, gateVars, TrackedInv
  <2>2. ASSUME NEW r \in service.requests, serviceRequestWithTarget(r) PROVE TrackedInv'
    <3>1. CASE UNCHANGED limiter
      BY <3>1 DEF limiter, TrackedInv
    <3>2. CASE Charge(clientAddr(r))
      BY <3>2, ChargeKeepsCap
    <3>. QED  BY <2>2, <3>1, <3>2 DEF serviceRequestWithTarget, Refuse, Limit, Pass, limiter
  <2>. QED  BY <2>1, <2>2 DEF GatesNext
<1>3. TrackedInv => TrackedBounded
  BY DEF TrackedInv, TrackedBounded
<1>. QED  BY <1>1, <1>2, <1>3, PTL DEF GatesSpec

(* The request gates keep all they promise, for every set of clients, paths *)
(* of declared proxies, burst, rate, cap and interval.                      *)
THEOREM GatesAlwaysHold == GatesSpec => []GatesHold
<1>1. Ceiling /\ WarningCeiling /\ TrackedBounded /\ ServedOnTrueAddress => GatesHold
  BY DEF GatesHold
<1>. QED
  BY <1>1, CeilingHolds, WarningCeilingHolds, TrackedBoundedHolds, ServedOnTrueAddressHolds, PTL
=============================================================================
