----------------------------- MODULE QueueWindow -----------------------------
(***************************************************************************)
(* The trailing window of a target's queue times                           *)
(* (internal/server/target_queue.go): a ring of one-second slots that      *)
(* nobody sweeps, read against the wall clock, which may step back.        *)
(*                                                                         *)
(* A queue time is the histogram bucket it falls in, Buckets + 1 being     *)
(* +Inf.  seen is history: every observation, by the second it was made.   *)
(***************************************************************************)
EXTENDS Naturals, FiniteSetsExt

CONSTANTS
    WindowSeconds,  \* queueWindowSeconds
    Buckets,        \* number of finite buckets
    MaxSecond,      \* bound on the clock
    MaxSeen         \* bound on the observations

Source == {"app", "proxy"}
Bound == 1..(Buckets + 1)
Sample == Bound \X Source
Seconds == 0..MaxSecond
Empty == [x \in Sample |-> 0]

VARIABLES
    second,     \* time.Now().Unix()
    slots,      \* each [second, got: how often each sample was observed]
    seen,
    back        \* whether the clock has stepped back

queueVars == <<second, slots, seen, back>>

Slot == 0..(WindowSeconds - 1)

(* Slots are zero values; the clock is long past the epoch. *)
QueueInit ==
    /\ second = WindowSeconds
    /\ slots = [i \in Slot |-> [second |-> 0, got |-> Empty]]
    /\ seen = [s \in Seconds |-> Empty]
    /\ back = FALSE

Sum(got, S) == MapThenSumSet(LAMBDA x : got[x], S)
Observed == MapThenSumSet(LAMBDA s : Sum(seen[s], Sample), Seconds)

(* Mutant: a slot is added to whatever second it was last used for. *)
Observe_Accumulates(x) ==
    LET i == second % WindowSeconds
    IN  /\ Observed < MaxSeen
        /\ slots' = [slots EXCEPT ![i] = [second |-> second, got |-> [@.got EXCEPT ![x] = @ + 1]]]
        /\ seen' = [seen EXCEPT ![second][x] = @ + 1]
        /\ UNCHANGED <<second, back>>

Observe(x) ==
    LET i == second % WindowSeconds
        slot == IF slots[i].second = second THEN slots[i] ELSE [second |-> second, got |-> Empty]
    IN  /\ Observed < MaxSeen
        /\ slots' = [slots EXCEPT ![i] = [slot EXCEPT !.got[x] = @ + 1]]
        /\ seen' = [seen EXCEPT ![second][x] = @ + 1]
        /\ UNCHANGED <<second, back>>

(* The wall clock moves on, or is set back. *)
Clock(to) ==
    /\ to # second /\ second' = to
    /\ back' = (back \/ to < second)
    /\ UNCHANGED <<slots, seen>>

QueueNext ==
    \/ \E x \in Sample : Observe(x)
    \/ \E to \in WindowSeconds..MaxSecond : Clock(to)

QueueSpec == QueueInit /\ [][QueueNext]_queueVars

-----------------------------------------------------------------------------
(* Snapshot: the samples of the slots young enough, then the totals. *)
InWindow(s) == s <= second /\ second - s < WindowSeconds
Counts(S) == MapThenSumSet(LAMBDA i : Sum(slots[i].got, S), {i \in Slot : InWindow(slots[i].second)})

RequestCount == Counts(Sample)
App == Counts(Bound \X {"app"})
Proxy == Counts(Bound \X {"proxy"})
Cumulative(b) == Counts((1..b) \X Source)

(* bucketQuantile: the first finite bucket the rank falls in, or the last  *)
(* bound when none reaches it; 0 stands for an empty window.               *)
bucketQuantile ==
    LET reached == {b \in 1..Buckets : 20 * Cumulative(b) >= 19 * RequestCount}
    IN  IF RequestCount = 0 THEN 0 ELSE IF reached = {} THEN Buckets ELSE Min(reached)

-----------------------------------------------------------------------------
QueueTypeOK ==
    /\ second \in Seconds /\ back \in BOOLEAN
    /\ \A i \in Slot : slots[i].second \in Seconds /\ slots[i].got \in [Sample -> 0..MaxSeen]
    /\ seen \in [Seconds -> [Sample -> 0..MaxSeen]]

(* What really happened in the last WindowSeconds seconds. *)
Truly(S) == MapThenSumSet(LAMBDA s : Sum(seen[s], S), {s \in Seconds : InWindow(s)})

(* A snapshot taken at any moment describes exactly the requests of the    *)
(* last WindowSeconds seconds, and its 95th percentile is theirs, though   *)
(* nothing ever sweeps the ring.  When the clock has stepped back some may *)
(* be forgotten, but none is counted twice, counted for another second or  *)
(* left out of only one of the totals.                                     *)
SnapshotHonest ==
    /\ \A S \in {Sample, Bound \X {"app"}, Bound \X {"proxy"}} \cup {(1..b) \X Source : b \in Bound} :
          IF back THEN Counts(S) <= Truly(S) ELSE Counts(S) = Truly(S)
    /\ App + Proxy = RequestCount /\ Cumulative(Buckets + 1) = RequestCount
    /\ ~back /\ RequestCount > 0 =>
          LET reached == {b \in 1..Buckets : 20 * Truly((1..b) \X Source) >= 19 * Truly(Sample)}
          IN  bucketQuantile = Min(reached \cup {Buckets})
=============================================================================
