--------------------------- MODULE TargetSelection ---------------------------
(***************************************************************************)
(* Which target serves a request: claimTarget and nextTarget of            *)
(* internal/server/load_balancer.go with the weighted rotation of          *)
(* target_weight.go, the split of reads onto read-only replicas and the    *)
(* write cookie that suspends it, and the session pins of                  *)
(* session_affinity.go, through the attempts of retry.go.                  *)
(*                                                                         *)
(* A target is its position in the deployed list.  A health change and the *)
(* rebuilding of the pools are one step here; LoadBalancer takes them      *)
(* apart.  A client keeps the cookies it is given and has one request      *)
(* under way, strangers keep none.  turns, stable, home and wrote are      *)
(* history.                                                                *)
(***************************************************************************)
EXTENDS Integers, Sequences, FiniteSets, FiniteSetsExt

CONSTANTS
    Client,
    Deployment,     \* [targets: <<[readOnly, weight]>>, affinity: the write
                    \*  cookie's life, pins, retries: BOOLEAN]
    MaxTime         \* bound on the clock

VARIABLES
    lb,             \* the deployment
    healthy,
    credit,         \* Target.currentWeight
    index,          \* readerIndex and writerIndex
    jar,            \* each client's cookies: write, the expiry; pin, a target
    flight,         \* each client's request
    now,
    turns,          \* rotations to each target in the current cycle of its pool
    stable,         \* no health change so far
    home,           \* the writer that answered each client last
    wrote           \* when each client's last write was answered, if ever

selectVars ==
    <<lb, healthy, credit, index, jar, flight, now, turns, stable, home, wrote>>

Target == 1..Len(lb.targets)
ReadOnly(t) == lb.targets[t].readOnly
Weight(t) == lb.targets[t].weight
weighted == \E t \in Target : Weight(t) # 1
hasReaders == \E t \in Target : ReadOnly(t)
TotalWeight(S) == MapThenSumSet(Weight, S)

(* updateHealthyTargets, as sets: both lists keep the deployed order. *)
readers == {t \in healthy : ReadOnly(t)}
writers == {t \in healthy : ~ReadOnly(t)}

Idle == [at |-> "idle", read |-> FALSE, target |-> 0]
Never == -1

SelectInit ==
    /\ lb \in Deployment
    /\ healthy = Target
    /\ credit = [t \in Target |-> 0]
    /\ index = [readers |-> 0, writers |-> 0]
    /\ jar = [c \in Client |-> [write |-> Never, pin |-> 0]]
    /\ flight = [c \in Client |-> Idle]
    /\ now = 0
    /\ turns = [t \in Target |-> 0] /\ stable = TRUE
    /\ home = [c \in Client |-> 0]
    /\ wrote = [c \in Client |-> Never]

-----------------------------------------------------------------------------
(* Selection. *)
hasWriteCookie(c) == now < jar[c].write

(* The i-th target of a pool, counting from 0. *)
At(pool, i) == CHOOSE t \in pool : Cardinality({u \in pool : u < t}) = i

(* nextWeighted: the first target of those with most credit, once every    *)
(* target's credit has grown by its weight.                                *)
Grown(t) == credit[t] + Weight(t)
nextWeighted(pool) ==
    CHOOSE t \in pool : \A u \in pool : Grown(u) < Grown(t) \/ (Grown(u) = Grown(t) /\ t <= u)

(* Mutant: the chosen target starts from nothing. *)
PaidBack_Resets(pool, chosen) ==
    [t \in Target |-> IF t \notin pool THEN credit[t] ELSE IF t = chosen THEN 0 ELSE Grown(t)]

PaidBack(pool, chosen) ==
    [t \in Target |->
        IF t \notin pool THEN credit[t]
        ELSE IF t = chosen THEN Grown(t) - TotalWeight(pool) ELSE Grown(t)]

(* The pool a request belongs to: the replicas for a read, if any is       *)
(* healthy, and the writers for all else.                                  *)
PoolName(reader) == IF reader /\ readers # {} THEN "readers" ELSE "writers"
PoolOf(reader) == IF reader /\ readers # {} THEN readers ELSE writers

(* Where turns are counted: a weighted pool that has not changed, and any   *)
(* pool that rotates plainly.                                              *)
Even == stable \/ ~weighted

(* The cycle is over when every target of the pool has had its weight. *)
Turned(pool, t) ==
    LET counted == [turns EXCEPT ![t] = @ + 1]
    IN  IF \A u \in pool : counted[u] = Weight(u)
        THEN [u \in Target |-> IF u \in pool THEN 0 ELSE counted[u]]
        ELSE counted

(* nextTarget(reader) chooses t. *)
nextTarget(reader, t) ==
    LET pool == PoolOf(reader)
        name == PoolName(reader)
        next == (index[name] + 1) % Cardinality(pool)
    IN  /\ pool # {}
        /\ t = IF weighted THEN nextWeighted(pool) ELSE At(pool, next)
        /\ credit' = IF weighted THEN PaidBack(pool, t) ELSE credit
        /\ index' = IF weighted THEN index ELSE [index EXCEPT ![name] = next]
        /\ turns' = IF Even THEN Turned(pool, t) ELSE turns

(* pinnedTarget: the writer the client's cookie names, 0 when the usual    *)
(* rotation is to choose.                                                  *)
pinnedTarget(c, reader, retrying) ==
    IF ~lb.pins \/ retrying \/ (reader /\ readers # {}) \/ jar[c].pin \notin writers
    THEN 0 ELSE jar[c].pin

(* claimTarget places the request on t, or finds no healthy target. *)
claimTarget(c, read, retrying) ==
    LET reader == read /\ ~hasWriteCookie(c)
        pinned == pinnedTarget(c, reader, retrying)
    IN  \/ /\ pinned # 0
           /\ flight' = [flight EXCEPT ![c] =
                 [at |-> "sent", read |-> read, target |-> pinned]]
           /\ UNCHANGED <<credit, index, turns>>
        \/ /\ pinned = 0
           /\ \E t \in Target :
                 /\ nextTarget(reader, t)
                 /\ flight' = [flight EXCEPT ![c] =
                       [at |-> "sent", read |-> read, target |-> t]]
        \/ /\ pinned = 0 /\ PoolOf(reader) = {}
           /\ flight' = [flight EXCEPT ![c] =
                 IF lb.retries THEN [@ EXCEPT !.at = "again", !.read = read, !.target = 0]
                 ELSE Idle]
           /\ UNCHANGED <<credit, index, turns>>

StartRequest(c, read) ==
    /\ flight[c].at = "idle"
    /\ claimTarget(c, read, FALSE)
    /\ UNCHANGED <<lb, healthy, jar, now, stable, home, wrote>>

(* The same for a client that keeps no cookies; its answer changes nothing. *)
StrangerRequest(read) ==
    /\ \E t \in Target : nextTarget(read, t)
    /\ UNCHANGED <<lb, healthy, jar, flight, now, stable, home, wrote>>

-----------------------------------------------------------------------------
(* The attempt's outcome. *)

(* The target could not be reached: serveWithRetries goes round again. *)
AttemptFails(c) ==
    /\ flight[c].at = "sent" /\ lb.retries
    /\ flight' = [flight EXCEPT ![c].at = "again"]
    /\ UNCHANGED <<lb, healthy, credit, index, jar, now, turns, stable, home, wrote>>

again(c) ==
    /\ flight[c].at = "again"
    /\ claimTarget(c, flight[c].read, TRUE)
    /\ UNCHANGED <<lb, healthy, jar, now, stable, home, wrote>>

(* The try duration runs out, or the attempt fails with no retries: the    *)
(* error page carries no pin.                                              *)
GiveUp(c) ==
    /\ flight[c].at = IF lb.retries THEN "again" ELSE "sent"
    /\ flight' = [flight EXCEPT ![c] = Idle]
    /\ UNCHANGED <<lb, healthy, credit, index, jar, now, turns, stable, home, wrote>>

(* Mutant: a session keeps the pin it has. *)
pinSession_KeepsFirst(c) ==
    LET t == flight[c].target
    IN  IF lb.pins /\ ~ReadOnly(t) /\ jar[c].pin = 0 THEN t ELSE jar[c].pin

(* cookieFor and pinSession: the pin that goes out with the response, for  *)
(* the target of the attempt that succeeded; a replica is never pinned.    *)
pinSession(c) ==
    LET t == flight[c].target
    IN  IF lb.pins /\ ~ReadOnly(t) THEN t ELSE jar[c].pin

(* setWriterAffinityCookie, unless the application opted out. *)
writeCookie(c, optOut) ==
    IF lb.affinity > 0 /\ hasReaders /\ ~flight[c].read /\ ~optOut
    THEN now + lb.affinity ELSE jar[c].write

Answered(c, optOut) ==
    /\ flight[c].at = "sent"
    /\ optOut => ~flight[c].read
    /\ jar' = [jar EXCEPT ![c] = [write |-> writeCookie(c, optOut), pin |-> pinSession(c)]]
    /\ flight' = [flight EXCEPT ![c] = Idle]
    /\ home' = [home EXCEPT ![c] = IF ReadOnly(flight[c].target) THEN @ ELSE flight[c].target]
    /\ wrote' = [wrote EXCEPT ![c] = IF flight[c].read \/ optOut THEN @ ELSE now]
    /\ UNCHANGED <<lb, healthy, credit, index, now, turns, stable>>

-----------------------------------------------------------------------------
(* The world around it. *)
TargetStateChanged(t) ==
    /\ healthy' = IF t \in healthy THEN healthy \ {t} ELSE healthy \cup {t}
    /\ stable' = FALSE
    /\ turns' = [u \in Target |-> 0]
    /\ UNCHANGED <<lb, credit, index, jar, flight, now, home, wrote>>

(* Time matters to the write cookie only. *)
Clock ==
    /\ lb.affinity > 0 /\ now < MaxTime /\ now' = now + 1
    /\ UNCHANGED <<lb, healthy, credit, index, jar, flight, turns, stable, home, wrote>>

SelectNext ==
    \/ \E c \in Client :
        \/ \E read \in BOOLEAN : StartRequest(c, read)
        \/ AttemptFails(c) \/ again(c) \/ GiveUp(c)
        \/ \E optOut \in BOOLEAN : Answered(c, optOut)
    \/ \E read \in BOOLEAN : StrangerRequest(read)
    \/ \E t \in Target : TargetStateChanged(t)
    \/ Clock

SelectSpec == SelectInit /\ [][SelectNext]_selectVars

-----------------------------------------------------------------------------
SelectTypeOK ==
    /\ lb \in Deployment /\ healthy \subseteq Target
    /\ credit \in [Target -> Int] /\ turns \in [Target -> Nat]
    /\ index \in [{"readers", "writers"} -> 0..Len(lb.targets)]
    /\ \A c \in Client : jar[c].write \in -1..(MaxTime + lb.affinity) /\ jar[c].pin \in {0} \cup Target
    /\ \A c \in Client : flight[c].at \in {"idle", "sent", "again"}

(* nextWeighted's credits stay within the pool's total weight however the  *)
(* targets' health flaps ("well clear of overflow"): no target runs more   *)
(* than a cycle ahead of or behind its share, even one that was away.      *)
CreditsBounded ==
    \A t \in Target : credit[t] < TotalWeight(Target) /\ -credit[t] < TotalWeight(Target)

(* "Across a full cycle each target has served exactly its weight": no     *)
(* target gets ahead of its weight before every other has had its own.     *)
(* The plain rotation keeps this from any change of the pool on; the       *)
(* weighted one while the pool has not changed.                            *)
SharesExact ==
    Even => \A t \in Target : turns[t] <= Weight(t)

(* The rotation is fair, over a cycle and over any history of the pool     *)
(* (nextTarget, nextWeighted).                                             *)
RotationFair == CreditsBounded /\ SharesExact

(* A client that has written reads from a writer until its cookie expires, *)
(* never from a replica that may not have the write yet.                   *)
ReadsFollowWrites ==
    [][\A c \in Client :
        (/\ flight[c].at # "sent" /\ flight'[c].at = "sent"
         /\ wrote[c] # Never /\ now < wrote[c] + lb.affinity)
        => ~ReadOnly(flight'[c].target)]_selectVars

(* With session affinity a client stays on the writer that answered it     *)
(* last for as long as that writer is healthy: its writes, and its reads   *)
(* unless a replica takes them, are placed nowhere else.                   *)
StaysHome ==
    [][\A c \in Client :
        (/\ lb.pins /\ flight[c].at = "idle" /\ flight'[c].at = "sent"
         /\ home[c] \in writers /\ ~ReadOnly(flight'[c].target))
        => flight'[c].target = home[c]]_selectVars

(* A client is placed as the cookies it was given promise (claimTarget,    *)
(* pinSession, writeCookie).                                               *)
CookiesHonoured == ReadsFollowWrites /\ StaysHome
=============================================================================
