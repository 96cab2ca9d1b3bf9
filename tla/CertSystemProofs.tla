---------------------------- MODULE CertSystemProofs ----------------------------
(***************************************************************************)
(* What all the parties that order and serve certificates keep to, for any *)
(* hosts, zones, services, jobs and handshakes.                            *)
(***************************************************************************)
EXTENDS CertSystem, CertRenewerProofs

\* Zenon proves most leaves; one that needs SMT says so.
USE ZenonT(60)

-----------------------------------------------------------------------------
(***************************************************************************)
(* The orders, with the parties that ask for them.                         *)
(***************************************************************************)
Probers == [pc : {"idle", "probe", "release", "request"}, candidates : SUBSET Name,
            released : SUBSET Name]

\* The record of a prober whose step and candidates are set.
LEMMA ProberMoved ==
    ASSUME NEW p, NEW c, NEW rl, NEW q, NEW d, NEW r,
           r = [[pc |-> p, candidates |-> c, released |-> rl] EXCEPT !.pc = q, !.candidates = d]
    PROVE  r = [pc |-> q, candidates |-> d, released |-> rl]
<1>1. r.pc = q /\ r.candidates = d /\ r.released = rl
    OBVIOUS
<1>2. r = [pc |-> r.pc, candidates |-> r.candidates, released |-> r.released]
    OBVIOUS
<1> QED BY <1>1, <1>2

\* The release prober's steps keep the invariant.
LEMMA ProberKeeps ==
    ASSUME OrdersInv, Prober
    PROVE  OrdersInv'
<1>1. prober \in Probers /\ renewer' = renewer
    BY DEF OrdersInv, WorkInv, Prober, Probers
<1>2. IdleProber \in Probers
    BY DEF IdleProber, Probers
<1>3. ASSUME UNCHANGED <<queue, queued, inflight, inflightIdentifiers, wake, worker, job>>,
             prober' \in Probers
      PROVE  OrdersInv'
    <2>1. WorkInv'
        BY <1>1, <1>3 DEF OrdersInv, WorkInv, Probers
    <2>2. QueueInv'
        BY <1>3 DEF OrdersInv, QueueInv
    <2>3. HeldInv'
        BY <1>1, <1>3 DEF OrdersInv, HeldInv
    <2>4. WildInv'
        BY <1>3 DEF OrdersInv, WildInv
    <2> QED BY <2>1, <2>2, <2>3, <2>4 DEF OrdersInv
<1>4. CASE SweepStarts
    <2>1. \E held \in SUBSET Name : prober' = [IdleProber EXCEPT !.pc = "probe", !.candidates = held]
        BY <1>4 DEF SweepStarts
    <2>2. PICK held \in SUBSET Name :
             prober' = [IdleProber EXCEPT !.pc = "probe", !.candidates = held]
        BY <2>1
    <2>3. prober' \in Probers
        <3>1. prober' = [pc |-> "probe", candidates |-> held, released |-> {}]
            BY <2>2, ProberMoved DEF IdleProber
        <3> QED BY <3>1 DEF Probers
    <2> QED BY <1>3, <1>4, <2>3 DEF SweepStarts
<1>5. CASE SweepProbes
    <2>1. \E lost : prober' = [prober EXCEPT !.pc = "release", !.candidates = prober.candidates \ lost]
        BY <1>5 DEF SweepProbes
    <2>2. PICK lost :
             prober' = [prober EXCEPT !.pc = "release", !.candidates = prober.candidates \ lost]
        BY <2>1
    <2>3. prober' \in Probers
        <3>1. PICK p, c, rl : /\ prober = [pc |-> p, candidates |-> c, released |-> rl]
                              /\ c \in SUBSET Name /\ rl \in SUBSET Name
            <4>1. /\ prober = [pc |-> prober.pc, candidates |-> prober.candidates,
                               released |-> prober.released]
                  /\ prober.candidates \in SUBSET Name /\ prober.released \in SUBSET Name
                BY <1>1 DEF Probers
            <4> QED BY <4>1
        <3>2. prober.candidates = c
            BY <3>1
        <3>3. prober' = [[pc |-> p, candidates |-> c, released |-> rl]
                           EXCEPT !.pc = "release", !.candidates = c \ lost]
            BY <2>2, <3>1, <3>2
        <3>4. prober' = [pc |-> "release", candidates |-> c \ lost, released |-> rl]
            BY <3>3, ProberMoved
        <3> QED BY <3>1, <3>4 DEF Probers
    <2> QED BY <1>3, <1>5, <2>3 DEF SweepProbes
<1>6. CASE SweepReleases
    <2>1. \E lifted \in SUBSET prober.candidates :
             prober' = IF lifted = {} THEN IdleProber
                       ELSE [pc |-> "request", candidates |-> {}, released |-> lifted]
        BY <1>6 DEF SweepReleases
    <2>2. prober' \in Probers
        BY <1>1, <1>2, <2>1, SMTT(60) DEF Probers
    <2> QED BY <1>3, <1>6, <2>2 DEF SweepReleases
<1>7. CASE SweepRequests
    <2>1. PICK n \in prober.released :
             /\ Request(n) \/ UNCHANGED <<queue, queued, wake>>
             /\ prober' = IF prober.released = {n} THEN IdleProber
                          ELSE [prober EXCEPT !.released = prober.released \ {n}]
        BY <1>7 DEF SweepRequests
    <2>2. prober' \in Probers
        BY <1>1, <1>2, <2>1 DEF Probers
    <2>3. n \in Name
        BY <1>1, <2>1 DEF Probers
    <2>4. UNCHANGED <<inflight, inflightIdentifiers, worker, job>>
        BY <1>7 DEF SweepRequests
    <2>5. CASE Request(n)
        BY <1>1, <2>2, <2>3, <2>4, <2>5, RequestKeepsOrders DEF Probers
    <2>6. CASE UNCHANGED <<queue, queued, wake>>
        BY <1>3, <2>2, <2>4, <2>6
    <2> QED BY <2>1, <2>5, <2>6
<1> QED BY <1>4, <1>5, <1>6, <1>7 DEF Prober

\* The clients' steps keep the invariant: at most they ask for a name.
LEMMA ClientsKeep ==
    ASSUME OrdersInv, Clients
    PROVE  OrdersInv'
<1>1. UNCHANGED <<inflight, inflightIdentifiers, worker, job, prober, renewer>>
    BY DEF Clients
<1>2. (\E n \in Name : Request(n)) \/ UNCHANGED <<queue, queued, wake>>
    <2>1. PICK k \in Conn : (\E n \in Name : GetCertificate(k, n)) \/ HandshakeStep(k) \/ ClientGone(k)
        BY DEF Clients
    <2>2. ASSUME NEW n \in Name, GetCertificate(k, n)
          PROVE  Request(n) \/ UNCHANGED <<queue, queued, wake>>
        BY <2>2 DEF GetCertificate
    <2>3. CASE HandshakeStep(k)
        BY <2>3 DEF HandshakeStep, preflightTrigger, ClaimSlot, FilterMates, HandshakePays,
               HandshakeAnswered, WaiterReturns
    <2>4. CASE ClientGone(k)
        BY <2>4 DEF ClientGone
    <2> QED BY <2>1, <2>2, <2>3, <2>4
<1>3. prober \in Probers /\ RenewerShape(renewer)
    BY DEF OrdersInv, WorkInv, Probers
<1>4. ASSUME NEW n \in Name, Request(n) PROVE OrdersInv'
    BY <1>1, <1>3, <1>4, RequestKeepsOrders DEF Probers
<1>5. CASE UNCHANGED <<queue, queued, wake>>
    BY <1>1, <1>3, <1>5, OrdersStay
<1> QED BY <1>2, <1>4, <1>5

\* Every step of the certificate system keeps the invariant.
LEMMA OrdersStep ==
    ASSUME OrdersInv, [Next]_vars
    PROVE  OrdersInv'
<1>0. prober \in Probers /\ RenewerShape(renewer)
    BY DEF OrdersInv, WorkInv, Probers
<1>1. CASE Issuer
    <2>1. UNCHANGED renewer
        BY <1>1 DEF Issuer
    <2>2. \/ WorkerWakes \/ nextBatch
          \/ \E j \in Job : \/ WorkerSpawns(j) \/ issue(j) \/ OrderAnswered(j) \/ finishBatch(j)
                            \/ releaseIdentifiers(j)
        BY <1>1 DEF Issuer, JobStep
    <2>3. ASSUME NEW j \in Job,
                 \/ WorkerSpawns(j) \/ issue(j) \/ OrderAnswered(j) \/ finishBatch(j)
                 \/ releaseIdentifiers(j)
          PROVE  OrdersInv'
        BY <2>1, <2>3, WorkerSpawnsKeeps, IssueKeeps, OrderAnsweredKeeps, FinishBatchKeeps,
           ReleaseIdentifiersKeeps
    <2> QED BY <2>1, <2>2, <2>3, WorkerWakesKeeps, NextBatchKeeps
<1>2. CASE Prober
    BY <1>2, ProberKeeps
<1>3. CASE Renewer
    BY <1>3, RenewerKeeps DEF Renewer
<1>4. CASE Clients
    BY <1>4, ClientsKeep
<1>5. CASE \E i \in Identifier : HoldElapses(i)
    <2>1. UNCHANGED <<queue, queued, inflight, inflightIdentifiers, wake, worker, job, prober, renewer>>
        BY <1>5 DEF HoldElapses, issuerVars
    <2> QED BY <1>0, <2>1, OrdersStay
<1>6. ASSUME NEW n \in Name, Poll(n) \/ Retry(n) PROVE OrdersInv'
    <2>1. UNCHANGED <<inflight, inflightIdentifiers, worker, job, prober, renewer>>
        BY <1>6 DEF Poll, Retry
    <2>2. Request(n) \/ Enqueue(n) \/ UNCHANGED <<queue, queued, wake>>
        BY <1>6 DEF Poll, Retry
    <2>3. CASE Request(n) \/ Enqueue(n)
        BY <1>0, <2>1, <2>3, RequestKeepsOrders DEF Probers
    <2>4. CASE UNCHANGED <<queue, queued, wake>>
        BY <1>0, <2>1, <2>4, OrdersStay
    <2> QED BY <2>2, <2>3, <2>4
<1>7. CASE Change
    <2>1. UNCHANGED <<queue, queued, inflight, inflightIdentifiers, wake, worker, job, prober, renewer>>
        BY <1>7 DEF Change, issuerVars
    <2> QED BY <1>0, <2>1, OrdersStay
<1>8. CASE UNCHANGED vars
    <2>1. UNCHANGED <<queue, queued, inflight, inflightIdentifiers, wake, worker, job, prober, renewer>>
        BY <1>8 DEF vars, issuerVars
    <2> QED BY <1>0, <2>1, OrdersStay
<1> QED BY <1>1, <1>2, <1>3, <1>4, <1>5, <1>6, <1>7, <1>8 DEF Next

\* The invariant holds at the start: nothing is asked for and nothing is held.
LEMMA OrdersStart ==
    ASSUME Init
    PROVE  OrdersInv
<1>1. /\ queue = <<>> /\ queued = {} /\ inflight = {} /\ inflightIdentifiers = {}
      /\ worker = Asleep /\ job = [j \in Job |-> IdleJob] /\ prober = IdleProber
      /\ renewer = IdleRenewer
    BY DEF Init, IssuerInit
<1>2. /\ IdleJob.pc = "idle" /\ IdleJob.batch = {} /\ IdleJob.orders = {}
      /\ IdleJob.order = NoOrder /\ IdleJob.survivors = {}
      /\ IdleJob = [pc |-> IdleJob.pc, batch |-> IdleJob.batch, orders |-> IdleJob.orders,
                    order |-> IdleJob.order, survivors |-> IdleJob.survivors]
    BY DEF IdleJob
<1>3. JobShape(IdleJob)
    <2>1. OrderShape(NoOrder)
        BY EmptyBatch DEF OrderShape, NoOrder
    <2> QED BY <1>2, <2>1, EmptyBatch DEF JobShape, Ordering
<1>4. Held(IdleJob) = {} /\ WildsOf(IdleJob) = {}
    BY <1>2 DEF Held, WildsOf, OrdersOf, Ordering
<1>5. renewer.topped = {} /\ Names(worker.batch) = {} /\ \A j \in Job : job[j] = IdleJob
    BY <1>1 DEF IdleRenewer, Asleep, Names
<1>6. WorkInv
    BY <1>1, <1>3, EmptyBatch, SMTT(60) DEF WorkInv, Asleep, IdleProber, IdleRenewer, RenewerShape
<1>7. QueueInv
    BY <1>1, SMTT(60) DEF QueueInv, DistinctQueue
<1>8. HeldInv
    BY <1>1, <1>4, <1>5 DEF HeldInv
<1>9. WildInv
    BY <1>1, <1>4, <1>5 DEF WildInv
<1> QED BY <1>6, <1>7, <1>8, <1>9 DEF OrdersInv

\* What the invariant says of the queue, the marks and the wildcards.
LEMMA OrdersAccounted ==
    ASSUME OrdersInv
    PROVE  NamesAccounted
<1>1. \A j \in Job : JobNames(j) = Held(job[j])
    BY DEF JobNames, Held
<1>2. \A j \in Job : JobOrders(j) = OrdersOf(job[j])
    BY DEF JobOrders, OrdersOf, Ordering
<1>3. InflightAccounted
    <2> DEFINE holder == [j \in Job |-> JobNames(j)]
    <2>1. Range(holder) = {Held(job[j]) : j \in Job} /\ \A j \in Job : holder[j] = Held(job[j])
        BY <1>1 DEF Range
    <2> HIDE DEF holder
    <2>2. /\ inflight = Names(worker.batch) \cup (UNION Range(holder)) \cup renewer.topped
          /\ \A j \in Job : /\ holder[j] \cap (Names(worker.batch) \cup renewer.topped) = {}
                            /\ \A l \in Job \ {j} : holder[j] \cap holder[l] = {}
          /\ Names(worker.batch) \cap renewer.topped = {}
        <3>1. UNION Range(holder) = UNION {Held(job[j]) : j \in Job}
            BY <2>1
        <3>2. /\ inflight = Names(worker.batch) \cup renewer.topped \cup UNION {Held(job[j]) : j \in Job}
              /\ Names(worker.batch) \cap renewer.topped = {}
              /\ \A j \in Job : Held(job[j]) \cap (Names(worker.batch) \cup renewer.topped) = {}
              /\ \A j, l \in Job : j # l => Held(job[j]) \cap Held(job[l]) = {}
            BY DEF OrdersInv, HeldInv
        <3>3. \A j \in Job : /\ holder[j] \cap (Names(worker.batch) \cup renewer.topped) = {}
                              /\ \A l \in Job \ {j} : holder[j] \cap holder[l] = {}
            BY <2>1, <3>2
        <3>4. inflight = Names(worker.batch) \cup (UNION Range(holder)) \cup renewer.topped
            <4> DEFINE A == Names(worker.batch)
                       H == UNION {Held(job[j]) : j \in Job}
                       R == UNION Range(holder)
            <4>1. inflight = A \cup renewer.topped \cup H /\ R = H
                BY <3>1, <3>2
            <4> HIDE DEF A, H, R
            <4>2. inflight = A \cup R \cup renewer.topped
                BY <4>1
            <4> QED BY <4>2 DEF A, R
        <3> QED BY <3>2, <3>3, <3>4
    <2> QED BY <2>2 DEF InflightAccounted, holder
<1>4. NoStrandedRequest
    <2>1. queue \in Seq(Requests) /\ QueueInv
        BY DEF OrdersInv, WorkInv
    <2>2. Cardinality(queued) = Len(queue)
        <3> DEFINE n == Len(queue)
                   at == [p \in 1 .. n |-> queue[p].name]
        <3>1. n \in Nat /\ DOMAIN queue = 1 .. n
            BY <2>1, SMTT(60)
        <3> HIDE DEF n
        <3>2. /\ at \in [1 .. n -> queued] /\ \A m \in queued : \E p \in 1 .. n : at[p] = m
              /\ \A p, q \in 1 .. n : at[p] = at[q] => p = q
            BY <2>1, <3>1 DEF QueueInv, DistinctQueue
        <3>3. at \in Surjection(1 .. n, queued) /\ at \in Injection(1 .. n, queued)
            <4>1. DOMAIN at = 1 .. n
                OBVIOUS
            <4> HIDE DEF at
            <4> QED BY <3>2, <4>1 DEF Surjection, Injection, IsInjective
        <3> HIDE DEF at
        <3>4. IsFiniteSet(1 .. n) /\ Cardinality(1 .. n) = n
            BY <3>1, FS_Interval, SMTT(60)
        <3> QED BY <3>3, <3>4, FS_Surjection DEF n
    <2> QED BY <2>1, <2>2 DEF QueueInv, NoStrandedRequest
<1>5. OneWildcardOrder
    <2>1. \A j \in Job : {i \in UNION {o.ids : o \in JobOrders(j)} : IsWild(i)} = WildsOf(job[j])
        BY <1>2 DEF WildsOf
    <2> QED BY <2>1, SMTT(60) DEF OrdersInv, WildInv, OneWildcardOrder
<1> QED BY <1>3, <1>4, <1>5 DEF NamesAccounted

\* Every name to be ordered is queued, or held by one party; every wildcard in
\* flight is one order's; and somebody will come for what is queued
\* (Request, nextBatch, takePending, planOrders, finishBatch).
THEOREM NamesStayAccounted == Spec => []NamesAccounted
<1>1. Init => OrdersInv
    BY OrdersStart
<1>2. OrdersInv /\ [Next]_vars => OrdersInv'
    BY OrdersStep
<1>3. OrdersInv => NamesAccounted
    BY OrdersAccounted
<1> QED BY <1>1, <1>2, <1>3, PTL DEF Spec

-----------------------------------------------------------------------------
(***************************************************************************)
(* The handshakes' slots.                                                  *)
(***************************************************************************)
\* D is C but for handshake k, which is at p, for name u, with key v.
Moved(C, D, k, p, u, v) ==
    /\ D = [l \in Conn |-> D[l]] /\ \A l \in Conn \ {k} : D[l] = C[l]
    /\ D[k].pc = p /\ D[k].name = u /\ D[k].key = v
    /\ {"pc", "name", "key"} \subseteq DOMAIN D[k]

\* Setting one field of a handshake.
LEMMA FieldSet ==
    ASSUME NEW C, NEW k \in Conn, NEW p, NEW u, NEW v, Moved(C, C, k, p, u, v), NEW x
    PROVE  /\ Moved(C, [C EXCEPT ![k].pc = x], k, x, u, v)
           /\ Moved(C, [C EXCEPT ![k].name = x], k, p, x, v)
           /\ Moved(C, [C EXCEPT ![k].key = x], k, p, u, x)
           /\ Moved(C, [C EXCEPT ![k].batch = x], k, p, u, v)
           /\ Moved(C, [C EXCEPT ![k].ids = x], k, p, u, v)
           /\ Moved(C, [C EXCEPT ![k].dir = x], k, p, u, v)
<1>1. Moved(C, [C EXCEPT ![k].pc = x], k, x, u, v)
    BY DEF Moved
<1>2. Moved(C, [C EXCEPT ![k].name = x], k, p, x, v)
    BY DEF Moved
<1>3. Moved(C, [C EXCEPT ![k].key = x], k, p, u, x)
    BY DEF Moved
<1>4. Moved(C, [C EXCEPT ![k].batch = x], k, p, u, v)
    BY DEF Moved
<1>5. Moved(C, [C EXCEPT ![k].ids = x], k, p, u, v)
    BY DEF Moved
<1>6. Moved(C, [C EXCEPT ![k].dir = x], k, p, u, v)
    BY DEF Moved
<1> QED BY <1>1, <1>2, <1>3, <1>4, <1>5, <1>6

\* Two moves of a handshake are one.
LEMMA MovedTwice ==
    ASSUME NEW C, NEW D, NEW E, NEW k, NEW p, NEW u, NEW v, NEW q, NEW y, NEW z,
           Moved(C, D, k, p, u, v), Moved(D, E, k, q, y, z)
    PROVE  Moved(C, E, k, q, y, z) /\ Moved(D, D, k, p, u, v)
    BY DEF Moved

\* The moves of a handshake that set several fields.
LEMMA FieldsSet ==
    ASSUME NEW C, NEW k \in Conn, NEW p, NEW u, NEW v, Moved(C, C, k, p, u, v),
           NEW w, NEW x, NEW y
    PROVE  /\ Moved(C, [C EXCEPT ![k].pc = w, ![k].name = x], k, w, x, v)
           /\ Moved(C, [C EXCEPT ![k].pc = w, ![k].key = x], k, w, u, x)
           /\ Moved(C, [C EXCEPT ![k].pc = w, ![k].dir = x], k, w, u, v)
           /\ Moved(C, [C EXCEPT ![k].pc = w, ![k].key = x, ![k].batch = y], k, w, u, x)
           /\ Moved(C, [C EXCEPT ![k].pc = w, ![k].batch = x, ![k].ids = y], k, w, u, v)
<1> DEFINE D == [C EXCEPT ![k].pc = w]
<1>1. Moved(C, D, k, w, u, v) /\ Moved(D, D, k, w, u, v)
    <2>1. Moved(C, D, k, w, u, v)
        BY FieldSet
    <2> HIDE DEF D
    <2> QED BY <2>1 DEF Moved
<1>2. /\ [C EXCEPT ![k].pc = w, ![k].name = x] = [D EXCEPT ![k].name = x]
      /\ [C EXCEPT ![k].pc = w, ![k].key = x] = [D EXCEPT ![k].key = x]
      /\ [C EXCEPT ![k].pc = w, ![k].dir = x] = [D EXCEPT ![k].dir = x]
      /\ [C EXCEPT ![k].pc = w, ![k].key = x, ![k].batch = y]
           = [[D EXCEPT ![k].key = x] EXCEPT ![k].batch = y]
      /\ [C EXCEPT ![k].pc = w, ![k].batch = x, ![k].ids = y]
           = [[D EXCEPT ![k].batch = x] EXCEPT ![k].ids = y]
    OBVIOUS
<1> HIDE DEF D
<1> DEFINE K == [D EXCEPT ![k].key = x]
           B == [D EXCEPT ![k].batch = x]
<1>3. /\ Moved(D, [D EXCEPT ![k].name = x], k, w, x, v)
      /\ Moved(D, K, k, w, u, x)
      /\ Moved(D, B, k, w, u, v)
      /\ Moved(D, [D EXCEPT ![k].dir = x], k, w, u, v)
    BY <1>1, FieldSet
<1> HIDE DEF K, B
<1>4. Moved(K, K, k, w, u, x) /\ Moved(B, B, k, w, u, v)
    BY <1>1, <1>3 DEF Moved
<1>5. /\ Moved(K, [K EXCEPT ![k].batch = y], k, w, u, x)
      /\ Moved(B, [B EXCEPT ![k].ids = y], k, w, u, v)
    BY <1>4, FieldSet
<1> QED BY <1>1, <1>2, <1>3, <1>5, MovedTwice, SMTT(60) DEF K, B

-----------------------------------------------------------------------------
(***************************************************************************)
(* A handshake holds its service's slot from the claim to the release.     *)
(***************************************************************************)
Holding == {"filter", "token", "placed"}

Slot == Service \cup {None}

SlotInv ==
    /\ conn = [k \in Conn |-> conn[k]]
    /\ provisioning \in [Slot -> Conn \cup {None}]
    /\ \A k \in Conn :
          /\ {"pc", "name", "key"} \subseteq DOMAIN conn[k]
          /\ conn[k].key \in Slot
          /\ conn[k].pc # "idle" => conn[k].name \in Name
          /\ conn[k].pc \in Holding => provisioning[conn[k].key] = k
          /\ conn[k].pc = "wait" => provisioning[conn[k].key] # None
    /\ \A s \in Slot : provisioning[s] # None =>
          conn[provisioning[s]].key = s /\ conn[provisioning[s]].pc \in Holding

\* A handshake where it stands.
LEMMA Standing ==
    ASSUME SlotInv, NEW k \in Conn
    PROVE  Moved(conn, conn, k, conn[k].pc, conn[k].name, conn[k].key)
    BY DEF SlotInv, Moved

\* A handshake that holds no slot before or after its step, or keeps the one it
\* has, keeps the invariant.
LEMMA StepKeepsSlots ==
    ASSUME SlotInv, NEW k \in Conn, NEW p, NEW u, NEW v \in Slot,
           Moved(conn, conn', k, p, u, v), provisioning' = provisioning,
           p # "idle" => u \in Name,
           \/ conn[k].pc \notin Holding /\ p \notin Holding /\ (p = "wait" => provisioning[v] # None)
           \/ conn[k].pc \in Holding /\ p \in Holding /\ v = conn[k].key
    PROVE  SlotInv'
<1>1. /\ conn' = [l \in Conn |-> conn'[l]] /\ \A l \in Conn \ {k} : conn'[l] = conn[l]
      /\ conn'[k].pc = p /\ conn'[k].name = u /\ conn'[k].key = v
      /\ {"pc", "name", "key"} \subseteq DOMAIN conn'[k]
    BY DEF Moved
<1>2. ASSUME NEW l \in Conn
      PROVE  /\ {"pc", "name", "key"} \subseteq DOMAIN conn'[l]
             /\ conn'[l].key \in Slot
             /\ conn'[l].pc # "idle" => conn'[l].name \in Name
             /\ conn'[l].pc \in Holding => provisioning[conn'[l].key] = l
             /\ conn'[l].pc = "wait" => provisioning[conn'[l].key] # None
    <2>1. CASE l = k
        BY <1>1, <2>1 DEF SlotInv, Holding
    <2>2. CASE l # k
        BY <1>1, <2>2, SMTT(60) DEF SlotInv
    <2> QED BY <2>1, <2>2
<1>3. ASSUME NEW s \in Slot, provisioning[s] # None
      PROVE  conn'[provisioning[s]].key = s /\ conn'[provisioning[s]].pc \in Holding
    <2>1. /\ provisioning[s] \in Conn /\ conn[provisioning[s]].key = s
          /\ conn[provisioning[s]].pc \in Holding
        BY <1>3, SMTT(60) DEF SlotInv
    <2>2. CASE provisioning[s] = k
        BY <1>1, <2>1, <2>2
    <2>3. CASE provisioning[s] # k
        BY <1>1, <2>1, <2>3
    <2> QED BY <2>2, <2>3
<1> QED BY <1>1, <1>2, <1>3 DEF SlotInv

\* Claiming a free slot keeps the invariant.
LEMMA ClaimKeepsSlots ==
    ASSUME SlotInv, NEW k \in Conn, NEW s \in Slot, provisioning[s] = None,
           conn[k].pc = "claim", Moved(conn, conn', k, "filter", conn[k].name, s),
           provisioning' = [provisioning EXCEPT ![s] = k]
    PROVE  SlotInv'
<1>1. /\ conn' = [l \in Conn |-> conn'[l]] /\ \A l \in Conn \ {k} : conn'[l] = conn[l]
      /\ conn'[k].pc = "filter" /\ conn'[k].name = conn[k].name /\ conn'[k].key = s
      /\ {"pc", "name", "key"} \subseteq DOMAIN conn'[k]
    BY DEF Moved
<1>2. /\ provisioning' \in [Slot -> Conn \cup {None}] /\ provisioning'[s] = k
      /\ \A t \in Slot \ {s} : provisioning'[t] = provisioning[t]
    BY SMTT(60) DEF SlotInv
<1>3. ASSUME NEW l \in Conn
      PROVE  /\ {"pc", "name", "key"} \subseteq DOMAIN conn'[l]
             /\ conn'[l].key \in Slot
             /\ conn'[l].pc # "idle" => conn'[l].name \in Name
             /\ conn'[l].pc \in Holding => provisioning'[conn'[l].key] = l
             /\ conn'[l].pc = "wait" => provisioning'[conn'[l].key] # None
    <2>1. CASE l = k
        BY <1>1, <1>2, <2>1 DEF SlotInv
    <2>2. CASE l # k
        <3>1. conn'[l] = conn[l] /\ conn[l].key \in Slot
            BY <1>1, <2>2 DEF SlotInv
        <3>2. CASE conn[l].key = s
            BY <1>2, <3>1, <3>2, ConnAssumption, SMTT(60) DEF SlotInv
        <3>3. CASE conn[l].key # s
            BY <1>2, <3>1, <3>3, SMTT(60) DEF SlotInv
        <3> QED BY <3>2, <3>3
    <2> QED BY <2>1, <2>2
<1>4. ASSUME NEW t \in Slot, provisioning'[t] # None
      PROVE  conn'[provisioning'[t]].key = t /\ conn'[provisioning'[t]].pc \in Holding
    <2>1. CASE t = s
        BY <1>1, <1>2, <2>1 DEF Holding
    <2>2. CASE t # s
        <3>0. provisioning'[t] = provisioning[t] /\ provisioning[t] # None
            BY <1>2, <1>4, <2>2
        <3>a. /\ \A u \in Slot : provisioning[u] \in Conn \cup {None}
              /\ \A u \in Slot : provisioning[u] # None =>
                    conn[provisioning[u]].key = u /\ conn[provisioning[u]].pc \in Holding
            BY DEF SlotInv
        <3>1. /\ provisioning'[t] = provisioning[t] /\ provisioning[t] \in Conn
              /\ conn[provisioning[t]].key = t /\ conn[provisioning[t]].pc \in Holding
            BY <3>0, <3>a
        <3>2. provisioning[t] # k
            BY <3>1 DEF Holding
        <3> QED BY <1>1, <3>1, <3>2
    <2> QED BY <2>1, <2>2
<1> QED BY <1>1, <1>2, <1>3, <1>4 DEF SlotInv

\* Releasing a slot wakes everybody who waits for it and keeps the invariant.
LEMMA ReleaseKeepsSlots ==
    ASSUME SlotInv, NEW k \in Conn, conn[k].pc \in Holding, ReleaseSlot(k)
    PROVE  SlotInv'
<1> DEFINE s == conn[k].key
<1>1. s \in Slot /\ provisioning[s] = k
    BY DEF SlotInv
<1>2. /\ provisioning' \in [Slot -> Conn \cup {None}] /\ provisioning'[s] = None
      /\ \A t \in Slot \ {s} : provisioning'[t] = provisioning[t]
    BY <1>1, SMTT(60) DEF SlotInv, ReleaseSlot
<1>3. conn' = [l \in Conn |-> conn'[l]] /\ conn'[k] = IdleConn
    BY DEF ReleaseSlot
<1>4. ASSUME NEW l \in Conn \ {k}
      PROVE  /\ conn'[l].name = conn[l].name /\ conn'[l].key = conn[l].key
             /\ {"pc", "name", "key"} \subseteq DOMAIN conn'[l]
             /\ IF conn[l].pc = "wait" /\ conn[l].key = s THEN conn'[l].pc = "woken"
                ELSE conn'[l].pc = conn[l].pc
    BY DEF ReleaseSlot, SlotInv
<1>5. IdleConn.pc = "idle" /\ IdleConn.key = None /\ {"pc", "name", "key"} \subseteq DOMAIN IdleConn
    BY DEF IdleConn
<1>6. \A l \in Conn \ {k} : conn[l].pc \in Holding => conn[l].key # s
    BY <1>1 DEF SlotInv
<1> HIDE DEF s
<1>7. ASSUME NEW l \in Conn
      PROVE  /\ {"pc", "name", "key"} \subseteq DOMAIN conn'[l]
             /\ conn'[l].key \in Slot
             /\ conn'[l].pc # "idle" => conn'[l].name \in Name
             /\ conn'[l].pc \in Holding => provisioning'[conn'[l].key] = l
             /\ conn'[l].pc = "wait" => provisioning'[conn'[l].key] # None
    <2>1. CASE l = k
        BY <1>3, <1>5, <2>1 DEF Holding, Slot
    <2>2. CASE l # k /\ conn[l].pc = "wait" /\ conn[l].key = s
        BY <1>4, <2>2 DEF SlotInv, Holding
    <2>3. CASE l # k /\ ~(conn[l].pc = "wait" /\ conn[l].key = s)
        <3>1. /\ conn'[l].name = conn[l].name /\ conn'[l].key = conn[l].key
              /\ conn'[l].pc = conn[l].pc /\ {"pc", "name", "key"} \subseteq DOMAIN conn'[l]
            BY <1>4, <2>3
        <3>2. conn[l].pc \in Holding \/ conn[l].pc = "wait" =>
                 provisioning'[conn[l].key] = provisioning[conn[l].key]
            BY <1>2, <1>6, <2>3 DEF SlotInv
        <3> QED BY <3>1, <3>2, SMTT(60) DEF SlotInv
    <2> QED BY <2>1, <2>2, <2>3
<1>8. ASSUME NEW t \in Slot, provisioning'[t] # None
      PROVE  conn'[provisioning'[t]].key = t /\ conn'[provisioning'[t]].pc \in Holding
    <2>1. t # s
        BY <1>2, <1>8
    <2>2. /\ provisioning'[t] = provisioning[t] /\ provisioning[t] \in Conn
          /\ conn[provisioning[t]].key = t /\ conn[provisioning[t]].pc \in Holding
        BY <1>2, <1>8, <2>1, SMTT(60) DEF SlotInv
    <2>3. provisioning[t] # k
        BY <2>1, <2>2 DEF s
    <2> QED BY <1>4, <2>2, <2>3 DEF Holding
<1> QED BY <1>2, <1>3, <1>7, <1>8 DEF SlotInv

\* A handshake that ends without a slot keeps the invariant.
LEMMA EndKeepsSlots ==
    ASSUME SlotInv, NEW k \in Conn, conn[k].pc \notin Holding,
           conn' = [conn EXCEPT ![k] = IdleConn], provisioning' = provisioning
    PROVE  SlotInv'
<1>1. /\ conn' = [l \in Conn |-> conn'[l]] /\ conn'[k] = IdleConn
      /\ \A l \in Conn \ {k} : conn'[l] = conn[l]
    BY DEF SlotInv
<1>2. /\ IdleConn.pc = "idle" /\ IdleConn.name = None /\ IdleConn.key = None
      /\ {"pc", "name", "key"} \subseteq DOMAIN IdleConn
    BY DEF IdleConn
<1>3. Moved(conn, conn', k, "idle", None, None)
    BY <1>1, <1>2 DEF Moved
<1>4. None \in Slot /\ "idle" \notin Holding /\ "idle" # "wait"
    BY DEF Slot, Holding
<1> QED BY <1>3, <1>4, StepKeepsSlots

\* The clients' steps keep the slots with those who hold them.
LEMMA ClientsKeepSlots ==
    ASSUME SlotInv, NEW k \in Conn,
           (\E n \in Name : GetCertificate(k, n)) \/ HandshakeStep(k) \/ ClientGone(k)
    PROVE  SlotInv'
<1>0. /\ Moved(conn, conn, k, conn[k].pc, conn[k].name, conn[k].key)
      /\ conn[k].key \in Slot /\ (conn[k].pc # "idle" => conn[k].name \in Name)
    BY Standing DEF SlotInv
<1>a. "probe" \notin Holding /\ "woken" \notin Holding /\ "wait" \notin Holding
    BY DEF Holding
<1>1. ASSUME NEW n \in Name, GetCertificate(k, n) PROVE SlotInv'
    <2>1. conn[k].pc = "idle" /\ provisioning' = provisioning
        BY <1>1 DEF GetCertificate
    <2>2. CASE conn' = conn
        BY <2>1, <2>2 DEF SlotInv
    <2>3. CASE conn' = [conn EXCEPT ![k].pc = "probe", ![k].name = n]
        <3>1. Moved(conn, conn', k, "probe", n, conn[k].key)
            BY <1>0, <2>3, FieldsSet
        <3> QED BY <1>0, <2>1, <3>1, StepKeepsSlots DEF Holding
    <2> QED BY <1>1, <2>2, <2>3 DEF GetCertificate
<1>2. CASE preflightTrigger(k)
    <2>1. conn[k].pc = "probe" /\ provisioning' = provisioning
        BY <1>2 DEF preflightTrigger
    <2>2. \/ conn' = [conn EXCEPT ![k].pc = "claim"]
          \/ conn' = [conn EXCEPT ![k] = IdleConn]
        BY <1>2 DEF preflightTrigger
    <2>3. CASE conn' = [conn EXCEPT ![k].pc = "claim"]
        <3>1. Moved(conn, conn', k, "claim", conn[k].name, conn[k].key)
            BY <1>0, <2>3, FieldSet
        <3> QED BY <1>0, <2>1, <3>1, StepKeepsSlots DEF Holding
    <2>4. CASE conn' = [conn EXCEPT ![k] = IdleConn]
        BY <2>1, <2>4, <1>a, EndKeepsSlots
    <2> QED BY <2>2, <2>3, <2>4
<1>3. CASE ClaimSlot(k)
    <2> DEFINE key == RegisteredService(conn[k].name)
    <2>1. conn[k].pc = "claim" /\ conn[k].name \in Name
        BY <1>0, <1>3 DEF ClaimSlot
    <2>2. key \in Slot
        BY <2>1, OwnerAssumption DEF RegisteredService, Slot
    <2>3. CASE provisioning[key] # None
        <3>1. conn' = [conn EXCEPT ![k].pc = "wait", ![k].key = key] /\ provisioning' = provisioning
            BY <1>3, <2>3 DEF ClaimSlot
        <3> HIDE DEF key
        <3>2. Moved(conn, conn', k, "wait", conn[k].name, key)
            BY <1>0, <3>1, FieldsSet
        <3>3. "claim" \notin Holding
            BY DEF Holding
        <3> QED BY <2>1, <2>2, <2>3, <3>1, <3>2, <3>3, <1>a, StepKeepsSlots
    <2>4. CASE provisioning[key] = None
        <3>1. PICK batch : conn' = [conn EXCEPT ![k].pc = "filter", ![k].key = key, ![k].batch = batch]
            BY <1>3, <2>4 DEF ClaimSlot
        <3>3. provisioning' = [provisioning EXCEPT ![key] = k]
            BY <1>3, <2>4 DEF ClaimSlot
        <3> HIDE DEF key
        <3>2. Moved(conn, conn', k, "filter", conn[k].name, key)
            BY <1>0, <3>1, FieldsSet
        <3> QED BY <2>1, <2>2, <2>4, <3>2, <3>3, ClaimKeepsSlots
    <2> QED BY <2>3, <2>4
<1>4. CASE FilterMates(k)
    <2>1. conn[k].pc = "filter" /\ provisioning' = provisioning
        BY <1>4 DEF FilterMates
    <2>2. PICK batch, ids : conn' = [conn EXCEPT ![k].pc = "token", ![k].batch = batch, ![k].ids = ids]
        BY <1>4 DEF FilterMates
    <2>3. Moved(conn, conn', k, "token", conn[k].name, conn[k].key)
        BY <1>0, <2>2, FieldsSet
    <2> QED BY <1>0, <2>1, <2>3, StepKeepsSlots DEF Holding
<1>5. CASE HandshakePays(k)
    <2>1. conn[k].pc = "token" /\ provisioning' = provisioning
        BY <1>5 DEF HandshakePays
    <2>2. PICK dir : conn' = [conn EXCEPT ![k].pc = "placed", ![k].dir = dir]
        BY <1>5 DEF HandshakePays
    <2>3. Moved(conn, conn', k, "placed", conn[k].name, conn[k].key)
        BY <1>0, <2>2, FieldsSet
    <2> QED BY <1>0, <2>1, <2>3, StepKeepsSlots DEF Holding
<1>6. CASE HandshakeAnswered(k)
    <2>1. conn[k].pc = "placed" /\ ReleaseSlot(k)
        BY <1>6 DEF HandshakeAnswered
    <2> QED BY <2>1, ReleaseKeepsSlots DEF Holding
<1>7. CASE WaiterReturns(k)
    <2>1. /\ conn[k].pc = "woken" /\ provisioning' = provisioning
          /\ conn' = [conn EXCEPT ![k] = IdleConn]
        BY <1>7 DEF WaiterReturns
    <2> QED BY <2>1, <1>a, EndKeepsSlots
<1>8. CASE ClientGone(k)
    <2>1. CASE conn[k].pc = "token" /\ ReleaseSlot(k)
        BY <2>1, ReleaseKeepsSlots DEF Holding
    <2>2. CASE /\ conn[k].pc = "wait" /\ provisioning' = provisioning
               /\ conn' = [conn EXCEPT ![k] = IdleConn]
        BY <2>2, <1>a, EndKeepsSlots
    <2> QED BY <1>8, <2>1, <2>2 DEF ClientGone
<1> QED BY <1>1, <1>2, <1>3, <1>4, <1>5, <1>6, <1>7, <1>8 DEF HandshakeStep

\* A slot is held by a handshake that will release it, and whoever waits, waits for
\* such a slot (provisionCertificate).
THEOREM NoWaiterOrphaned == Spec => []NoOrphanWaiter
<1>1. Init => SlotInv
    <2> SUFFICES ASSUME Init PROVE SlotInv
        OBVIOUS
    <2>1. /\ conn = [k \in Conn |-> IdleConn]
          /\ provisioning = [s \in Slot |-> None]
        BY DEF Init, HandshakeInit, Slot
    <2>2. IdleConn.pc = "idle" /\ IdleConn.key = None /\ {"pc", "name", "key"} \subseteq DOMAIN IdleConn
        BY DEF IdleConn
    <2> QED BY <2>1, <2>2 DEF SlotInv, Holding, Slot
<1>2. SlotInv /\ [Next]_vars => SlotInv'
    <2> SUFFICES ASSUME SlotInv, [Next]_vars PROVE SlotInv'
        OBVIOUS
    <2>1. \/ UNCHANGED <<conn, provisioning>>
          \/ \E k \in Conn : (\E n \in Name : GetCertificate(k, n)) \/ HandshakeStep(k) \/ ClientGone(k)
        BY DEF Next, Issuer, Prober, Renewer, Clients, HoldElapses, Poll, Retry, Change,
               vars, handshakeVars
    <2>2. CASE UNCHANGED <<conn, provisioning>>
        BY <2>2 DEF SlotInv
    <2> QED BY <2>1, <2>2, ClientsKeepSlots
<1>3. SlotInv => NoOrphanWaiter
    BY DEF SlotInv, NoOrphanWaiter, Holding, Slot
<1> QED BY <1>1, <1>2, <1>3, PTL DEF Spec

-----------------------------------------------------------------------------
(***************************************************************************)
(* The maps.                                                               *)
(***************************************************************************)
\* Adopting a certificate, and removing one, keep the maps in agreement.
LEMMA MapsKept ==
    ASSUME MapsAgree
    PROVE  /\ \A ids, dir, by : adoptCertificateAt(ids, dir, by) => MapsAgree'
           /\ \A ids, by : adoptCertificate(ids, by) => MapsAgree'
           /\ \A cert : removeCertificate(cert) => MapsAgree'
           /\ DOMAIN certificates' = DOMAIN certificates /\ domainToCert' = domainToCert => MapsAgree'
<1>1. ASSUME NEW ids, NEW dir, NEW by, adoptCertificateAt(ids, dir, by) PROVE MapsAgree'
    <2>1. DOMAIN certificates' = {ids} \cup DOMAIN certificates
        BY <1>1 DEF adoptCertificateAt
    <2>2. domainToCert' = [i \in DOMAIN domainToCert \cup ids |->
                             IF i \in ids \cup TakenOver(ids, dir) THEN ids ELSE domainToCert[i]]
        BY <1>1 DEF adoptCertificateAt
    <2>3. \A i \in ids \cup TakenOver(ids, dir) : identifiersCover(ids, i)
        BY DEF identifiersCover, TakenOver
    <2>4. ASSUME NEW i \in DOMAIN domainToCert'
          PROVE  domainToCert'[i] \in DOMAIN certificates' /\ identifiersCover(domainToCert'[i], i)
        <3>1. CASE i \in ids \cup TakenOver(ids, dir)
            BY <2>1, <2>2, <2>3, <2>4, <3>1
        <3>2. CASE i \notin ids \cup TakenOver(ids, dir)
            <4>1. i \in DOMAIN domainToCert /\ domainToCert'[i] = domainToCert[i]
                BY <2>2, <2>4, <3>2
            <4> QED BY <2>1, <4>1 DEF MapsAgree
        <3> QED BY <3>1, <3>2
    <2> QED BY <2>4 DEF MapsAgree, identifiersCover, matchesWildcard, IsWild
<1>2. ASSUME NEW cert, removeCertificate(cert) PROVE MapsAgree'
    <2>1. DOMAIN certificates' = DOMAIN certificates \ {cert}
        BY <1>2 DEF removeCertificate, Restrict
    <2>2. \A i \in DOMAIN domainToCert' : /\ i \in DOMAIN domainToCert /\ domainToCert[i] # cert
                                          /\ domainToCert'[i] = domainToCert[i]
        BY <1>2 DEF removeCertificate, Restrict
    <2> QED BY <2>1, <2>2 DEF MapsAgree, identifiersCover, matchesWildcard, IsWild
<1>3. ASSUME DOMAIN certificates' = DOMAIN certificates, domainToCert' = domainToCert PROVE MapsAgree'
    BY <1>3 DEF MapsAgree, identifiersCover, matchesWildcard, IsWild
<1> QED BY <1>1, <1>2, <1>3 DEF adoptCertificate

\* A deploy maps a host only to a certificate that names it.
LEMMA DeployKeepsMaps ==
    ASSUME MapsAgree, NEW n \in Name, Deploy(n)
    PROVE  MapsAgree'
<1>1. certificates' = certificates
    BY DEF Deploy
<1>2. \/ domainToCert' = domainToCert
      \/ \E c \in Covering(n) : domainToCert' = [i \in DOMAIN domainToCert \cup {n} |->
                                                   IF i = n THEN c ELSE domainToCert[i]]
    BY DEF Deploy, RegisterDomain, UnregisterDomain
<1>3. ASSUME NEW c \in Covering(n),
             domainToCert' = [i \in DOMAIN domainToCert \cup {n} |->
                                IF i = n THEN c ELSE domainToCert[i]]
      PROVE  MapsAgree'
    <2>1. c \in DOMAIN certificates /\ identifiersCover(c, n)
        BY <1>3 DEF Covering, identifiersCover
    <2>2. ASSUME NEW i \in DOMAIN domainToCert'
          PROVE  domainToCert'[i] \in DOMAIN certificates /\ identifiersCover(domainToCert'[i], i)
        <3>1. CASE i = n
            BY <1>3, <2>1, <2>2, <3>1
        <3>2. CASE i # n
            <4>1. i \in DOMAIN domainToCert /\ domainToCert'[i] = domainToCert[i]
                BY <1>3, <2>2, <3>2
            <4> QED BY <4>1 DEF MapsAgree
        <3> QED BY <3>1, <3>2
    <2> QED BY <1>1, <2>2 DEF MapsAgree, identifiersCover, matchesWildcard, IsWild
<1> QED BY <1>1, <1>2, <1>3, MapsKept

\* Every step of the system keeps the maps in agreement.
LEMMA MapsStep ==
    ASSUME MapsAgree, [Next]_vars
    PROVE  MapsAgree'
<1> USE MapsKept
<1>1. CASE Issuer
    <2>1. \/ UNCHANGED <<certificates, domainToCert>>
          \/ \E ids, by : adoptCertificate(ids, by)
        BY <1>1 DEF Issuer, JobStep, OrderAnswered
    <2> QED BY <2>1
<1>2. CASE Renewer
    <2>1. \/ UNCHANGED <<certificates, domainToCert>>
          \/ \E ids, dir, by : adoptCertificateAt(ids, dir, by)
          \/ \E cert : removeCertificate(cert)
        BY <1>2 DEF Renewer, RenewerStep, ReconcileStarts, reconcile, FilterMembers,
               topUpBatch, renewPartition, RenewalEnds
    <2> QED BY <2>1
<1>3. CASE Clients
    <2>1. \/ UNCHANGED <<certificates, domainToCert>>
          \/ \E ids, by : adoptCertificate(ids, by)
        BY <1>3 DEF Clients, GetCertificate, HandshakeStep, preflightTrigger, ClaimSlot,
               FilterMates, HandshakePays, HandshakeAnswered, WaiterReturns, ClientGone
    <2> QED BY <2>1
<1>4. CASE Change
    <2>1. \/ UNCHANGED <<certificates, domainToCert>>
          \/ \E n \in Name : Deploy(n)
          \/ \E c \in DOMAIN certificates : Ages(c)
        BY <1>4 DEF Change, Repoint, SetServiceDirectory, Evict
    <2>2. ASSUME NEW c \in DOMAIN certificates, Ages(c)
          PROVE  DOMAIN certificates' = DOMAIN certificates /\ domainToCert' = domainToCert
        BY <2>2 DEF Ages
    <2> QED BY <2>1, <2>2, DeployKeepsMaps
<1>5. CASE \/ Prober \/ (\E i \in Identifier : HoldElapses(i))
           \/ (\E n \in Name : Poll(n) \/ Retry(n)) \/ UNCHANGED vars
    <2>1. UNCHANGED <<certificates, domainToCert>>
        BY <1>5 DEF Prober, HoldElapses, Poll, Retry, vars, managerVars
    <2> QED BY <2>1
<1> QED BY <1>1, <1>2, <1>3, <1>4, <1>5 DEF Next

\* The maps agree in every initial state.
LEMMA MapsStart ==
    ASSUME Init
    PROVE  MapsAgree
<1>1. PICK s \in Setting :
         /\ DOMAIN certificates = DOMAIN s.lives
         /\ domainToCert = [i \in UNION DOMAIN s.lives |-> CHOOSE c \in DOMAIN s.lives : i \in c]
    BY DEF Init
<1>2. ASSUME NEW i \in UNION DOMAIN s.lives
      PROVE  domainToCert[i] \in DOMAIN s.lives /\ i \in domainToCert[i]
    BY <1>1, <1>2
<1> QED BY <1>1, <1>2 DEF MapsAgree, identifiersCover

\* A mapped name always points at a certificate that exists and covers it.
THEOREM MapsAlwaysAgree == Spec => []MapsAgree
<1>1. Init => MapsAgree
    BY MapsStart
<1> QED BY <1>1, MapsStep, PTL DEF Spec

-----------------------------------------------------------------------------
(***************************************************************************)
(* The renewal.                                                            *)
(***************************************************************************)
\* What a renewal adopted stays mapped until it ends.
RenewalInv ==
    /\ {"pc", "adopted"} \subseteq DOMAIN renewer
    /\ renewer.pc \notin {"placed", "finish"} => renewer.adopted = {}
    /\ \A c \in renewer.adopted : c \subseteq DOMAIN domainToCert

\* A renewer with nothing adopted keeps the invariant whatever is removed.
LEMMA NothingAdopted ==
    ASSUME {"pc", "adopted"} \subseteq DOMAIN renewer', renewer'.adopted = {}
    PROVE  RenewalInv'
    BY DEF RenewalInv

\* Going to the next certificate forgets what was adopted.
LEMMA NextCertificateForgets ==
    ASSUME NEW todo, NEW x, NEW y
    PROVE  /\ {"pc", "adopted"} \subseteq DOMAIN NextCertificate(todo)
           /\ NextCertificate(todo).adopted = {}
           /\ {"pc", "adopted"} \subseteq
                DOMAIN [IdleRenewer EXCEPT !.pc = "probe", !.cert = x, !.todo = y]
           /\ [IdleRenewer EXCEPT !.pc = "probe", !.cert = x, !.todo = y].adopted = {}
    BY DEF NextCertificate, IdleRenewer

\* Going to the next part keeps what was adopted.
LEMMA NextPartAdopted ==
    ASSUME NEW r, {"pc", "adopted"} \subseteq DOMAIN r
    PROVE  /\ {"pc", "adopted"} \subseteq DOMAIN NextPart(r)
           /\ NextPart(r).adopted = r.adopted
           /\ NextPart(r).pc \in {"placed", "finish"}
<1>1. CASE r.parts = {}
    BY <1>1 DEF NextPart
<1>2. CASE r.parts # {}
    <2> DEFINE p == CHOOSE p \in r.parts : TRUE
    <2>1. NextPart(r) = [r EXCEPT !.pc = "placed", !.part = p, !.parts = @ \ {p}]
        BY <1>2 DEF NextPart
    <2> HIDE DEF p
    <2> QED BY <2>1
<1> QED BY <1>1, <1>2

\* The answer to a part's order: either the part is adopted, and mapped, or the
\* renewal goes on with what it has.
LEMMA PartitionKeepsAdopted ==
    ASSUME RenewalInv, renewPartition
    PROVE  RenewalInv'
<1> DEFINE ids == renewer.part.ids
<1>1. {"pc", "adopted"} \subseteq DOMAIN renewer /\ \A c \in renewer.adopted : c \subseteq DOMAIN domainToCert
    BY DEF RenewalInv
<1>2. CASE /\ adoptCertificateAt(ids, renewer.part.dir, renewer.part.dir)
           /\ renewer' = NextPart([renewer EXCEPT !.adopted = @ \cup {ids}])
    <2>1. DOMAIN domainToCert' = DOMAIN domainToCert \cup ids
        BY <1>2 DEF adoptCertificateAt
    <2> HIDE DEF ids
    <2> DEFINE r == [renewer EXCEPT !.adopted = @ \cup {ids}]
    <2>2. {"pc", "adopted"} \subseteq DOMAIN r /\ r.adopted = renewer.adopted \cup {ids}
        BY <1>1
    <2>3. renewer' = NextPart(r)
        BY <1>2
    <2> HIDE DEF r
    <2>4. /\ {"pc", "adopted"} \subseteq DOMAIN renewer' /\ renewer'.pc \in {"placed", "finish"}
          /\ renewer'.adopted = renewer.adopted \cup {ids}
        BY <2>2, <2>3, NextPartAdopted
    <2> QED BY <1>1, <2>1, <2>4 DEF RenewalInv
<1>3. CASE /\ domainToCert' = domainToCert
           /\ \/ renewer' = NextPart([renewer EXCEPT !.all = FALSE])
              \/ \E some : renewer' = NextPart([renewer EXCEPT !.all = FALSE, !.parts = some])
    <2>1. PICK r : /\ renewer' = NextPart(r) /\ r.adopted = renewer.adopted
                   /\ {"pc", "adopted"} \subseteq DOMAIN r
        <3> DEFINE s == [renewer EXCEPT !.all = FALSE]
        <3>1. s.adopted = renewer.adopted /\ {"pc", "adopted"} \subseteq DOMAIN s
            BY <1>1
        <3>2. ASSUME NEW some
              PROVE  LET t == [renewer EXCEPT !.all = FALSE, !.parts = some]
                     IN  t.adopted = renewer.adopted /\ {"pc", "adopted"} \subseteq DOMAIN t
            BY <1>1
        <3> QED BY <1>3, <3>1, <3>2
    <2>2. /\ {"pc", "adopted"} \subseteq DOMAIN renewer' /\ renewer'.pc \in {"placed", "finish"}
          /\ renewer'.adopted = renewer.adopted
        BY <2>1, NextPartAdopted
    <2>3. domainToCert' = domainToCert
        BY <1>3
    <2> QED BY <1>1, <2>2, <2>3 DEF RenewalInv
<1> QED BY <1>2, <1>3 DEF renewPartition

\* Every step keeps what was adopted mapped: only the renewer removes certificates,
\* and it does so between renewals.
LEMMA RenewalStep ==
    ASSUME RenewalInv, [Next]_vars
    PROVE  RenewalInv'
<1>1. CASE renewer' = renewer /\ DOMAIN domainToCert \subseteq DOMAIN domainToCert'
    BY <1>1 DEF RenewalInv
<1>2. ASSUME NEW ids, NEW dir, NEW by, adoptCertificateAt(ids, dir, by)
      PROVE  DOMAIN domainToCert \subseteq DOMAIN domainToCert'
    BY <1>2 DEF adoptCertificateAt
<1>3. CASE renewer' = renewer /\ ~Renewer
    <2>1. \/ domainToCert' = domainToCert
          \/ \E ids, by : adoptCertificate(ids, by)
          \/ \E n \in Name : Deploy(n)
        <3>1. CASE Issuer
            BY <3>1 DEF Issuer, JobStep, OrderAnswered
        <3>2. CASE Clients
            BY <3>2 DEF Clients, GetCertificate, HandshakeStep, preflightTrigger, ClaimSlot,
                   FilterMates, HandshakePays, HandshakeAnswered, WaiterReturns, ClientGone
        <3>3. CASE Change
            BY <3>3 DEF Change, Ages, Repoint, SetServiceDirectory, Evict
        <3>4. CASE \/ Prober \/ (\E i \in Identifier : HoldElapses(i))
                   \/ (\E n \in Name : Poll(n) \/ Retry(n)) \/ UNCHANGED vars
            BY <3>4 DEF Prober, HoldElapses, Poll, Retry, vars, managerVars
        <3> QED BY <1>3, <3>1, <3>2, <3>3, <3>4 DEF Next
    <2>2. ASSUME NEW n \in Name, Deploy(n)
          PROVE  DOMAIN domainToCert \subseteq DOMAIN domainToCert'
        <3>1. \/ domainToCert' = domainToCert
              \/ \E c \in Covering(n) : domainToCert' = [i \in DOMAIN domainToCert \cup {n} |->
                                                           IF i = n THEN c ELSE domainToCert[i]]
            BY <2>2 DEF Deploy, RegisterDomain, UnregisterDomain
        <3> QED BY <3>1
    <2> QED BY <1>1, <1>2, <1>3, <2>1, <2>2 DEF adoptCertificate
<1>4. CASE Renewer
    <2>1. CASE ReconcileStarts
        BY <2>1, NextCertificateForgets, NothingAdopted DEF ReconcileStarts
    <2>2. CASE reconcile
        <3>1. \/ \E todo : renewer' = NextCertificate(todo)
              \/ \E x, y : renewer' = [IdleRenewer EXCEPT !.pc = "probe", !.cert = x, !.todo = y]
            BY <2>2 DEF reconcile
        <3> QED BY <3>1, NextCertificateForgets, NothingAdopted
    <2>3. CASE FilterMembers
        <3>0. renewer.adopted = {} /\ {"pc", "adopted"} \subseteq DOMAIN renewer
            BY <2>3 DEF FilterMembers, RenewalInv
        <3>1. \/ \E todo : renewer' = NextCertificate(todo)
              \/ \E x : renewer' = [renewer EXCEPT !.pc = "assemble", !.domains = x]
            BY <2>3 DEF FilterMembers
        <3>2. ASSUME NEW x, renewer' = [renewer EXCEPT !.pc = "assemble", !.domains = x]
              PROVE  RenewalInv'
            BY <3>0, <3>2, NothingAdopted
        <3> QED BY <3>1, <3>2, NextCertificateForgets, NothingAdopted
    <2>4. CASE topUpBatch
        <3>0. renewer.adopted = {} /\ {"pc", "adopted"} \subseteq DOMAIN renewer
            BY <2>4 DEF topUpBatch, RenewalInv
        <3>1. PICK x, y : renewer' = NextPart([renewer EXCEPT !.domains = {}, !.topped = x, !.parts = y])
            BY <2>4 DEF topUpBatch
        <3> DEFINE r == [renewer EXCEPT !.domains = {}, !.topped = x, !.parts = y]
        <3>2. r.adopted = {} /\ {"pc", "adopted"} \subseteq DOMAIN r
            BY <3>0
        <3>3. renewer' = NextPart(r)
            BY <3>1
        <3> HIDE DEF r
        <3> QED BY <3>2, <3>3, NextPartAdopted, NothingAdopted
    <2>5. CASE renewPartition
        BY <2>5, PartitionKeepsAdopted
    <2>6. CASE RenewalEnds
        BY <2>6, NextCertificateForgets, NothingAdopted DEF RenewalEnds
    <2> QED BY <1>4, <2>1, <2>2, <2>3, <2>4, <2>5, <2>6 DEF Renewer, RenewerStep
<1>5. Renewer \/ renewer' = renewer
    BY DEF Next, Issuer, Prober, Clients, HoldElapses, Poll, Retry, Change, vars
<1> QED BY <1>3, <1>4, <1>5

\* Ending a renewal never leaves a host with a successor certificate without one.
THEOREM RenewalsKeepServing == Spec => RenewalKeepsServing
<1>1. Init => MapsAgree /\ RenewalInv
    <2>1. IdleRenewer.adopted = {} /\ {"pc", "adopted"} \subseteq DOMAIN IdleRenewer
        BY DEF IdleRenewer
    <2>2. Init => renewer = IdleRenewer
        BY DEF Init
    <2> QED BY <2>1, <2>2, MapsStart DEF RenewalInv
<1>2. MapsAgree /\ RenewalInv /\ [Next]_vars => (MapsAgree /\ RenewalInv)'
    BY MapsStep, RenewalStep
<1>3. MapsAgree /\ RenewalInv /\ [Next]_vars =>
         [renewer.pc = "finish" /\ renewer'.pc # "finish" =>
            \A n \in registered \cup dynamic : Succeeded(n) => Served(n)']_vars
    <2> SUFFICES ASSUME MapsAgree, RenewalInv, Next, renewer.pc = "finish", renewer'.pc # "finish",
                        NEW n \in registered \cup dynamic, Succeeded(n)
                 PROVE  Served(n)'
        OBVIOUS
    <2> DEFINE old == renewer.cert.id
    <2>1. RenewalEnds
        <3>1. Renewer
            BY DEF Next, Issuer, Prober, Clients, HoldElapses, Poll, Retry, Change
        <3>2. RenewalEnds \/ renewer.pc \in {"idle", "next", "probe", "assemble", "placed"}
            BY <3>1 DEF Renewer, RenewerStep, ReconcileStarts, reconcile, FilterMembers,
                   topUpBatch, renewPartition
        <3> QED BY <3>2
    <2>2. PICK i \in UNION renewer.adopted : /\ i = n \/ matchesWildcard(i, n)
                                             /\ domainToCert[i] # old \/ old \in renewer.adopted
        BY DEF Succeeded
    <2>3. i \in DOMAIN domainToCert
        BY DEF RenewalInv
    <2>4. /\ i \in DOMAIN domainToCert'
          /\ \A x \in DOMAIN domainToCert' :
                /\ domainToCert'[x] \in DOMAIN certificates'
        <3>1. CASE UNCHANGED <<certificates, domainToCert>>
            BY <2>3, <3>1 DEF MapsAgree
        <3>2. CASE removeCertificate(old) /\ old \notin renewer.adopted
            <4>1. /\ DOMAIN certificates' = DOMAIN certificates \ {old}
                  /\ DOMAIN domainToCert' = {x \in DOMAIN domainToCert : domainToCert[x] # old}
                  /\ \A x \in DOMAIN domainToCert' : domainToCert'[x] = domainToCert[x]
                BY <3>2 DEF removeCertificate, Restrict
            <4> HIDE DEF old
            <4> QED BY <2>2, <2>3, <3>2, <4>1 DEF MapsAgree
        <3> QED BY <2>1, <3>1, <3>2 DEF RenewalEnds
    <2>5. CASE n \in DOMAIN domainToCert'
        BY <2>4, <2>5 DEF Served, certIDCovering
    <2>6. CASE n \notin DOMAIN domainToCert'
        <3> DEFINE over == {w \in DOMAIN domainToCert' : matchesWildcard(w, n)}
                   w == CHOOSE w \in over : TRUE
        <3>1. i \in over
            BY <2>2, <2>4, <2>6
        <3>2. w \in over
            BY <3>1
        <3>3. over # {} /\ domainToCert'[w] \in DOMAIN certificates'
            BY <3>1, <3>2, <2>4
        <3>4. certIDCovering(n)' = domainToCert'[w]
            BY <2>6, <3>3 DEF certIDCovering, matchesWildcard, IsWild
        <3> QED BY <3>3, <3>4 DEF Served
    <2> QED BY <2>5, <2>6
<1> QED BY <1>1, <1>2, <1>3, PTL DEF Spec, RenewalKeepsServing
==============================================================================
