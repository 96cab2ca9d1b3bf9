---------------------------- MODULE DomainIssuer ----------------------------
(***************************************************************************)
(* The background issuer (domain_issuer.go) and the release prober         *)
(* (domain_release.go).  Requests wait in a queue; one worker forms        *)
(* batches, pays a token for each and hands it to one of                   *)
(* MaxConcurrentOrders goroutines, which probes, plans and orders.         *)
(*                                                                         *)
(* A job's steps are its critical sections and the network calls between   *)
(* them: what happens under i.mu, or under the quarantine's lock for a     *)
(* loop of records, is one step.                                           *)
(***************************************************************************)
EXTENDS Certificates

CONSTANTS Job, BatchSize

VARIABLES
    queue,              \* requests: [name, retried]
    queued, inflight,   \* names
    inflightIdentifiers,
    wake,               \* the wake channel, buffered 1
    worker,             \* [pc, batch]
    job,                \* goroutine -> [pc, batch, orders, order, survivors]
    prober              \* [pc, candidates, released]

issuerVars == <<queue, queued, inflight, inflightIdentifiers, wake, worker, job, prober>>

Names(requests) == {r.name : r \in requests}

Asleep == [pc |-> "asleep", batch |-> {}]

NoOrder == [ids |-> {}, requests |-> {}, identifierOf |-> <<>>, dir |-> None]

IdleJob == [pc |-> "idle", batch |-> {}, orders |-> {}, order |-> NoOrder, survivors |-> {}]

IdleProber == [pc |-> "idle", candidates |-> {}, released |-> {}]

IssuerInit ==
    /\ queue = <<>> /\ queued = {} /\ inflight = {} /\ inflightIdentifiers = {}
    /\ wake = FALSE
    /\ worker = Asleep
    /\ job = [j \in Job |-> IdleJob]
    /\ prober = IdleProber

-----------------------------------------------------------------------------
Enqueue_Silent(n) ==
    IF n \in queued \cup inflight
    THEN UNCHANGED <<queue, queued, wake>>
    ELSE /\ queue' = Append(queue, [name |-> n, retried |-> FALSE])
         /\ queued' = queued \cup {n}
         /\ UNCHANGED wake

\* A name already queued or in flight is not queued again.
Enqueue(n) ==
    IF n \in queued \cup inflight
    THEN UNCHANGED <<queue, queued, wake>>
    ELSE /\ queue' = Append(queue, [name |-> n, retried |-> FALSE])
         /\ queued' = queued \cup {n}
         /\ wake' = TRUE

Request(n) ==
    IF IsQuarantined(n) THEN UNCHANGED <<queue, queued, wake>> ELSE Enqueue(n)

issuable(n) ==
    n \notin inflight /\ ~IsQuarantined(n) /\ ~HasValidCertificate(n) /\ DomainAllowed(n)

\* The first k positions of a set of positions.
First(positions, k) == {p \in positions : Cardinality({q \in positions : q < p}) < k}

At(positions) == {queue[p] : p \in positions}

\* The requests of the queue that are not picked, in their order.
Without(requests) ==
    LET kept[p \in 0 .. Len(queue)] ==
          IF p = 0 THEN <<>>
          ELSE IF queue[p] \in requests THEN kept[p - 1] ELSE Append(kept[p - 1], queue[p])
    IN  kept[Len(queue)]

\* The renewer fills up a batch from the queue (takePending).
PendingFor(s, k) ==
    At(First({p \in DOMAIN queue : owner[queue[p].name] = s /\ issuable(queue[p].name)}, k))

-----------------------------------------------------------------------------
(***************************************************************************)
(* The worker (run, nextBatch).                                            *)
(***************************************************************************)
WorkerWakes ==
    /\ worker.pc = "asleep" /\ wake
    /\ wake' = FALSE
    /\ worker' = [worker EXCEPT !.pc = "scan"]
    /\ UNCHANGED <<queue, queued, inflight, inflightIdentifiers, job, prober>>

nextBatch ==
    /\ worker.pc = "scan"
    /\ LET ready == {p \in DOMAIN queue : issuable(queue[p].name)}
       IN  IF ready = {}
           THEN /\ queue' = <<>> /\ queued' = {}
                /\ worker' = Asleep
                /\ UNCHANGED inflight
           ELSE LET head   == Min(ready)
                    mates  == {p \in ready \ {head} :
                                 /\ owner[queue[p].name] = owner[queue[head].name]
                                 /\ providerPartitionKey(queue[p].name)
                                      = providerPartitionKey(queue[head].name)}
                    batch  == At({head} \cup First(mates, BatchSize - 1))
                    gone   == At(1 .. head) \cup batch
                IN  /\ queue' = Without(gone)
                    /\ queued' = queued \ Names(gone)
                    /\ inflight' = inflight \cup Names(batch)
                    /\ worker' = [pc |-> "spawn", batch |-> batch]
    /\ UNCHANGED <<inflightIdentifiers, wake, job, prober>>

\* bucket.Take, one token for the batch, then a free goroutine
WorkerSpawns(j) ==
    /\ worker.pc = "spawn" /\ job[j].pc = "idle"
    /\ job' = [job EXCEPT ![j] = [IdleJob EXCEPT !.pc = "probe", !.batch = worker.batch]]
    /\ worker' = [pc |-> "scan", batch |-> {}]
    /\ UNCHANGED <<queue, queued, inflight, inflightIdentifiers, wake, prober>>

-----------------------------------------------------------------------------
(***************************************************************************)
(* A job (issue, planOrders, issueOrder).                                  *)
(***************************************************************************)
planOrders(ids, requests, identifierOf) ==
    LET busy == {i \in ids \cap inflightIdentifiers : IsWild(i)}
    IN  {[ids |-> part \ busy,
          requests |-> {r \in requests : identifierOf[r.name] \in part \ busy},
          identifierOf |-> identifierOf, dir |-> None] :
            part \in {p \in splitByProviderZone(ids) : p \ busy # {}}}

\* The next order of a job; Obtain looks its directory up as it is placed.
NextOrder(jb) ==
    IF jb.orders = {} THEN IdleJob
    ELSE LET o == CHOOSE o \in jb.orders : TRUE
         IN  [jb EXCEPT !.pc = "placed", !.orders = @ \ {o}, !.survivors = {},
                        !.order = [o EXCEPT !.dir = directoryForDomains(o.ids)]]

\* Every name without a certificate is probed, whatever its zone; the failures
\* are held and only the rest is planned.  A wildcard that is already being
\* ordered is left out and its names are released for the next poll.
issue(j) ==
    /\ job[j].pc = "probe"
    /\ LET failing  == {r \in job[j].batch : ~HasCertificate(r.name) /\ r.name \notin routes}
           requests == job[j].batch \ failing
           identifierOf == [n \in Names(requests) |->
                              IF [name |-> n, retried |-> TRUE] \in requests THEN n
                              ELSE planDynamicIdentifier(n)]
           ids    == Range(identifierOf)
           orders == planOrders(ids, requests, identifierOf)
           kept   == UNION {o.requests : o \in orders}
       IN  /\ quarantine' = FailAll(quarantine, Names(failing), "preflight")
           /\ inflightIdentifiers' = inflightIdentifiers \cup UNION {o.ids : o \in orders}
           /\ inflight' = inflight \ Names(job[j].batch \ kept)
           /\ job' = [job EXCEPT ![j] = NextOrder([@ EXCEPT !.batch = kept, !.orders = orders])]
    /\ UNCHANGED <<queue, queued, wake, worker, prober>>

\* A request whose own identifier was named is dropped; one behind a named
\* wildcard is not.
Spared(o, failed) ==
    {r \in o.requests : IsWild(o.identifierOf[r.name]) \/ o.identifierOf[r.name] \notin failed}

\* handleObtainFailure: a request that already had its second chance is held.
OrderFailed(j, answer) ==
    LET o       == job[j].order
        failed  == identifyFailedDomains(answer.named, o.ids, Name)
        retried == {r \in Spared(o, failed) : r.retried}
    IN  /\ quarantine' = FailAll(FailAll(quarantine, failed, "acme"), Names(retried), "acme")
        /\ job' = [job EXCEPT ![j].pc = "answered",
                     ![j].survivors = {[name |-> r.name, retried |-> TRUE] :
                                          r \in Spared(o, failed) \ retried}]

\* handleRateLimited: a limit that names nobody is the account's.
OrderLimited(j, answer) ==
    LET o == job[j].order
    IN  IF answer.named = {}
        THEN /\ quarantine' = LimitAll(LimitAll(quarantine, o.ids, answer.retry),
                                       Names(o.requests), answer.retry)
             /\ job' = [job EXCEPT ![j].pc = "answered"]
        ELSE /\ quarantine' = LimitAll(quarantine, answer.named, answer.retry)
             /\ job' = [job EXCEPT ![j].pc = "answered",
                                   ![j].survivors = Spared(o, answer.named)]

\* An issued certificate wipes the history of everything it was for.
OrderAnswered(j) ==
    /\ job[j].pc = "placed"
    /\ \E answer \in Outcome(job[j].order.ids) :
          \/ /\ answer.kind = "issued"
             /\ adoptCertificate(job[j].order.ids, job[j].order.dir)
             /\ quarantine' = ClearAll(quarantine,
                                job[j].order.ids \cup Names(job[j].order.requests))
             /\ job' = [job EXCEPT ![j].pc = "answered"]
          \/ /\ answer.kind = "unusable"
             /\ quarantine' = FailAll(quarantine, Names(job[j].order.requests), "acme")
             /\ job' = [job EXCEPT ![j].pc = "answered"]
             /\ UNCHANGED <<certificates, domainToCert>>
          \/ /\ answer.kind = "failed" /\ OrderFailed(j, answer)
             /\ UNCHANGED <<certificates, domainToCert>>
          \/ /\ answer.kind = "limited" /\ OrderLimited(j, answer)
             /\ UNCHANGED <<certificates, domainToCert>>
    /\ UNCHANGED <<queue, queued, inflight, inflightIdentifiers, wake, worker, prober>>

\* The batch is released; survivors go to the back of the queue, once, in
\* the batch's order (here: in any), and the worker is nudged.
finishBatch(j) ==
    /\ job[j].pc = "answered"
    /\ LET again == {r \in job[j].survivors : r.name \notin queued}
       IN  /\ \E tail \in [1 .. Cardinality(again) -> again] :
                 IsInjective(tail) /\ queue' = queue \o tail
           /\ queued' = queued \cup Names(again)
           /\ wake' = (wake \/ job[j].survivors # {})
    /\ inflight' = inflight \ Names(job[j].order.requests)
    /\ job' = [job EXCEPT ![j].pc = "release"]
    /\ UNCHANGED <<inflightIdentifiers, worker, prober>>

releaseIdentifiers(j) ==
    /\ job[j].pc = "release"
    /\ inflightIdentifiers' = inflightIdentifiers \ job[j].order.ids
    /\ job' = [job EXCEPT ![j] =
                 NextOrder([@ EXCEPT !.batch = job[j].batch \ job[j].order.requests])]
    /\ UNCHANGED <<queue, queued, inflight, wake, worker, prober>>

JobStep(j) ==
    \/ issue(j) /\ UNCHANGED <<certificates, domainToCert>>
    \/ OrderAnswered(j)
    \/ /\ finishBatch(j) \/ releaseIdentifiers(j)
       /\ UNCHANGED <<quarantine, certificates, domainToCert>>

-----------------------------------------------------------------------------
(***************************************************************************)
(* The release prober (sweep).  The probes run between the snapshot of the *)
(* holds and their release.                                                *)
(***************************************************************************)
SweepStarts ==
    /\ prober.pc = "idle"
    /\ LET held == {n \in Name : /\ IsQuarantined(n)
                                 /\ quarantine[n].kind # "limited"
                                 /\ ~hasDNSProviderFor(n)}
       IN  held # {} /\ prober' = [IdleProber EXCEPT !.pc = "probe", !.candidates = held]
    /\ UNCHANGED <<queue, queued, inflight, inflightIdentifiers, wake, worker, job>>

SweepProbes ==
    /\ prober.pc = "probe"
    /\ prober' = [prober EXCEPT !.pc = "release", !.candidates = @ \ Unreachable(@)]
    /\ UNCHANGED <<queue, queued, inflight, inflightIdentifiers, wake, worker, job>>

SweepReleases ==
    /\ prober.pc = "release"
    /\ LET lifted == {n \in prober.candidates : IsQuarantined(n)}
       IN  /\ quarantine' = RecordAll(quarantine, lifted, Release)
           /\ prober' = IF lifted = {} THEN IdleProber
                        ELSE [pc |-> "request", candidates |-> {}, released |-> lifted]
    /\ UNCHANGED <<queue, queued, inflight, inflightIdentifiers, wake, worker, job>>

\* Released: each lifted dynamic name is requested again.
SweepRequests ==
    /\ prober.pc = "request"
    /\ \E n \in prober.released :
          /\ IF n \in dynamic /\ ~HasValidCertificate(n) THEN Request(n)
             ELSE UNCHANGED <<queue, queued, wake>>
          /\ prober' = IF prober.released = {n} THEN IdleProber
                       ELSE [prober EXCEPT !.released = @ \ {n}]
    /\ UNCHANGED <<inflight, inflightIdentifiers, worker, job>>
=============================================================================
