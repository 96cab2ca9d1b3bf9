------------------------------ MODULE CertSystem ------------------------------
(***************************************************************************)
(* The issuer, the renewer, the release prober and the handshakes over the *)
(* shared manager, quarantine and token bucket, with what happens around   *)
(* them: time, DNS, deploys and domain sources.                            *)
(***************************************************************************)
EXTENDS CertRenewer, CertHandshake

\* Initial situations: [registered, dynamic, routes, lives, actors, changes].
CONSTANT Setting

VARIABLE changes    \* deploys, DNS changes and aging steps still to come

vars == <<managerVars, issuerVars, renewer, handshakeVars, changes>>

Init ==
    /\ \E s \in Setting :
          /\ registered = s.registered /\ dynamic = s.dynamic /\ routes = s.routes
          /\ certificates = [c \in DOMAIN s.lives |->
                [life |-> s.lives[c], dir |-> RunDirectory, by |-> RunDirectory]]
          /\ domainToCert = [i \in UNION DOMAIN s.lives |->
                CHOOSE c \in DOMAIN s.lives : i \in c]
          /\ pending = {n \in s.registered : ~identifiersCover(UNION DOMAIN s.lives, n)}
          /\ actors = s.actors
          /\ changes = s.changes
    /\ directory = [s \in Service |-> RunDirectory]
    /\ quarantine = [i \in Identifier |-> NoEntry]
    /\ IssuerInit /\ renewer = IdleRenewer /\ HandshakeInit

Unmoved == UNCHANGED <<actors, changes>>

Issuer ==
    /\ "issuer" \in actors
    /\ \/ /\ WorkerWakes \/ nextBatch \/ \E j \in Job : WorkerSpawns(j)
          /\ UNCHANGED <<quarantine, certificates, domainToCert>>
       \/ \E j \in Job : JobStep(j)
    /\ UNCHANGED <<registered, dynamic, pending, directory, routes, renewer, handshakeVars>>
    /\ Unmoved

Prober ==
    /\ "prober" \in actors
    /\ \/ (SweepStarts \/ SweepProbes \/ SweepRequests) /\ UNCHANGED quarantine
       \/ SweepReleases
    /\ UNCHANGED <<registered, dynamic, pending, directory, certificates, domainToCert,
                   routes, renewer, handshakeVars>>
    /\ Unmoved

Renewer ==
    /\ "renewer" \in actors
    /\ RenewerStep
    /\ UNCHANGED handshakeVars
    /\ Unmoved

Clients ==
    /\ "clients" \in actors
    /\ \E k \in Conn : (\E n \in Name : GetCertificate(k, n)) \/ HandshakeStep(k) \/ ClientGone(k)
    /\ UNCHANGED <<registered, dynamic, directory, routes, inflight, inflightIdentifiers,
                   worker, job, prober, renewer>>
    /\ Unmoved

-----------------------------------------------------------------------------
(***************************************************************************)
(* The surroundings.                                                       *)
(***************************************************************************)
\* One step of time ends, or shortens, a hold.
HoldElapses(i) ==
    /\ IsQuarantined(i)
    /\ quarantine' = [quarantine EXCEPT ![i] = Entry(@.hold - 1, @.failures, @.kind)]
    /\ UNCHANGED <<registered, dynamic, pending, directory, certificates, domainToCert,
                   routes, issuerVars, renewer, handshakeVars>>
    /\ Unmoved

\* A domain source's poll asks for every name that has no valid certificate.
Poll(n) ==
    /\ "issuer" \in actors
    /\ n \in dynamic /\ ~HasValidCertificate(n)
    /\ Request(n)
    /\ UNCHANGED <<managerVars, inflight, inflightIdentifiers, worker, job, prober,
                   renewer, handshakeVars>>
    /\ Unmoved

\* The operator's retry forgets the failures of a name and asks for it.
Retry(n) ==
    /\ "operator" \in actors
    /\ quarantine[n].failures > 0
    /\ quarantine' = ClearAll(quarantine, {n})
    /\ IF n \in dynamic /\ ~HasValidCertificate(n) THEN Enqueue(n)
       ELSE UNCHANGED <<queue, queued, wake>>
    /\ UNCHANGED <<registered, dynamic, pending, directory, certificates, domainToCert,
                   routes, inflight, inflightIdentifiers, worker, job, prober,
                   renewer, handshakeVars>>
    /\ Unmoved

Ages(c) ==
    /\ certificates[c].life > Expired
    /\ certificates' = [certificates EXCEPT ![c].life = @ - 1]
    /\ UNCHANGED <<registered, dynamic, pending, directory, domainToCert, quarantine, routes>>

Repoint(n) ==
    /\ routes' = IF n \in routes THEN routes \ {n} ELSE routes \cup {n}
    /\ UNCHANGED <<registered, dynamic, pending, directory, certificates, domainToCert, quarantine>>

SetServiceDirectory(s, d) ==
    /\ "deploys" \in actors /\ directory[s] # d
    /\ directory' = [directory EXCEPT ![s] = d]
    /\ UNCHANGED <<registered, dynamic, pending, certificates, domainToCert, quarantine, routes>>

Deploy(n) ==
    /\ "deploys" \in actors
    /\ RegisterDomain(n) \/ UnregisterDomain(n)
    /\ UNCHANGED <<dynamic, directory, certificates, quarantine, routes>>

\* SetDynamicDomains: the source drops a name, and its holds are forgotten.
Evict(n) ==
    /\ "issuer" \in actors /\ n \in dynamic
    /\ dynamic' = dynamic \ {n}
    /\ quarantine' = ClearAll(quarantine, {n})
    /\ UNCHANGED <<registered, pending, directory, certificates, domainToCert, routes>>

Change ==
    /\ changes > 0
    /\ changes' = changes - 1
    /\ \/ \E c \in DOMAIN certificates : Ages(c)
       \/ \E n \in Name : Repoint(n) \/ Deploy(n) \/ Evict(n)
       \/ \E s \in Service, d \in Directory : SetServiceDirectory(s, d)
    /\ UNCHANGED <<issuerVars, renewer, handshakeVars, actors>>

Next ==
    \/ Issuer \/ Prober \/ Renewer \/ Clients
    \/ \E i \in Identifier : HoldElapses(i)
    \/ \E n \in Name : Poll(n) \/ Retry(n)
    \/ Change

Spec == Init /\ [][Next]_vars

-----------------------------------------------------------------------------
TypeOK ==
    /\ registered \subseteq Name /\ dynamic \subseteq Name /\ pending \subseteq Name
    /\ directory \in [Service -> Directory]
    /\ DOMAIN certificates \subseteq SUBSET Identifier
    /\ \A c \in DOMAIN certificates :
          certificates[c] \in [life : Expired .. Fresh, dir : Directory, by : Directory]
    /\ DOMAIN domainToCert \subseteq Identifier
    /\ \A i \in Identifier :
          /\ quarantine[i] \in [hold : Nat, failures : 0 .. MaxFailures,
                                kind : {None, "acme", "preflight", "limited"}]
          /\ quarantine[i].hold > 0 <=> quarantine[i].kind # None
    /\ queued \subseteq Name /\ inflight \subseteq Name
    /\ inflightIdentifiers \subseteq Identifier
    /\ worker.pc \in {"asleep", "scan", "spawn"}
    /\ \A j \in Job : job[j].pc \in {"idle", "probe", "placed", "answered", "release"}
    /\ prober.pc \in {"idle", "probe", "release", "request"}
    /\ renewer.pc \in {"idle", "next", "probe", "assemble", "placed", "finish"}
    /\ \A k \in Conn : conn[k].pc \in {"idle", "probe", "claim", "filter", "token",
                                        "placed", "wait", "woken"}

\* The names whose requests a job still has to settle.
JobNames(j) ==
    CASE job[j].pc = "probe" -> Names(job[j].batch)
      [] job[j].pc \in {"placed", "answered"} ->
            Names(job[j].order.requests \cup UNION {o.requests : o \in job[j].orders})
      [] job[j].pc = "release" -> Names(UNION {o.requests : o \in job[j].orders})
      [] OTHER -> {}

\* The in-flight marks are exactly what the worker, the jobs and the renewer's
\* top-up hold, each name held once: a mark nobody holds would keep a domain from
\* ever being ordered again, a name held twice would be ordered twice
\* (nextBatch, takePending, finishBatch, releasePending).
InflightAccounted ==
    LET holder == [j \in Job |-> JobNames(j)]
    IN  /\ inflight = Names(worker.batch) \cup (UNION Range(holder)) \cup renewer.topped
        /\ \A j \in Job : /\ holder[j] \cap (Names(worker.batch) \cup renewer.topped) = {}
                          /\ \A l \in Job \ {j} : holder[j] \cap holder[l] = {}
        /\ Names(worker.batch) \cap renewer.topped = {}

\* A queued name is in the queue once, is not in flight, and the worker is awake
\* or about to be woken: no request is stranded by a nudge that came while the
\* worker was busy, or by the renewer taking from the queue (Request, run,
\* takePending, notify).
NoStrandedRequest ==
    /\ queued = {queue[p].name : p \in DOMAIN queue}
    /\ Cardinality(queued) = Len(queue)
    /\ queued \cap inflight = {}
    /\ queue # <<>> => wake \/ worker.pc # "asleep"

JobOrders(j) ==
    job[j].orders \cup IF job[j].pc \in {"placed", "answered", "release"} THEN {job[j].order} ELSE {}

\* Every wildcard marked in flight belongs to exactly one order of one job, so two
\* concurrent batches of a zone never order its wildcard twice and a mark is never
\* left behind to shut the zone out (planOrders, releaseIdentifiers).
OneWildcardOrder ==
    LET wilds(j) == {i \in UNION {o.ids : o \in JobOrders(j)} : IsWild(i)}
    IN  /\ {i \in inflightIdentifiers : IsWild(i)} = UNION {wilds(j) : j \in Job}
        /\ \A j, l \in Job : j # l => wilds(j) \cap wilds(l) = {}

\* Every name to be ordered is queued or held by one party, every wildcard by one
\* order, and somebody will come for what is queued (Request, nextBatch,
\* takePending, planOrders, finishBatch).
NamesAccounted == InflightAccounted /\ NoStrandedRequest /\ OneWildcardOrder

\* Every mapped name points at a certificate that exists and covers it, which is
\* what an export of the store insists on; adoption, wildcard take-over, removal
\* by the renewer and registration interleave freely (adoptCertificateAt,
\* removeCertificate, RegisterDomain; validateManagerState).
MapsAgree ==
    \A i \in DOMAIN domainToCert :
        /\ domainToCert[i] \in DOMAIN certificates
        /\ identifiersCover(domainToCert[i], i)

\* A provisioning slot is held by a handshake that will release it, and every
\* handshake that waits, waits for such a slot: an order that fails, a client
\* that leaves and an unparsable certificate all free it (provisionCertificate).
NoOrphanWaiter ==
    /\ \A s \in Service \cup {None} : provisioning[s] # None =>
          LET k == provisioning[s]
          IN  conn[k].key = s /\ conn[k].pc \in {"filter", "token", "placed"}
    /\ \A k \in Conn : conn[k].pc = "wait" => provisioning[conn[k].key] # None

\* The maps have a certificate for the name (getCertForDomain).
Served(n) == certIDCovering(n) \in DOMAIN certificates

\* A certificate the renewal ordered covers the name.
Renewed(n) == \E c \in renewer.adopted : identifiersCover(c, n)

\* It still does: no other path has since given the identifier that covers the name
\* back to the certificate that is being replaced.
Succeeded(n) ==
    \E i \in UNION renewer.adopted :
        /\ i = n \/ matchesWildcard(i, n)
        /\ domainToCert[i] # renewer.cert.id \/ renewer.cert.id \in renewer.adopted

\* Ending a renewal never leaves a host that has a successor certificate without
\* one, however issuer, handshakes and deploys moved the maps while the renewal ran.
\* Excluded is a host another path gave back to the old certificate, by ordering
\* its names again or by registering the host anew (renew, removeCertificate).
RenewalKeepsServing ==
    [][renewer.pc = "finish" /\ renewer'.pc # "finish" =>
         \A n \in registered \cup dynamic : Succeeded(n) => Served(n)']_vars

\* The same without the exclusion.
SuccessorServes ==
    [][renewer.pc = "finish" /\ renewer'.pc # "finish" =>
         \A n \in registered \cup dynamic : Served(n) /\ Renewed(n) => Served(n)']_vars

\* The release prober never lifts a hold of the CA's rate limit.
ProberKeepsLimits ==
    [][prober.pc = "release" /\ prober'.pc # "release" =>
         \A n \in Name : quarantine[n].kind = "limited" => quarantine'[n] = quarantine[n]]_vars

\* The directory a certificate is stamped with is the one that issued it.
StampNamesIssuer == \A c \in DOMAIN certificates : certificates[c].dir = certificates[c].by

\* A name of a DNS-01 zone is never held because it does not route here yet.
CutoverNeedsNoRoute ==
    \A n \in Name : hasDNSProviderFor(n) => quarantine[n].kind # "preflight"
=============================================================================
