---------------------------- MODULE CertHandshake ----------------------------
(***************************************************************************)
(* Certificates ordered by a TLS handshake (san_cert_manager.go,           *)
(* san_cert_batch_guard.go): the trigger is probed, the first handshake of *)
(* a service claims its provisioning slot and takes the service's pending  *)
(* hosts along, the others wait for it.                                    *)
(***************************************************************************)
EXTENDS DomainIssuer

CONSTANTS Conn, MaxSANs

ASSUME ConnAssumption == None \notin Conn

VARIABLES
    conn,           \* handshake -> [pc, name, key, batch, ids, dir]
    provisioning    \* service (None: a host that lost its service) -> handshake

handshakeVars == <<conn, provisioning>>

IdleConn == [pc |-> "idle", name |-> None, key |-> None, batch |-> {}, ids |-> {}, dir |-> None]

HandshakeInit ==
    /\ conn = [k \in Conn |-> IdleConn]
    /\ provisioning = [s \in Service \cup {None} |-> None]

ReleaseSlot_NoClose(k) ==
    /\ provisioning' = [provisioning EXCEPT ![conn[k].key] = None]
    /\ conn' = [conn EXCEPT ![k] = IdleConn]

\* The deferred close(done): the slot is free and its waiters go on.
ReleaseSlot(k) ==
    /\ provisioning' = [provisioning EXCEPT ![conn[k].key] = None]
    /\ conn' = [c \in Conn |->
                  IF c = k THEN IdleConn
                  ELSE IF conn[c].pc = "wait" /\ conn[c].key = conn[k].key
                       THEN [conn[c] EXCEPT !.pc = "woken"] ELSE conn[c]]

-----------------------------------------------------------------------------
\* A certificate that is not valid long enough, or from another directory.
DueForReplacement(n) ==
    /\ n \in registered \cup dynamic
    /\ CertFor(n) # None
    /\ CertFor(n).life <= LastDay \/ CertFor(n).dir # directory[owner[n]]

\* It is served and replaced in the background, unless it has expired or a
\* registered host moved to another directory.
ServedMeanwhile(n) ==
    /\ DueForReplacement(n)
    /\ CertFor(n).life > Expired
    /\ n \in dynamic \ registered \/ CertFor(n).dir = directory[owner[n]]

NotServed(n) ==
    /\ CertFor(n) = None \/ DueForReplacement(n)
    /\ ~ServedMeanwhile(n)

GetCertificate(k, n) ==
    /\ conn[k].pc = "idle"
    /\ \/ /\ ServedMeanwhile(n) \/ (n \in dynamic \ registered /\ NotServed(n))
          /\ Request(n)
          /\ UNCHANGED conn
       \/ /\ n \in registered /\ NotServed(n)
          /\ conn' = [conn EXCEPT ![k].pc = "probe", ![k].name = n]
          /\ UNCHANGED <<queue, queued, wake>>
    /\ UNCHANGED <<provisioning, quarantine, certificates, domainToCert, pending>>

preflightTrigger(k) ==
    /\ conn[k].pc = "probe"
    /\ LET n == conn[k].name
       IN  CASE hasDNSProviderFor(n) ->
                  /\ conn' = [conn EXCEPT ![k].pc = "claim"]
                  /\ UNCHANGED quarantine
             [] ~hasDNSProviderFor(n) /\ n \notin routes ->
                  /\ quarantine' = FailAll(quarantine, {n}, "preflight")
                  /\ conn' = [conn EXCEPT ![k] = IdleConn]
             [] OTHER ->
                  /\ quarantine' = RecordAll(quarantine, {n}, Release)
                  /\ conn' = [conn EXCEPT ![k].pc = "claim"]
    /\ UNCHANGED <<provisioning, certificates, domainToCert, pending, queue, queued, wake>>

RegisteredService(n) == IF n \in registered THEN owner[n] ELSE None

directoryForDomain(n) == IF ownerOf(n) = None THEN RunDirectory ELSE directory[ownerOf(n)]

\* The map of pending hosts is walked in no order, up to the size of a batch.
ClaimSlot(k) ==
    /\ conn[k].pc = "claim"
    /\ LET n     == conn[k].name
           key   == RegisteredService(n)
           mates == {m \in pending \ {n} :
                        /\ ~IsQuarantined(m)
                        /\ RegisteredService(m) = key
                        /\ directoryForDomain(m) = directoryForDomain(n)}
       IN  IF provisioning[key] # None
           THEN /\ conn' = [conn EXCEPT ![k].pc = "wait", ![k].key = key]
                /\ UNCHANGED provisioning
           ELSE /\ \E some \in kSubset(Min({Cardinality(mates), MaxSANs - 1}), mates) :
                      conn' = [conn EXCEPT ![k].pc = "filter", ![k].key = key,
                                           ![k].batch = {n} \cup some]
                /\ provisioning' = [provisioning EXCEPT ![key] = k]
    /\ UNCHANGED <<quarantine, certificates, domainToCert, pending, queue, queued, wake>>

\* filterBatchMates, the removal from pending, the plan, and the narrowing to
\* the partition that answers the trigger; the rest goes back to pending.
FilterMates(k) ==
    /\ conn[k].pc = "filter"
    /\ LET n     == conn[k].name
           mates == {m \in conn[k].batch \ {n} : ~IsQuarantined(m)}
           lost  == Unreachable(mates)
           batch == {n} \cup (mates \ lost)
           ids   == CHOOSE p \in splitByProviderZone(planIssuanceDomains(batch)) :
                       identifiersCover(p, n)
       IN  /\ quarantine' = FailAll(quarantine, lost, "preflight")
           /\ pending' = (pending \ batch) \cup {m \in batch : ~identifiersCover(ids, m)}
           /\ conn' = [conn EXCEPT ![k].pc = "token", ![k].batch = batch, ![k].ids = ids]
    /\ UNCHANGED <<provisioning, certificates, domainToCert, queue, queued, wake>>

\* bucket.Take returned: the order is placed.
HandshakePays(k) ==
    /\ conn[k].pc = "token"
    /\ conn' = [conn EXCEPT ![k].pc = "placed", ![k].dir = directoryForDomains(conn[k].ids)]
    /\ UNCHANGED <<provisioning, quarantine, certificates, domainToCert, pending,
                   queue, queued, wake>>

\* The client went away while its handshake waited for a token or for another.
ClientGone(k) ==
    /\ \/ /\ conn[k].pc = "token"
          /\ pending' = pending \cup conn[k].batch
          /\ ReleaseSlot(k)
       \/ /\ conn[k].pc = "wait"
          /\ conn' = [conn EXCEPT ![k] = IdleConn]
          /\ UNCHANGED <<pending, provisioning>>
    /\ UNCHANGED <<quarantine, certificates, domainToCert, queue, queued, wake>>

\* attributeBatchFailure and attributeRateLimit: the members an answer holds.
Culprits(k, answer) ==
    LET held == IF answer.kind = "limited"
                THEN IF answer.named = {} /\ answer.retry # 0 THEN conn[k].batch
                     ELSE answer.named
                ELSE IF answer.named = {} THEN Unreachable(conn[k].ids) ELSE answer.named
    IN  {n \in conn[k].batch : identifiersCover(held, n)}

HandshakeAnswered(k) ==
    /\ conn[k].pc = "placed"
    /\ \E answer \in Outcome(conn[k].ids) :
          \/ /\ answer.kind = "issued"
             /\ adoptCertificate(conn[k].ids, conn[k].dir)
             /\ quarantine' = ClearAll(quarantine, conn[k].batch)
             /\ ReleaseSlot(k)
             /\ UNCHANGED pending
          \/ /\ answer.kind = "unusable"
             /\ ReleaseSlot(k)
             /\ UNCHANGED <<quarantine, pending, certificates, domainToCert>>
          \/ /\ answer.kind \in {"failed", "limited"}
             /\ quarantine' = IF answer.kind = "failed"
                              THEN FailAll(quarantine, Culprits(k, answer), "acme")
                              ELSE LimitAll(quarantine, Culprits(k, answer), answer.retry)
             /\ pending' = pending \cup (conn[k].batch \ Culprits(k, answer))
             /\ ReleaseSlot(k)
             /\ UNCHANGED <<certificates, domainToCert>>
    /\ UNCHANGED <<queue, queued, wake>>

\* getServableCertForDomain: the waiter takes what there is now.
WaiterReturns(k) ==
    /\ conn[k].pc = "woken"
    /\ conn' = [conn EXCEPT ![k] = IdleConn]
    /\ UNCHANGED <<provisioning, quarantine, certificates, domainToCert, pending,
                   queue, queued, wake>>

HandshakeStep(k) ==
    \/ preflightTrigger(k) \/ ClaimSlot(k) \/ FilterMates(k) \/ HandshakePays(k)
    \/ HandshakeAnswered(k) \/ WaiterReturns(k)

-----------------------------------------------------------------------------
(***************************************************************************)
(* Deploys.                                                                *)
(***************************************************************************)
Covering(n) ==
    {c \in DOMAIN certificates :
        n \in c /\ certificates[c].life > LastDay /\ certificates[c].dir = directory[owner[n]]}

RegisterDomain(n) ==
    /\ n \notin registered
    /\ registered' = registered \cup {n}
    /\ LET own == CertFor(n)
       IN  IF own # None /\ own.life > LastDay /\ own.dir = directory[owner[n]]
           THEN UNCHANGED <<domainToCert, pending>>
           ELSE IF Covering(n) # {}
           THEN /\ \E c \in Covering(n) :
                      domainToCert' = [i \in DOMAIN domainToCert \cup {n} |->
                                         IF i = n THEN c ELSE domainToCert[i]]
                /\ UNCHANGED pending
           ELSE pending' = pending \cup {n} /\ UNCHANGED domainToCert

UnregisterDomain(n) ==
    /\ n \in registered
    /\ registered' = registered \ {n}
    /\ pending' = pending \ {n}
    /\ UNCHANGED domainToCert
=============================================================================
