----------------------------- MODULE CertRenewer -----------------------------
(***************************************************************************)
(* The renewal loop (domain_renewal.go).  One goroutine walks a snapshot   *)
(* of the certificates, tops a due one's batch up from the issuer's queue, *)
(* splits it by directory and provider and orders the parts one by one.    *)
(* The old certificate goes when every part has a successor.               *)
(***************************************************************************)
EXTENDS DomainIssuer

CONSTANT ARI        \* TRUE: the CA's renewal information decides what is due

VARIABLE renewer    \* [pc, todo, cert, domains, topped, parts, part, adopted, all]

IdleRenewer ==
    [pc |-> "idle", todo |-> {}, cert |-> [id |-> {}, life |-> Fresh, dir |-> None],
     domains |-> {}, topped |-> {}, parts |-> {}, part |-> [dir |-> None, ids |-> {}],
     adopted |-> {}, all |-> TRUE]

\* Going to the next certificate of the snapshot forgets the last one.
NextCertificate(todo) ==
    IF todo = {} THEN IdleRenewer ELSE [IdleRenewer EXCEPT !.pc = "next", !.todo = todo]

ManagedCertificates ==
    {[id |-> c, life |-> certificates[c].life, dir |-> certificates[c].dir] :
        c \in DOMAIN certificates}

Serving(c) == {i \in c.id : i \in DOMAIN domainToCert /\ domainToCert[i] = c.id}

renewableDomains(c) == {i \in Serving(c) : DomainAllowed(i)}

directoryChanged(c) == \E i \in c.id : certOwnedDirectory(c.id, c.dir, i) # c.dir

compactionWindowFor(ids) ==
    IF \E i \in ids : coversRegisteredDomain(i) THEN RegisteredWindow ELSE TenantWindow

-----------------------------------------------------------------------------
ReconcileStarts ==
    /\ renewer.pc = "idle" /\ DOMAIN certificates # {}
    /\ renewer' = NextCertificate(ManagedCertificates)
    /\ UNCHANGED <<quarantine, certificates, domainToCert, queue, queued, inflight, wake>>

\* shouldRenew: the CA says when, or two thirds of the lifetime are over.
shouldRenew(c) == {c.life < Fresh} \cup IF ARI THEN BOOLEAN ELSE {}

\* A certificate nothing renewable maps to is kept while it serves something
\* and has not expired.
reconcile ==
    /\ renewer.pc = "next"
    /\ \E c \in renewer.todo :
          \/ /\ renewableDomains(c) = {}
             /\ IF Serving(c) # {} /\ c.life > Expired
                THEN UNCHANGED <<certificates, domainToCert>>
                ELSE removeCertificate(c.id)
             /\ renewer' = NextCertificate(renewer.todo \ {c})
          \/ /\ renewableDomains(c) # {}
             /\ \E due \in shouldRenew(c) :
                   renewer' = IF directoryChanged(c) \/ due
                              THEN [IdleRenewer EXCEPT !.pc = "probe", !.cert = c,
                                                       !.todo = renewer.todo \ {c}]
                              ELSE NextCertificate(renewer.todo \ {c})
             /\ UNCHANGED <<certificates, domainToCert>>
    /\ UNCHANGED <<quarantine, queue, queued, inflight, wake>>

\* renew, up to the probes: a held or unreachable member defers the renewal
\* until the compaction window, where it is left behind.
FilterMembers ==
    /\ renewer.pc = "probe"
    /\ LET c        == renewer.cert
           allowed  == renewableDomains(c)
           domains  == {i \in allowed : ~IsQuarantined(i)}
           compact  == c.life <= compactionWindowFor(allowed)
           filtered == domains # {} /\ (domains = allowed \/ compact)
           lost     == IF filtered THEN Unreachable(domains \cap dynamic) ELSE {}
           kept     == domains \ lost
           goesOn   == filtered /\ kept # {} /\ (lost = {} \/ compact)
       IN  /\ quarantine' = FailAll(quarantine, lost, "preflight")
           /\ renewer' = IF goesOn THEN [renewer EXCEPT !.pc = "assemble", !.domains = kept]
                         ELSE NextCertificate(renewer.todo)
    /\ UNCHANGED <<certificates, domainToCert, queue, queued, inflight, wake>>

splitByDesiredDirectory(c, ids) ==
    {[dir |-> d, ids |-> {i \in ids : certOwnedDirectory(c.id, c.dir, i) = d}] :
        d \in {certOwnedDirectory(c.id, c.dir, i) : i \in ids}}

\* Each part waits for a token and is ordered.
NextPart(r) ==
    IF r.parts = {} THEN [r EXCEPT !.pc = "finish"]
    ELSE LET p == CHOOSE p \in r.parts : TRUE
         IN  [r EXCEPT !.pc = "placed", !.part = p, !.parts = @ \ {p}]

\* topUpBatch (takePending and its probes), the plan and the split.
topUpBatch ==
    /\ renewer.pc = "assemble"
    /\ LET domains == renewer.domains
           tenants == {owner[n] : n \in domains \cap dynamic}
           room    == BatchSize - Cardinality(domains)
           taken   == IF tenants = {} \/ BatchSize <= 1 \/ room <= 0 THEN {}
                      ELSE PendingFor(CHOOSE s \in tenants : TRUE, room)
           failing == {r \in taken : ~HasCertificate(r.name) /\ r.name \notin routes}
           kept    == Names(taken \ failing)
           planned == {IF IsWild(i) THEN i ELSE planDynamicIdentifier(i) : i \in domains \cup kept}
           parts   == UNION {{[dir |-> p.dir, ids |-> ids] : ids \in splitByProviderZone(p.ids)} :
                                p \in splitByDesiredDirectory(renewer.cert, planned)}
       IN  /\ queue' = Without(taken)
           /\ queued' = queued \ Names(taken)
           /\ inflight' = inflight \cup kept
           /\ wake' = (wake \/ failing # {})
           /\ quarantine' = FailAll(quarantine, Names(failing), "preflight")
           /\ renewer' = NextPart([renewer EXCEPT !.domains = {}, !.topped = kept, !.parts = parts])
    /\ UNCHANGED <<certificates, domainToCert>>

\* renewPartition after the order, and handleRenewalFailure.
renewPartition ==
    /\ renewer.pc = "placed"
    /\ LET ids == renewer.part.ids
           \* the parts of the same directory an account-level limit also holds
           others == {p \in renewer.parts : p.dir = renewer.part.dir}
       IN  \E answer \in Outcome(ids) :
             \/ /\ answer.kind = "issued"
                /\ adoptCertificateAt(ids, renewer.part.dir, renewer.part.dir)
                /\ quarantine' = ClearAll(quarantine, ids)
                /\ renewer' = NextPart([renewer EXCEPT !.adopted = @ \cup {ids}])
             \/ /\ answer.kind = "unusable"
                /\ renewer' = NextPart([renewer EXCEPT !.all = FALSE])
                /\ UNCHANGED <<quarantine, certificates, domainToCert>>
             \/ /\ answer.kind = "failed"
                /\ quarantine' = FailAll(quarantine,
                                   identifyFailedDomains(answer.named, ids, dynamic), "acme")
                /\ renewer' = NextPart([renewer EXCEPT !.all = FALSE])
                /\ UNCHANGED <<certificates, domainToCert>>
             \/ /\ answer.kind = "limited" /\ answer.named # {}
                /\ quarantine' = LimitAll(quarantine, answer.named, answer.retry)
                /\ renewer' = NextPart([renewer EXCEPT !.all = FALSE])
                /\ UNCHANGED <<certificates, domainToCert>>
             \/ /\ answer.kind = "limited" /\ answer.named = {}
                /\ quarantine' = LimitAll(quarantine, ids \cup UNION {p.ids : p \in others},
                                          answer.retry)
                /\ renewer' = NextPart([renewer EXCEPT !.all = FALSE, !.parts = @ \ others])
                /\ UNCHANGED <<certificates, domainToCert>>
    /\ UNCHANGED <<queue, queued, inflight, wake>>

RenewalEnds_RemovesSame ==
    /\ renewer.pc = "finish"
    /\ IF renewer.all
       THEN removeCertificate(renewer.cert.id)
       ELSE UNCHANGED <<certificates, domainToCert>>
    /\ inflight' = inflight \ renewer.topped
    /\ wake' = (wake \/ renewer.topped # {})
    /\ renewer' = NextCertificate(renewer.todo)
    /\ UNCHANGED <<quarantine, queue, queued>>

\* The end of renew: the old certificate goes, then the top-up is released.
RenewalEnds ==
    /\ renewer.pc = "finish"
    /\ IF renewer.all /\ renewer.cert.id \notin renewer.adopted
       THEN removeCertificate(renewer.cert.id)
       ELSE UNCHANGED <<certificates, domainToCert>>
    /\ inflight' = inflight \ renewer.topped
    /\ wake' = (wake \/ renewer.topped # {})
    /\ renewer' = NextCertificate(renewer.todo)
    /\ UNCHANGED <<quarantine, queue, queued>>

RenewerStep ==
    /\ \/ ReconcileStarts \/ reconcile \/ FilterMembers \/ topUpBatch
       \/ renewPartition \/ RenewalEnds
    /\ UNCHANGED <<registered, dynamic, pending, directory, routes,
                   inflightIdentifiers, worker, job, prober>>
=============================================================================
