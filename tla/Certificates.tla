---------------------------- MODULE Certificates ----------------------------
(***************************************************************************)
(* What the paths that order certificates share: the SAN manager's maps    *)
(* (san_cert_manager.go), the allowlist (san_cert_dynamic.go), the ACME     *)
(* directories (san_cert_directories.go), the split of an order by who can  *)
(* answer its challenge (san_cert_zones.go, dynamic_wildcard.go), the       *)
(* quarantine (domain_quarantine.go), the bucket of order tokens and the    *)
(* ACME server, which is external.                                          *)
(*                                                                         *)
(* A certificate is known by the set of identifiers it was ordered for      *)
(* (sanCertID hashes exactly that).  Its remaining life is one of the       *)
(* levels the code tells apart.  A hold is the number of time steps left    *)
(* before Until.                                                            *)
(***************************************************************************)
EXTENDS Integers, FiniteSets, Sequences, FiniteSetsExt, Functions

CONSTANTS
    Name,           \* host names
    Zone,           \* zones mapped to a DNS-01 provider (--acme-dns-provider)
    Service, Directory, None,
    zoneOf,         \* the zone a name lies in, or None
    Apex,           \* the names that are their zone's apex
    providerOf,     \* the provider of each zone
    owner,          \* the service a name belongs to
    RunDirectory,   \* the directory of the run
    PreferWildcard, \* --acme-prefer-wildcard
    acmeLadder, preflightLadder, MaxFailures, RetryTime, HoldMargin

ASSUME OwnerAssumption == \A n \in Name : owner[n] \in Service

VARIABLES
    registered,     \* deploy-registered hosts
    dynamic,        \* hosts a domain source reported
    pending,        \* registered hosts waiting for a handshake's batch
    directory,      \* the directory each service wants
    certificates,   \* certificate -> [life, dir, by]; by is who really issued it
    domainToCert,   \* identifier -> certificate
    quarantine,     \* identifier -> [hold, failures, kind]
    routes,         \* names whose DNS points at this proxy
    actors          \* the parties and the faults that take part; never changes

managerVars == <<registered, dynamic, pending, directory, certificates,
                 domainToCert, quarantine, routes, actors>>

Wild(z) == <<"*", z>>

Identifier == Name \cup {Wild(z) : z \in Zone}

IsWild(i) == i \notin Name

ZoneOf(i) == IF IsWild(i) THEN i[2] ELSE zoneOf[i]

\* The life levels: not due, due for renewal, inside the compaction window of
\* a registered host (14 days), inside that of a tenant (7 days), inside the
\* last day, expired.
Fresh == 5
RegisteredWindow == 3
TenantWindow == 2
LastDay == 1
Expired == 0

-----------------------------------------------------------------------------
(***************************************************************************)
(* Quarantine.                                                             *)
(***************************************************************************)
NoEntry == [hold |-> 0, failures |-> 0, kind |-> None]

\* The kind of an entry is read only while it holds.
Entry(hold, failures, kind) ==
    [hold |-> hold, failures |-> failures, kind |-> IF hold > 0 THEN kind ELSE None]

record(e) == Min({e.failures + 1, MaxFailures})

Step(ladder, failures) == ladder[Min({failures, Len(ladder)})]

RecordFailure(e, kind) ==
    LET ladder == IF kind = "preflight" THEN preflightLadder ELSE acmeLadder
    IN  Entry(Step(ladder, record(e)), record(e), kind)

\* retry = 0: none was advertised, or it has passed
RecordRateLimited(e, retry) ==
    Entry(IF retry = 0 THEN Step(acmeLadder, record(e)) ELSE retry + HoldMargin,
          record(e), "limited")

Release(e) == Entry(0, e.failures, e.kind)

IsQuarantined(i) == quarantine[i].hold > 0

RecordAll(q, ids, Op(_)) == [i \in Identifier |-> IF i \in ids THEN Op(q[i]) ELSE q[i]]

FailAll(q, ids, kind) == RecordAll(q, ids, LAMBDA e : RecordFailure(e, kind))

LimitAll(q, ids, retry) == RecordAll(q, ids, LAMBDA e : RecordRateLimited(e, retry))

ClearAll(q, ids) == RecordAll(q, ids, LAMBDA e : NoEntry)

-----------------------------------------------------------------------------
(***************************************************************************)
(* Coverage, owners and directories.                                       *)
(***************************************************************************)
matchesWildcard(w, n) == IsWild(w) /\ ~IsWild(n) /\ n \notin Apex /\ zoneOf[n] = w[2]

identifiersCover(ids, n) == \E i \in ids : i = n \/ matchesWildcard(i, n)

certIDCovering(n) ==
    IF n \in DOMAIN domainToCert THEN domainToCert[n]
    ELSE LET over == {w \in DOMAIN domainToCert : matchesWildcard(w, n)}
         IN  IF over = {} THEN None ELSE domainToCert[CHOOSE w \in over : TRUE]

CertFor(n) ==
    IF certIDCovering(n) \in DOMAIN certificates THEN certificates[certIDCovering(n)]
    ELSE None

HasCertificate(n) == certIDCovering(n) # None

DomainAllowed(i) == \E n \in registered \cup dynamic : i = n \/ matchesWildcard(i, n)

coversRegisteredDomain(i) == \E n \in registered : i = n \/ matchesWildcard(i, n)

\* A pending name that is not registered was restored without a service.
ownerOf(n) == IF n \in registered \cup dynamic THEN owner[n] ELSE None

\* A wildcard speaks through a covered name that is not waiting for a
\* certificate of its own and, for a certificate at hand, that it serves.
wildcardOwner(w, cert) ==
    LET covered == {n \in (registered \cup dynamic) \ pending :
                        /\ matchesWildcard(w, n)
                        /\ cert = None \/ certIDCovering(n) = cert}
    IN  IF covered = {} THEN None ELSE owner[CHOOSE n \in covered : TRUE]

OwnerWithin(i, cert) == IF IsWild(i) THEN wildcardOwner(i, cert) ELSE ownerOf(i)

directoryForDomains(ids) ==
    LET concrete == {i \in ids : ~IsWild(i) /\ ownerOf(i) # None}
        owned    == {i \in ids : OwnerWithin(i, None) # None}
    IN  CASE concrete # {} -> directory[ownerOf(CHOOSE i \in concrete : TRUE)]
          [] concrete = {} /\ owned # {} ->
                directory[OwnerWithin(CHOOSE i \in owned : TRUE, None)]
          [] OTHER -> RunDirectory

\* The directory the owner of a certificate's member wants, its own otherwise.
certOwnedDirectory(cert, recorded, i) ==
    LET s == OwnerWithin(i, cert) IN IF s = None THEN recorded ELSE directory[s]

HasValidCertificate(n) ==
    /\ CertFor(n) # None
    /\ CertFor(n).life > LastDay
    /\ ownerOf(n) # None => CertFor(n).dir = directory[ownerOf(n)]

-----------------------------------------------------------------------------
(***************************************************************************)
(* Planning an order.                                                      *)
(***************************************************************************)
hasDNSProviderFor(i) == ZoneOf(i) # None

providerPartitionKey(i) == IF ZoneOf(i) = None THEN None ELSE providerOf[ZoneOf(i)]

\* A wildcard gathers the names of its zone; the rest go by provider.
solvabilityPartitionKey(i, ids) ==
    IF ZoneOf(i) # None /\ Wild(ZoneOf(i)) \in ids
    THEN <<"wildcard", ZoneOf(i)>>
    ELSE <<"provider", providerPartitionKey(i)>>

splitByProviderZone(ids) ==
    {{j \in ids : solvabilityPartitionKey(j, ids) = solvabilityPartitionKey(i, ids)} : i \in ids}

\* dynamic names: the wildcard of a mapped zone, unless it is held
planDynamicIdentifier(n) ==
    IF /\ PreferWildcard /\ ~IsWild(n) /\ ZoneOf(n) # None /\ n \notin Apex
       /\ ~IsQuarantined(Wild(ZoneOf(n)))
    THEN Wild(ZoneOf(n)) ELSE n

\* registered names: two siblings of a mapped zone become its wildcard
planIssuanceDomains(names) ==
    LET siblings(z) == {n \in names : n \notin Apex /\ zoneOf[n] = z}
        collapsed   == {z \in Zone : PreferWildcard /\ Cardinality(siblings(z)) >= 2}
    IN  {IF n \notin Apex /\ zoneOf[n] \in collapsed THEN Wild(zoneOf[n]) ELSE n : n \in names}

-----------------------------------------------------------------------------
(***************************************************************************)
(* The maps.                                                               *)
(***************************************************************************)
\* adoptWildcardCoverageLocked: the names the new wildcard takes over.
TakenOver(ids, dir) ==
    {n \in DOMAIN domainToCert :
        /\ ~IsWild(n)
        /\ \E w \in ids : matchesWildcard(w, n)
        /\ n \in registered \cup dynamic
        /\ directory[owner[n]] = dir}

adoptCertificateAt(ids, dir, by) ==
    /\ certificates' =
         [c \in DOMAIN certificates \cup {ids} |->
            IF c = ids THEN [life |-> Fresh, dir |-> dir, by |-> by] ELSE certificates[c]]
    /\ domainToCert' =
         [i \in DOMAIN domainToCert \cup ids |->
            IF i \in ids \cup TakenOver(ids, dir) THEN ids ELSE domainToCert[i]]

\* the stamp is computed when the certificate is adopted
adoptCertificate(ids, by) == adoptCertificateAt(ids, directoryForDomains(ids), by)

removeCertificate_KeepsMap(cert) ==
    /\ certificates' = Restrict(certificates, DOMAIN certificates \ {cert})
    /\ UNCHANGED domainToCert

removeCertificate(cert) ==
    /\ certificates' = Restrict(certificates, DOMAIN certificates \ {cert})
    /\ domainToCert' =
         Restrict(domainToCert, {i \in DOMAIN domainToCert : domainToCert[i] # cert})

-----------------------------------------------------------------------------
(***************************************************************************)
(* The ACME server: an order for ids is issued when every challenge can be *)
(* answered; it may be refused, with or without naming members, or turned  *)
(* away by a rate limit.  An issued certificate may fail to parse.         *)
(***************************************************************************)
Answers(i) == hasDNSProviderFor(i) \/ i \in routes

Outcome(ids) ==
    {[kind |-> k, named |-> {}, retry |-> 0] :
        k \in IF \A i \in ids : Answers(i) THEN {"issued"} \cup ({"unusable"} \cap actors)
              ELSE {"failed"}}
    \cup {[kind |-> "failed", named |-> s, retry |-> 0] :
            s \in IF "failed" \in actors THEN SUBSET ids ELSE {}}
    \cup {[kind |-> "limited", named |-> s, retry |-> t] :
            s \in IF "limited" \in actors THEN SUBSET ids ELSE {}, t \in {0, RetryTime}}

\* probeDomains: wildcards and names of a DNS-01 zone are not probed
Unreachable(ids) == {i \in ids : ~IsWild(i) /\ ~hasDNSProviderFor(i) /\ i \notin routes}

identifyFailedDomains(named, ids, probed) ==
    CASE named # {} -> named
      [] named = {} /\ Unreachable(ids \cap probed) # {} -> Unreachable(ids \cap probed)
      [] OTHER -> ids
=============================================================================
