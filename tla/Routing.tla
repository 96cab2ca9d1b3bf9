------------------------------- MODULE Routing -------------------------------
(***************************************************************************)
(* Which service a request belongs to: the ServiceMap of                   *)
(* internal/server/service_map.go, as the router's deploys, removals and   *)
(* restarts (router.go) change it under the write lock.                    *)
(*                                                                         *)
(* A host is a model value; Wildcard gives the pattern that covers it and  *)
(* AnyHost is the empty host.  A path is a sequence of segments, so that a *)
(* prefix is a prefix of whole segments, as EnsureTrailingSlash makes it.  *)
(* The state file is taken to hold what is deployed; StateFile is about    *)
(* when it does.                                                           *)
(***************************************************************************)
EXTENDS Naturals, Sequences, SequencesExt, FiniteSets

CONSTANTS
    Name,       \* names of services
    Host,       \* hosts, patterns and AnyHost
    AnyHost,
    Wildcard,   \* [Host -> Host]: "*" and the host from its first dot on
    Path,
    Options,    \* [hosts: Seq(Host), prefixes: SUBSET Path, tls: BOOLEAN]
    Nobody

Root == <<>>

VARIABLES
    services,       \* the options of each deployed service
    bindings,       \* requestServiceMap: <<host, prefix, name>>
    defaultTLS      \* defaultTLSHostname, AnyHost for none

routeVars == <<services, bindings, defaultTLS>>

Deployed == DOMAIN services

RouteInit ==
    /\ services = [n \in {} |-> Nobody]
    /\ bindings = {}
    /\ defaultTLS = AnyHost

-----------------------------------------------------------------------------
(* Lookup. *)
For(map, host) == {b \in map : b[1] = host}

bindingsForHost(map, host) ==
    IF For(map, host) # {} THEN For(map, host)
    ELSE IF For(map, Wildcard[host]) # {} THEN For(map, Wildcard[host])
    ELSE For(map, AnyHost)

(* serviceFor: bindings are sorted by the length of their prefix. *)
serviceFor(map, host, path) ==
    LET fits == {b \in bindingsForHost(map, host) : IsPrefix(b[2], path)}
    IN  IF fits = {} THEN Nobody
        ELSE (CHOOSE b \in fits : \A c \in fits : Len(c[2]) <= Len(b[2]))[3]

ServiceForHost(map, host) == serviceFor(map, host, Root)
ServiceForRequest(host, path) == serviceFor(bindings, host, path)

CheckAvailability(n, o) ==
    ~\E b \in bindings : b[1] \in ToSet(o.hosts) /\ b[2] \in o.prefixes /\ b[3] # n

-----------------------------------------------------------------------------
(* Updates. *)
BindingsOf(svcs) ==
    UNION {{<<h, p, n>> : h \in ToSet(svcs[n].hosts), p \in svcs[n].prefixes} : n \in DOMAIN svcs}

servesRootPath(o) == Root \in o.prefixes

(* Mutant: the root service is looked up before the map is rebuilt. *)
syncTLSOptionsFromRootDomain_OldMap(svcs) ==
    [n \in DOMAIN svcs |->
        IF servesRootPath(svcs[n]) THEN svcs[n]
        ELSE LET root == ServiceForHost(bindings, svcs[n].hosts[1])
             IN  [svcs[n] EXCEPT !.tls = root \in DOMAIN svcs /\ svcs[root].tls]]

(* A service on a path takes the TLS settings of the service at the root   *)
(* of its first host, or the defaults.                                     *)
syncTLSOptionsFromRootDomain(svcs) ==
    [n \in DOMAIN svcs |->
        IF servesRootPath(svcs[n]) THEN svcs[n]
        ELSE LET root == ServiceForHost(BindingsOf(svcs), svcs[n].hosts[1])
             IN  [svcs[n] EXCEPT !.tls = root # Nobody /\ svcs[root].tls]]

TLSHosts(svcs) ==
    {svcs[n].hosts[1] : n \in {m \in DOMAIN svcs : svcs[m].tls /\ svcs[m].hosts[1] # AnyHost}}

(* updateRequestServiceMap and updateDefaultTLSHostname, which takes a     *)
(* service as the map happens to be ordered and keeps the old value when   *)
(* there is none.                                                          *)
Update(svcs) ==
    LET synced == syncTLSOptionsFromRootDomain(svcs)
    IN  /\ services' = synced
        /\ bindings' = BindingsOf(svcs)
        /\ IF TLSHosts(synced) = {} THEN UNCHANGED defaultTLS
           ELSE defaultTLS' \in TLSHosts(synced)

With(svcs, n, o) == [m \in DOMAIN svcs \cup {n} |-> IF m = n THEN o ELSE svcs[m]]
Without(svcs, n) == [m \in DOMAIN svcs \ {n} |-> svcs[m]]

(* installLoadBalancer: the conflict check and Set under one write lock. *)
DeployService(n, o) ==
    /\ CheckAvailability(n, o)
    /\ Update(With(services, n, o))

RemoveService(n) ==
    /\ n \in Deployed
    /\ Update(Without(services, n))

(* RestoreLastSavedState sets the saved services one after the other; each *)
(* Set synchronises those set so far.                                      *)
Restored(order) ==
    FoldLeft(LAMBDA svcs, n : syncTLSOptionsFromRootDomain(With(svcs, n, services[n])),
             [n \in {} |-> Nobody], order)

(* Mutant: the map is built before the last service is set. *)
RestoreLastSavedState_MapsEarly ==
    \E order \in SetToSeqs(Deployed) :
        /\ services' = Restored(order)
        /\ bindings' = BindingsOf(Restored(SubSeq(order, 1, Len(order) - 1)))
        /\ IF TLSHosts(services') = {} THEN defaultTLS' = AnyHost
           ELSE defaultTLS' \in TLSHosts(services')

RestoreLastSavedState ==
    \E order \in SetToSeqs(Deployed) :
        /\ services' = Restored(order)
        /\ bindings' = BindingsOf(services')
        /\ IF TLSHosts(services') = {} THEN defaultTLS' = AnyHost
           ELSE defaultTLS' \in TLSHosts(services')

RouteNext ==
    \/ \E n \in Name, o \in Options : DeployService(n, o)
    \/ \E n \in Name : RemoveService(n)
    \/ RestoreLastSavedState

RouteSpec == RouteInit /\ [][RouteNext]_routeVars

-----------------------------------------------------------------------------
RouteTypeOK ==
    /\ Deployed \subseteq Name
    /\ \A n \in Deployed : \E tls \in BOOLEAN : [services[n] EXCEPT !.tls = tls] \in Options
    /\ bindings \subseteq Host \X Path \X Name
    /\ defaultTLS \in Host

(* Every request has at most one owner: no two services are bound to the   *)
(* same host and prefix, so the order of the bindings decides nothing.     *)
OneOwner ==
    \A b, c \in bindings : b[1] = c[1] /\ b[2] = c[2] => b[3] = c[3]

(* Deploying or removing a service never hands a request from one of the   *)
(* others to another: a request it moves came from it, goes to it, or is   *)
(* uncovered or covered by a host of its own.  A restart moves nothing.    *)
OthersKeepTheirs ==
    [][<<services, bindings>>' = <<services, bindings>> \/
       LET Kept == {n \in Deployed : n \in DOMAIN services' /\
                      services'[n].hosts = services[n].hosts /\
                      services'[n].prefixes = services[n].prefixes}
       IN  \A h \in Host, p \in Path :
             LET owners == {serviceFor(bindings, h, p), serviceFor(bindings', h, p)}
             IN  owners \subseteq Kept \/ Kept = Deployed \cup DOMAIN services' =>
                    Cardinality(owners) = 1]_routeVars

(* A service on a path is always served with the TLS setting of the        *)
(* service at the root of its first host, whichever was deployed first,    *)
(* however often either is redeployed or removed, and after a restart in   *)
(* any order.                                                              *)
TLSFollowsRoot ==
    \A n \in Deployed :
        ~servesRootPath(services[n]) =>
            LET root == ServiceForHost(bindings, services[n].hosts[1])
            IN  services[n].tls = (root # Nobody /\ services[root].tls)

(* One service owns a host and prefix, and the root of a host decides how  *)
(* all of its paths are served (CheckAvailability,                         *)
(* syncTLSOptionsFromRootDomain).                                          *)
OwnersAgree == OneOwner /\ TLSFollowsRoot

(* The host whose certificate answers a client that names none is served   *)
(* over TLS by someone.                                                    *)
DefaultTLSServed == defaultTLS # AnyHost => defaultTLS \in TLSHosts(services)
=============================================================================
