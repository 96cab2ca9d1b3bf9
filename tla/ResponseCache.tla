--------------------------- MODULE ResponseCache ---------------------------
(***************************************************************************)
(* The response cache of a fleet of proxies that share one Redis: lookup   *)
(* through the variant index, the single flight inside a proxy, the lease  *)
(* that extends it across proxies, stale-while-revalidate, the breaker in  *)
(* front of a failing store, and an operator's purge                       *)
(* (internal/server/cache_middleware.go, cache_middleware_lease.go,        *)
(* cache_inflight.go, cache_variant.go, cache_lease.go,                    *)
(* cache_store_redis.go, cache_store_redis_lease.go).                      *)
(*                                                                         *)
(* One resource is modelled, since every key of the code is derived from   *)
(* its primary key.  A body is the version of the content the target had   *)
(* when it answered, and the header value it negotiated on.  Time is the   *)
(* order of events: an entry goes stale, an entry or a lease expires, a    *)
(* wait runs out, at any moment.                                           *)
(***************************************************************************)
EXTENDS Naturals, FiniteSets

CONSTANTS
    Node,         \* proxies
    Request,      \* requests for the resource; each leads at most one call
    NodeOf,       \* the proxy a request arrives at
    Value,        \* values of the headers a response may vary on
    Field,        \* header sets a response may vary on
    MaxVariants,  \* CacheOptions.maxVariants
    Threshold,    \* cacheLeaseBreakerThreshold
    MaxVersion,   \* bound on deploys of new content
    MaxNoCache,   \* bound on requests that carry no-cache
    MaxEvents,    \* bound on expiries, deploys, failed store calls and crashes
    None

ASSUME FleetAssumption == NodeOf \in [Request -> Node] /\ None \notin Request
ASSUME BoundsAssumption ==
    MaxVersion \in Nat /\ MaxEvents \in Nat /\ Threshold \in Nat \ {0}

VARIABLES
    origin,   \* what the target serves: its content and what it negotiates on
    store,    \* the shared records by key
    lease,    \* the request whose token is at the lease key
    flight,   \* inflightGroup.calls: the leader of the call each node has
    call,     \* each leader's inflightCall
    task,     \* where each request is, with its background refresh
    answer,   \* what is known of the response each client was sent
    dropping, \* lease releases on their detached goroutines
    breaker,  \* leaseBreaker of each node
    purge,    \* the operator's purge
    hist      \* what happened, for the properties

vars == <<origin, store, lease, flight, call, task, answer, dropping,
          breaker, purge, hist>>

\* The resource's own key, and the keys its negotiated values produce.
Primary == <<None, None>>

Key == {Primary} \cup (Field \X Value)

Shape == Field \cup {None}

Response(version, varyOn, value) ==
    [index |-> FALSE, varyOn |-> varyOn, variants |-> {}, fresh |-> TRUE,
     version |-> version, value |-> IF varyOn = None THEN None ELSE value]

VariantIndex(varyOn, variants) ==
    [index |-> TRUE, varyOn |-> varyOn, variants |-> variants, fresh |-> TRUE,
     version |-> 0, value |-> None]

Entry == [index : BOOLEAN, varyOn : Shape, variants : SUBSET Key,
          fresh : BOOLEAN, version : 0..MaxVersion, value : Value \cup {None}]

NoCall == [state |-> "none", entry |-> None]

Pc == {"start", "variant", "stale", "miss", "lead", "wait", "fetch", "store",
       "publish", "restore", "finish", "follow", "done", "lost"}

TypeOK ==
    /\ origin \in [version : 0..MaxVersion, varyOn : Shape]
    /\ store \in [Key -> Entry \cup {None}]
    /\ lease \in Request \cup {None}
    /\ flight \in [Node -> Request \cup {None}]
    /\ call \in [Request -> [state : {"none", "open", "settled"},
                             entry : Entry \cup {None}]]
    /\ task \in [Request -> [pc : Pc, role : {"none", "lead", "refresh", "alone"},
                             value : Value \cup {None}, allowsStored : BOOLEAN,
                             index : Entry \cup {None}, entry : Entry \cup {None},
                             behind : Request \cup {None}, mine : BOOLEAN,
                             floor : 0..MaxVersion]]
    /\ answer \in [Request -> [rightVariant : BOOLEAN, sincePurge : BOOLEAN,
                               asWished : BOOLEAN] \cup {None}]
    /\ dropping \subseteq Request
    /\ breaker \in [Node -> [failures : 0..Threshold, cooling : BOOLEAN]]
    /\ purge \in [state : {"idle", "running", "done"}, left : SUBSET Key,
                  version : 0..MaxVersion]
    /\ hist \in [events : 0..MaxEvents, expired : SUBSET Request,
                 disturbed : BOOLEAN, overtaken : BOOLEAN]

Init ==
    /\ origin \in [version : {0}, varyOn : Shape]
    /\ store = [k \in Key |-> None]
    /\ lease = None
    /\ flight = [n \in Node |-> None]
    /\ call = [r \in Request |-> NoCall]
    /\ task \in [Request -> [pc : {"start"}, role : {"none"}, value : Value,
                             allowsStored : BOOLEAN, index : {None},
                             entry : {None}, behind : {None}, mine : {FALSE},
                             floor : {0}]]
    /\ Cardinality({r \in Request : ~task[r].allowsStored}) <= MaxNoCache
    /\ answer = [r \in Request |-> None]
    /\ dropping = {}
    /\ breaker = [n \in Node |-> [failures |-> 0, cooling |-> FALSE]]
    /\ purge = [state |-> "idle", left |-> {}, version |-> 0]
    /\ hist = [events |-> 0, expired |-> {}, disturbed |-> FALSE,
               overtaken |-> FALSE]

----------------------------------------------------------------------------
(* The variant scheme (cache_variant.go).                                  *)

\* storageKeyFor: where an entry belongs, from what it itself varies on.
StorageKey(entry) ==
    IF entry.varyOn = None THEN Primary ELSE <<entry.varyOn, entry.value>>

\* variantKeyFor: the key this request's own header values produce.
VariantKey(varyOn, r) ==
    IF varyOn = None THEN Primary ELSE <<varyOn, task[r].value>>

EntryAnswers_AnyResponse(entry, r) == entry # None /\ ~entry.index

\* entryAnswers: only a response, and only for a request that reproduces the
\* values it was stored for.
EntryAnswers(entry, r) ==
    /\ entry # None
    /\ ~entry.index
    /\ VariantKey(entry.varyOn, r) = StorageKey(entry)

\* admitVariant: the indexes that may be published beside the entry; none when
\* the resource already holds as many variants as it may.
AdmitVariant(index, entry) ==
    LET key == StorageKey(entry)
        fresh == index = None \/ index.varyOn # entry.varyOn
        held == IF fresh THEN {} ELSE index.variants
    IN  IF ~fresh /\ key \notin held /\ Cardinality(held) >= MaxVariants
          THEN {}
          ELSE {VariantIndex(entry.varyOn, held \cup {key})}

----------------------------------------------------------------------------
(* Steps of a task.                                                        *)

Go(r, next) == task' = [task EXCEPT ![r] = next]

Move(r, pc) == Go(r, [task[r] EXCEPT !.pc = pc])

\* The request, and its refresh if it started one, are over.
Done == [pc |-> "done", role |-> "none", value |-> None,
         allowsStored |-> TRUE, index |-> None,
         entry |-> None, behind |-> None, mine |-> FALSE, floor |-> 0]

\* The client is sent a response, unless it already was: is it negotiated for its
\* own header values, no older than the purge it came after, and its own fetch if
\* it asked for that?
Send(r, entry, own, floor) ==
    answer' = [answer EXCEPT ![r] =
        IF @ # None THEN @
        ELSE [rightVariant |-> entry.varyOn = None \/ entry.value = task[r].value,
              sincePurge |-> entry.version >= floor,
              asWished |-> own \/ task[r].allowsStored]]

Followers(r) == {f \in Request : task[f].pc = "follow" /\ task[f].behind = r}

\* inflightGroup.settle: once; the map only forgets the call if it still is
\* the current one.  A settled call is garbage once nobody waits on it.
Settle(r, entry) ==
    IF call[r].state = "open"
      THEN /\ call' = [call EXCEPT ![r] =
                IF Followers(r) = {} THEN NoCall
                ELSE [state |-> "settled", entry |-> entry]]
           /\ flight' = [flight EXCEPT ![NodeOf[r]] = IF @ = r THEN None ELSE @]
      ELSE UNCHANGED <<call, flight>>

\* releaser: dropped once, on a goroutine of its own, and only if acquired.
Release(r) == dropping' = IF task[r].mine THEN dropping \cup {r} ELSE dropping

\* Something the environment does, such as a store call that fails.
MayHappen == hist.events < MaxEvents

Happens(disturbs) ==
    hist' = [hist EXCEPT !.events = @ + 1, !.disturbed = @ \/ disturbs]

Disturbed == hist' = [hist EXCEPT !.disturbed = TRUE]

\* serve: what a looked-up record does for the request.
Serve(r, entry, floor) ==
    IF EntryAnswers(entry, r)
      THEN IF entry.fresh
             THEN Go(r, Done) /\ Send(r, entry, FALSE, floor)
             ELSE /\ Go(r, [task[r] EXCEPT !.pc = "stale", !.entry = entry, !.floor = floor])
                  /\ UNCHANGED answer
      ELSE Go(r, [task[r] EXCEPT !.pc = "miss", !.floor = floor]) /\ UNCHANGED answer

\* Store.Get, when the store answers; when it fails the lookup is a miss.
Get(key) == store[key]

\* ServeHTTP up to the first lookup.
Lookup(r) ==
    /\ task[r].pc = "start"
    /\ LET floor == IF purge.state = "done" THEN purge.version ELSE 0
           entry == Get(Primary)
       IN  \/ /\ task[r].allowsStored
              /\ IF entry # None /\ entry.index
                   THEN /\ Go(r, [task[r] EXCEPT !.pc = "variant", !.index = entry,
                                                 !.floor = floor])
                        /\ UNCHANGED answer
                   ELSE Serve(r, entry, floor)
              /\ UNCHANGED hist
           \/ /\ ~task[r].allowsStored
              /\ Go(r, [task[r] EXCEPT !.pc = "miss", !.floor = floor])
              /\ UNCHANGED <<answer, hist>>
           \/ /\ task[r].allowsStored /\ MayHappen
              /\ Happens(FALSE)
              /\ Go(r, [task[r] EXCEPT !.pc = "miss", !.floor = floor])
              /\ UNCHANGED answer
    /\ UNCHANGED <<origin, store, lease, flight, call, dropping, breaker, purge>>

\* ServeHTTP's second lookup, at the key the index leads to.
LookupVariant(r) ==
    /\ task[r].pc = "variant"
    /\ \/ /\ Serve(r, Get(VariantKey(task[r].index.varyOn, r)), task[r].floor)
          /\ UNCHANGED hist
       \/ /\ MayHappen
          /\ Happens(FALSE)
          /\ Move(r, "miss")
          /\ UNCHANGED answer
    /\ UNCHANGED <<origin, store, lease, flight, call, dropping, breaker, purge>>

\* inflightGroup.join, by a miss or by the background refresh.
Join(r, leads, follows) ==
    IF flight[NodeOf[r]] = None
      THEN /\ flight' = [flight EXCEPT ![NodeOf[r]] = r]
           /\ call' = [call EXCEPT ![r].state = "open"]
           /\ Go(r, leads)
      ELSE Go(r, follows) /\ UNCHANGED <<flight, call>>

\* fetch: the first request of this proxy leads, the others queue behind it.
Fetch(r) ==
    /\ task[r].pc = "miss"
    /\ Join(r, [task[r] EXCEPT !.pc = "lead", !.role = "lead"],
               [task[r] EXCEPT !.pc = "follow", !.behind = flight[NodeOf[r]]])
    /\ UNCHANGED <<origin, store, lease, answer, dropping, breaker, purge, hist>>

\* revalidate: the client gets the stale copy, and one refresh runs behind it.
Revalidate(r) ==
    /\ task[r].pc = "stale"
    /\ Send(r, task[r].entry, FALSE, task[r].floor)
    /\ Join(r, [task[r] EXCEPT !.pc = "lead", !.role = "refresh"], Done)
    /\ UNCHANGED <<origin, store, lease, dropping, breaker, purge, hist>>

\* leaseBreaker.open: its answer and what asking does.
BreakerOpen(n) == breaker[n].failures >= Threshold /\ breaker[n].cooling

Asked(n) == IF breaker[n].failures >= Threshold THEN Threshold - 1
                                                ELSE breaker[n].failures

BreakerFailed(n, failures) ==
    breaker' = [breaker EXCEPT ![n] =
        [failures |-> IF failures < Threshold THEN failures + 1 ELSE Threshold,
         cooling |-> failures + 1 >= Threshold]]

BreakerSucceeded(n) ==
    breaker' = [breaker EXCEPT ![n] = [failures |-> 0, cooling |-> FALSE]]

\* Whether SETNX finds no lease at the key.
SetNX == lease = None

\* acquireLease and AcquireLease: taken waits, or ends a refresh; every other
\* outcome grants the fetch.  A SETNX whose reply is lost may have been applied.
AcquireLease(r) ==
    LET n == NodeOf[r]
        asks == task[r].allowsStored \/ task[r].role = "refresh"
    IN
    /\ task[r].pc = "lead"
    /\ \/ /\ ~asks \/ BreakerOpen(n)
          /\ Move(r, "fetch")
          /\ Disturbed
          /\ UNCHANGED <<lease, breaker, flight, call>>
       \/ /\ asks /\ ~BreakerOpen(n) /\ MayHappen
          /\ BreakerFailed(n, Asked(n))
          /\ lease' \in {lease, IF SetNX THEN r ELSE lease}
          /\ Move(r, "fetch")
          /\ Happens(TRUE)
          /\ UNCHANGED <<flight, call>>
       \/ /\ asks /\ ~BreakerOpen(n) /\ SetNX
          /\ BreakerSucceeded(n)
          /\ lease' = r
          /\ Go(r, [task[r] EXCEPT !.pc = "fetch", !.mine = TRUE])
          /\ UNCHANGED <<flight, call, hist>>
       \/ /\ asks /\ ~BreakerOpen(n) /\ ~SetNX
          /\ BreakerSucceeded(n)
          /\ IF task[r].role = "refresh"
               THEN Go(r, Done) /\ Settle(r, None)
               ELSE Move(r, "wait") /\ UNCHANGED <<flight, call>>
          /\ UNCHANGED <<lease, hist>>
    /\ UNCHANGED <<origin, store, answer, dropping, purge>>

Probe_LeavesCallOpen(r) ==
    /\ task[r].pc = "wait"
    /\ EntryAnswers(store[Primary], r) /\ store[Primary].fresh
    /\ Go(r, Done)
    /\ Send(r, store[Primary], FALSE, task[r].floor)
    /\ UNCHANGED <<origin, store, lease, flight, call, dropping, breaker, purge,
                   hist>>

\* ProbeLease: the record at the resource's own key and the lease, read together.
ProbeLease == [entry |-> store[Primary], held |-> lease # None]

\* awaitLease: one poll.  Only a fresh entry that answers ends the wait.
Probe(r) ==
    /\ task[r].pc = "wait"
    /\ LET entry == ProbeLease.entry
           answers == EntryAnswers(entry, r) /\ entry.fresh
       IN  \/ /\ answers
              /\ Go(r, Done)
              /\ Send(r, entry, FALSE, task[r].floor)
              /\ Settle(r, entry)
              /\ BreakerSucceeded(NodeOf[r])
              /\ UNCHANGED hist
           \/ /\ ~answers /\ ~ProbeLease.held
              /\ Move(r, "fetch")
              /\ BreakerSucceeded(NodeOf[r])
              /\ Disturbed
              /\ UNCHANGED <<answer, flight, call>>
           \/ /\ MayHappen
              /\ BreakerFailed(NodeOf[r], breaker[NodeOf[r]].failures)
              /\ Move(r, "fetch")
              /\ Happens(TRUE)
              /\ UNCHANGED <<answer, flight, call>>
    /\ UNCHANGED <<origin, store, lease, dropping, purge>>

\* awaitLease: the budget runs out, or the client goes; both go on to fetch.
WaitEnds(r) ==
    /\ task[r].pc = "wait"
    /\ Move(r, "fetch")
    /\ Disturbed
    /\ UNCHANGED <<origin, store, lease, flight, call, answer, dropping,
                   breaker, purge>>

\* forwardRecording: the target answers, with its content of that moment.  A
\* response that may not be stored frees the followers and the lease at once,
\* while it streams on.  A refresh whose validator still matches is told so, and
\* restarts the stored copy's lifetime (refreshed).
Forward(r) ==
    LET fetched == Response(origin.version, origin.varyOn, task[r].value)
        stored == task[r].entry
    IN
    /\ task[r].pc = "fetch"
    /\ \/ /\ Go(r, [task[r] EXCEPT !.pc = "finish", !.entry = None, !.mine = FALSE])
          /\ Send(r, fetched, TRUE, task[r].floor)
          /\ Settle(r, None)
          /\ Release(r)
          /\ Disturbed
       \/ /\ Go(r, [task[r] EXCEPT !.pc = "store", !.entry = fetched])
          /\ Send(r, fetched, TRUE, task[r].floor)
          /\ UNCHANGED <<call, flight, dropping, hist>>
       \/ /\ task[r].role = "refresh" /\ stored.version = origin.version
          /\ Go(r, [task[r] EXCEPT !.pc = "restore", !.entry = [stored EXCEPT !.fresh = TRUE]])
          /\ UNCHANGED <<answer, call, flight, dropping, hist>>
    /\ UNCHANGED <<origin, store, lease, breaker, purge>>

\* Store.Set: a failure is only logged.
Set(key, entry) ==
    \/ store' = [store EXCEPT ![key] = entry] /\ UNCHANGED hist
    \/ MayHappen /\ Happens(FALSE) /\ UNCHANGED store

\* storeVariant: a variant over the cap is not stored; otherwise the variant
\* is written before the index that leads to it.
StoreVariant(r) ==
    LET entry == task[r].entry
        varies == entry.varyOn # None
        admitted == AdmitVariant(task[r].index, entry) # {}
    IN
    /\ task[r].pc = "store"
    /\ IF varies /\ ~admitted
         THEN Move(r, "finish") /\ UNCHANGED <<store, hist>>
         ELSE /\ Set(StorageKey(entry), entry)
              /\ Move(r, IF varies THEN "publish" ELSE "finish")
    /\ UNCHANGED <<origin, lease, flight, call, answer, dropping, breaker, purge>>

PublishIndex(r) ==
    /\ task[r].pc = "publish"
    /\ \E index \in AdmitVariant(task[r].index, task[r].entry) : Set(Primary, index)
    /\ Move(r, "finish")
    /\ UNCHANGED <<origin, lease, flight, call, answer, dropping, breaker, purge>>

\* revalidate's 304: the refreshed copy goes back where it belongs.
StoreRefreshed(r) ==
    /\ task[r].pc = "restore"
    /\ Set(StorageKey(task[r].entry), task[r].entry)
    /\ Move(r, "finish")
    /\ UNCHANGED <<origin, lease, flight, call, answer, dropping, breaker, purge>>

\* The leader's deferred calls; a request that fetched alone has none.
Finish(r) ==
    /\ task[r].pc = "finish"
    /\ Go(r, Done)
    /\ Settle(r, task[r].entry)
    /\ Release(r)
    /\ UNCHANGED <<origin, store, lease, answer, breaker, purge, hist>>

Leave(r, behind) ==
    call' = [call EXCEPT ![behind] =
        IF @.state = "settled" /\ Followers(behind) = {r} THEN NoCall ELSE @]

\* fetch, for a follower: the leader's entry if it answers this request, or a
\* fetch of its own that no one joins.
Follow(r) ==
    LET shared == call[task[r].behind].entry
    IN
    /\ task[r].pc = "follow"
    /\ call[task[r].behind].state = "settled"
    /\ IF EntryAnswers(shared, r)
         THEN Go(r, Done) /\ Send(r, shared, FALSE, task[r].floor) /\ UNCHANGED hist
         ELSE /\ Go(r, [task[r] EXCEPT !.pc = "fetch", !.role = "alone"])
              /\ Disturbed
              /\ UNCHANGED answer
    /\ Leave(r, task[r].behind)
    /\ UNCHANGED <<origin, store, lease, flight, dropping, breaker, purge>>

\* fetch, for a follower whose client gives up.
ClientLeaves(r) ==
    /\ task[r].pc = "follow"
    /\ Go(r, [Done EXCEPT !.pc = "lost"])
    /\ Leave(r, task[r].behind)
    /\ UNCHANGED <<origin, store, lease, flight, answer, dropping,
                   breaker, purge, hist>>

ReleaseLease_AnyToken(r) ==
    /\ r \in dropping
    /\ dropping' = dropping \ {r}
    /\ lease' = None
    /\ UNCHANGED <<origin, store, flight, call, task, answer, breaker, purge, hist>>

\* ReleaseLease: compare the token and delete, or fail and leave it to expire.
ReleaseLease(r) ==
    /\ r \in dropping
    /\ dropping' = dropping \ {r}
    /\ \/ lease' = (IF lease = r THEN None ELSE lease) /\ UNCHANGED hist
       \/ MayHappen /\ Happens(FALSE) /\ UNCHANGED lease
    /\ UNCHANGED <<origin, store, flight, call, task, answer, breaker, purge>>

----------------------------------------------------------------------------
(* The environment: Redis' expiry, the target, the clock, the operator.    *)

LeaseExpires ==
    /\ lease # None /\ MayHappen
    /\ lease' = None
    /\ hist' = [hist EXCEPT !.events = @ + 1, !.expired = @ \cup {lease},
                            !.disturbed = TRUE]
    /\ UNCHANGED <<origin, store, flight, call, task, answer, dropping,
                   breaker, purge>>

EntryAges(k) ==
    /\ store[k] # None /\ MayHappen
    /\ Happens(FALSE)
    /\ \/ store' = [store EXCEPT ![k] = None]
       \/ /\ store[k].fresh /\ ~store[k].index
          /\ store' = [store EXCEPT ![k].fresh = FALSE]
    /\ UNCHANGED <<origin, lease, flight, call, task, answer, dropping,
                   breaker, purge>>

\* The application is deployed: new content, perhaps negotiating otherwise.
ContentChanges ==
    /\ origin.version < MaxVersion /\ MayHappen
    /\ Happens(FALSE)
    /\ \E varyOn \in Shape :
         origin' = [version |-> origin.version + 1, varyOn |-> varyOn]
    /\ UNCHANGED <<store, lease, flight, call, task, answer, dropping, breaker,
                   purge>>

CooldownPasses(n) ==
    /\ breaker[n].cooling
    /\ breaker' = [breaker EXCEPT ![n].cooling = FALSE]
    /\ UNCHANGED <<origin, store, lease, flight, call, task, answer, dropping,
                   purge, hist>>

\* A task that has a response from before the purge in hand, to store later.
Holds(r) ==
    /\ task[r].pc \in {"store", "publish", "restore", "finish"}
    /\ task[r].entry # None
    /\ task[r].entry.version < purge.version

PurgeKeys_ResourceOnly == {Primary}

\* The keys the scan of a service's namespace matches: variants too, whose keys
\* extend the resource's own.
PurgeKeys == Key

\* Purge scans the keys in batches and deletes each batch it has read.  The one
\* that matters comes once the content has changed.
StartPurge ==
    /\ purge.state = "idle"
    /\ origin.version = MaxVersion
    /\ purge' = [state |-> "running", left |-> PurgeKeys, version |-> origin.version]
    /\ UNCHANGED <<origin, store, lease, flight, call, task, answer, dropping,
                   breaker, hist>>

PurgeBatch ==
    /\ purge.state = "running"
    /\ \E batch \in {{Primary}, Key \ {Primary}} \cap SUBSET purge.left :
         /\ store' = [k \in Key |-> IF k \in batch THEN None ELSE store[k]]
         /\ purge' = [purge EXCEPT
              !.left = @ \ batch,
              !.state = IF purge.left = batch THEN "done" ELSE @]
    /\ hist' = [hist EXCEPT !.overtaken = @ \/ \E r \in Request : Holds(r)]
    /\ UNCHANGED <<origin, lease, flight, call, task, answer, dropping, breaker>>

\* A proxy dies: its requests and its flights are gone, its lease is not.
Crash(n) ==
    /\ MayHappen
    /\ Happens(TRUE)
    /\ \E r \in Request : NodeOf[r] = n /\ task[r].pc \notin {"start", "done", "lost"}
    /\ task' = [r \in Request |->
                  IF NodeOf[r] = n /\ task[r].pc \notin {"start", "done"}
                    THEN [Done EXCEPT !.pc = "lost"] ELSE task[r]]
    /\ flight' = [flight EXCEPT ![n] = None]
    /\ call' = [r \in Request |-> IF NodeOf[r] = n THEN NoCall ELSE call[r]]
    /\ dropping' = {r \in dropping : NodeOf[r] # n}
    /\ breaker' = [breaker EXCEPT ![n] = [failures |-> 0, cooling |-> FALSE]]
    /\ UNCHANGED <<origin, store, lease, answer, purge>>

----------------------------------------------------------------------------
Step(r) ==
    \/ Lookup(r) \/ LookupVariant(r) \/ Fetch(r) \/ Revalidate(r)
    \/ AcquireLease(r) \/ Probe(r) \/ WaitEnds(r) \/ Forward(r)
    \/ StoreVariant(r) \/ PublishIndex(r) \/ StoreRefreshed(r) \/ Finish(r)
    \/ Follow(r)

Next ==
    \/ \E r \in Request : Step(r) \/ ClientLeaves(r) \/ ReleaseLease(r)
    \/ LeaseExpires \/ ContentChanges \/ StartPurge \/ PurgeBatch
    \/ \E k \in Key : EntryAges(k)
    \/ \E n \in Node : CooldownPasses(n) \/ Crash(n)

Spec == Init /\ [][Next]_vars

----------------------------------------------------------------------------
(* Properties.                                                             *)

\* A client is never sent a representation negotiated for other header values
\* than its own, whichever of lookup, coalescing and lease wait it came through
\* (entryAnswers: "a wrong guess costs a fetch and never a wrong body").
RightVariant ==
    \A r \in Request :
        answer[r] # None => answer[r].rightVariant

\* A follower that has not been woken waits on a call its proxy still has in
\* flight, whose leader is still at work: early settles and later calls for the
\* same key never strand it (inflightGroup.join and settle).
NoOrphanFollower ==
    \A r \in Request :
        task[r].pc = "follow" /\ call[task[r].behind].state # "settled"
            => /\ flight[NodeOf[r]] = task[r].behind
               /\ task[task[r].behind].pc \in
                    {"lead", "wait", "fetch", "store", "publish", "restore", "finish"}

\* The proxy that acquired the lease has it until it starts to release it,
\* unless its TTL ran out: nobody else's late release takes it away
\* (releaseCacheLease compares the token).
HolderKeepsLease ==
    \A r \in Request :
        task[r].mine /\ r \notin hist.expired
          /\ task[r].pc \in {"fetch", "store", "publish", "restore", "finish"}
            => lease = r

\* While no lease or wait runs out, no store call fails, no proxy dies, and every
\* response is storable and answers those queued behind it, the whole fleet has
\* at most one request at the target (acquireLease: "Another proxy is already
\* fetching").
FleetSingleFlight ==
    ~hist.disturbed =>
        \A r, q \in Request : task[r].pc = "fetch" /\ task[q].pc = "fetch" => r = q

\* The lease does what it is for: its holder is not robbed of it, and undisturbed
\* it keeps the fleet to one fetch (acquireLease, releaseCacheLease).
LeaseExcludes == HolderKeepsLease /\ FleetSingleFlight

\* A request that arrives after a purge completed is never sent content older
\* than the purge, unless a response fetched before it was still being stored
\* while it ran (Purge removes the index and every variant).
PurgeHolds ==
    ~hist.overtaken =>
        \A r \in Request : answer[r] # None => answer[r].sincePurge

\* The comment of acquireLease: a request carrying no-cache "must never be handed
\* the product of somebody else's" fetch.
NoCacheFetchesItsOwn ==
    \A r \in Request :
        answer[r] # None => answer[r].asWished

\* The comment of CacheOptions.MaxVariants: it "bounds how many representations
\* one resource may hold".
VariantCap ==
    \A f \in Field :
        Cardinality({v \in Value : store[<<f, v>>] # None}) <= MaxVariants
=============================================================================
