----------------------------- MODULE CacheRules -----------------------------
(***************************************************************************)
(* What the response cache may keep, under which key, for how long and for  *)
(* whom: cache_policy.go, cache_vary.go, cache_encoding.go,                 *)
(* cache_response_writer.go and the lifetime arithmetic of cache_entry.go.  *)
(*                                                                         *)
(* One resource of one service is asked for by a sequence of requests, and  *)
(* the target may answer each of them with different headers.  Module       *)
(* ResponseCache models how concurrent requests share a fetch; here each    *)
(* request runs alone and the rules themselves are spelled out.             *)
(*                                                                         *)
(* Times are in ticks, Second of them to a second, and a duration is a      *)
(* signed integer that wraps at Width, as time.Duration wraps at 2^64.      *)
(***************************************************************************)
EXTENDS Integers, FiniteSets, TLC

CONSTANTS Setting,        \* the services: [options, requests, responses], and the
                          \* bound on each one's clock, `until`
          AcceptEncoding, \* the field whose value is normalised
          Everything,     \* the "*" of a Vary header
          Unkeyable,      \* the fields that differ for every client
          Keyable,        \* the codings the cache keys on, identity included
          Identity,       \* the coding of an unencoded body
          MaxVaryFields,  \* how many fields one response may negotiate on
          Second, Width,  \* ticks to a second; durations wrap here
          None

VARIABLES setting,  \* the service: its options, its clients and its target
          store,    \* key -> entry or variant index
          now,      \* the clock
          fetched,  \* the last response forwarded: [by, key], or None
          reply     \* the last answer given from the store, or None

rulesVars == <<setting, store, now, fetched, reply>>

options == setting.options

-----------------------------------------------------------------------------
(* Durations. *)

Wrapped(ticks) == ((ticks + Width \div 2) % Width) - Width \div 2

\* parseDeltaSeconds, parseAgeHeader: None is a missing or malformed argument.
parseDeltaSeconds(seconds) ==
  IF seconds = None THEN None ELSE Wrapped(seconds * Second)

parseAgeHeader(seconds) == IF seconds = None THEN 0 ELSE Wrapped(seconds * Second)

-----------------------------------------------------------------------------
(* Keys.  A request names the codings it takes ("yes") and refuses ("no");  *)
(* `rest` is its word on the codings it does not name, "*", if it has one.  *)

Takes(r, coding) ==
  IF coding \in DOMAIN r.codings THEN r.codings[coding] = "yes"
  ELSE coding # Identity => r.rest = "yes"

normalizeAcceptEncoding(r) == {coding \in Keyable : Takes(r, coding)}

clientAcceptsEncoding(r, coding) == coding = Identity \/ Takes(r, coding)

keyValueFor(r, field) ==
  IF field = AcceptEncoding THEN normalizeAcceptEncoding(r) ELSE r.fields[field]

KeyValues(r, fields) == [field \in fields |-> keyValueFor(r, field)]

\* The key of the resource as a request asks for it, and of its variant.
cacheKey(r) == <<KeyValues(r, options.varyHeaders), <<>>>>

variantKeyFor(r, varyOn) == <<KeyValues(r, options.varyHeaders), KeyValues(r, varyOn)>>

-----------------------------------------------------------------------------
(* What may be stored. *)

requestMayUseCache(r) ==
  r.method \in {"GET", "HEAD"} /\ ~r.authorized /\ ~r.partial /\ ~r.noStore

requestAllowsStoredResponse(r) == ~r.reload

encoded(h) == h.coding # Identity

\* The fields a variant is keyed on beyond the resource's own key.
VaryFields(h) ==
  {field \in h.vary \ options.varyHeaders : field = AcceptEncoding => encoded(h)}
    \cup (IF encoded(h) THEN {AcceptEncoding} \ options.varyHeaders ELSE {})

NamesEncoding(h) == AcceptEncoding \in h.vary \cup options.varyHeaders

\* With automatic variants off, the resource's key must carry every field.
varyRefused(h) ==
  \/ Everything \in h.vary
  \/ IF options.maxVariants < 0 THEN VaryFields(h) # {}
     ELSE \/ VaryFields(h) \cap Unkeyable # {}
          \/ encoded(h) /\ ~NamesEncoding(h) /\ h.coding \notin Keyable
          \/ Cardinality(VaryFields(h)) > MaxVaryFields

sharedLifetime(h) ==
  IF parseDeltaSeconds(h.sMaxAge) # None THEN parseDeltaSeconds(h.sMaxAge)
                                        ELSE parseDeltaSeconds(h.maxAge)

freshFor(h) ==
  IF options.maxTTL > 0 /\ sharedLifetime(h) > options.maxTTL
    THEN options.maxTTL ELSE sharedLifetime(h)

staleWhileRevalidate(h) ==
  IF h.mustRevalidate \/ h.stale = None THEN 0 ELSE parseDeltaSeconds(h.stale)

responseIsStorable(h) ==
  /\ h.cacheable
  /\ ~h.noStore /\ ~h.private /\ h.public /\ ~h.noCache
  /\ sharedLifetime(h) # None /\ sharedLifetime(h) > 0
  /\ h.setCookie => options.allowSetCookie
  /\ ~h.contentRange /\ ~h.eventStream
  /\ ~varyRefused(h)

\* cachingResponseWriter: the headers decide, a HEAD never is stored, and a
\* body past the limit gives up what was captured so far.
capturing(r, h) == responseIsStorable(h) /\ r.method # "HEAD" /\ ~h.tooLarge

\* The stored form of a response.  `by` and `header` remember where it came
\* from; varyOn and variantKey are the entry's own witness.
NewEntry(r, h) ==
  LET varyOn == IF options.maxVariants < 0 THEN {} ELSE VaryFields(h)
  IN [index        |-> FALSE,
      varyOn       |-> varyOn,
      storageKey   |-> variantKeyFor(r, varyOn),
      coding       |-> h.coding,
      storedAt     |-> now,
      initialAge   |-> parseAgeHeader(h.age),
      freshFor     |-> freshFor(h),
      staleFor     |-> staleWhileRevalidate(h),
      by           |-> r,
      header       |-> h]

-----------------------------------------------------------------------------
(* What may be served. *)

age(entry) == entry.initialAge + (now - entry.storedAt)

fresh(entry) == age(entry) < entry.freshFor

\* Mutant: the age the response arrived with is forgotten.
servable_IgnoresAge(entry) ==
  now - entry.storedAt < Wrapped(entry.freshFor + entry.staleFor)

servable(entry) == age(entry) < Wrapped(entry.freshFor + entry.staleFor)

needsRevalidation(entry) == ~fresh(entry) /\ servable(entry)

entryAnswers(entry, r) ==
  /\ ~entry.index
  /\ variantKeyFor(r, entry.varyOn) = entry.storageKey
  /\ clientAcceptsEncoding(r, entry.coding)

Holds(key) == key \in DOMAIN store

\* The resource's own key, or the variant its index points this request at.
Lookup(r) ==
  IF Holds(cacheKey(r)) /\ store[cacheKey(r)].index
    THEN variantKeyFor(r, store[cacheKey(r)].varyOn)
    ELSE cacheKey(r)

Servable(r) ==
  /\ Holds(Lookup(r))
  /\ entryAnswers(store[Lookup(r)], r)
  /\ servable(store[Lookup(r)])

\* The index this lookup followed, if there was one.
IndexOf(r) == IF Holds(cacheKey(r)) /\ store[cacheKey(r)].index
              THEN store[cacheKey(r)] ELSE None

\* Whether the resource may hold one more variant.
SameShape(index, entry) == index # None /\ index.varyOn = entry.varyOn

admitted(index, entry) ==
  SameShape(index, entry) =>
    \/ entry.storageKey \in index.variants
    \/ Cardinality(index.variants) < options.maxVariants

VariantIndex(index, entry) ==
  [index    |-> TRUE,
   varyOn   |-> entry.varyOn,
   variants |-> {entry.storageKey} \cup
                  (IF SameShape(index, entry) THEN index.variants ELSE {})]

\* The variant first, then the index that makes it reachable.  A request
\* that refused the stored copy has followed no index.
storeEntry(r, entry) ==
  LET index == IF requestAllowsStoredResponse(r) THEN IndexOf(r) ELSE None
  IN IF entry.varyOn = {} THEN (entry.storageKey :> entry) @@ store
     ELSE IF ~admitted(index, entry) THEN store
     ELSE (entry.storageKey :> entry) @@ (cacheKey(r) :> VariantIndex(index, entry))
            @@ store

-----------------------------------------------------------------------------
(* The middleware. *)

\* A request that may use the cache is not answered from it: the target's
\* response goes to the client, and to the store if it may.
Forward(r, h) ==
  /\ reply' = None
  /\ IF capturing(r, h)
       THEN /\ store' = storeEntry(r, NewEntry(r, h))
            /\ fetched' = [by |-> r, key |-> NewEntry(r, h).storageKey]
       ELSE /\ UNCHANGED store
            /\ fetched' = None
  /\ UNCHANGED <<setting, now>>

ServeHTTP(r) ==
  IF ~requestMayUseCache(r)
    THEN reply' = None /\ UNCHANGED <<setting, store, now, fetched>>
  ELSE IF requestAllowsStoredResponse(r) /\ Servable(r)
    THEN /\ reply' = [to |-> r, entry |-> store[Lookup(r)]]
         /\ UNCHANGED <<setting, store, now, fetched>>
    ELSE \E h \in setting.responses : Forward(r, h)

\* RFC 5861: a stale answer is given and a copy fetched behind it.
Revalidate ==
  /\ reply # None
  /\ needsRevalidation(reply.entry)
  /\ \E h \in setting.responses : Forward(reply.to, h)

Clock ==
  /\ now < setting.until
  /\ now' = now + 1
  /\ reply' = None
  /\ UNCHANGED <<setting, store, fetched>>

\* A store is free to lose any record.
Evict(key) ==
  /\ store' = [k \in DOMAIN store \ {key} |-> store[k]]
  /\ reply' = None
  /\ fetched' = None
  /\ UNCHANGED <<setting, now>>

RulesInit ==
  /\ setting \in Setting
  /\ store = <<>>
  /\ now = 0
  /\ fetched = None
  /\ reply = None

RulesNext ==
  \/ \E r \in setting.requests : ServeHTTP(r)
  \/ Revalidate
  \/ Clock
  \/ \E key \in DOMAIN store : Evict(key)

RulesSpec == RulesInit /\ [][RulesNext]_rulesVars

-----------------------------------------------------------------------------

Duration == -(Width \div 2) .. Width \div 2 - 1

\* Every entry lies under the key it says it belongs to, an index under the
\* resource's own, and its lifetimes are durations.
RulesTypeOK ==
  /\ setting \in Setting
  /\ now \in 0 .. setting.until
  /\ \A key \in DOMAIN store :
       IF store[key].index THEN key[2] = <<>> /\ store[key].varyOn # {}
       ELSE /\ store[key].storageKey = key
            /\ store[key].freshFor \in 1 .. Width \div 2 - 1
            /\ store[key].staleFor \in Duration
  /\ fetched = None \/ fetched.by \in setting.requests
  /\ reply = None \/ reply.to \in setting.requests

\* A client is answered from the store only with what the target would have
\* negotiated with it: its values of every field the target varied the stored
\* response on are those of the client the response was fetched for, it can
\* decode the body, and if the body is encoded both take the same codings
\* (varyFieldsFor, keyValueFor, entryAnswers; cache_variant.go:94-101).
RightRepresentation ==
  reply # None =>
    LET entry == reply.entry
    IN /\ \A field \in entry.header.vary \ {AcceptEncoding} :
            reply.to.fields[field] = entry.by.fields[field]
       /\ entry.coding # Identity =>
            /\ Takes(reply.to, entry.coding)
            /\ normalizeAcceptEncoding(reply.to) = normalizeAcceptEncoding(entry.by)

\* What one client is shown another is shown only if the target said so: a
\* stored answer was marked public and neither private nor no-store, was
\* fetched without credentials, and sets no cookie unless the operator allows
\* it (requestMayUseCache, responseIsStorable; cache_policy.go:116-119).
SharedWithConsent ==
  reply # None =>
    LET h == reply.entry.header
    IN /\ h.public /\ ~h.private /\ ~h.noStore /\ ~h.noCache
       /\ ~reply.entry.by.authorized
       /\ h.setCookie => options.allowSetCookie

\* The lifetime the target asked of shared caches, in ticks that do not wrap.
Asked(h) == Second * (IF h.sMaxAge # None THEN h.sMaxAge ELSE h.maxAge)

StaleWindow(h) == IF h.mustRevalidate \/ h.stale = None THEN 0 ELSE Second * h.stale

\* An answer is never older than its target allowed, whatever numbers it
\* sent: a lifetime too large for a duration may shorten what is served, and
\* never lengthens it (parseDeltaSeconds, servable).
NeverTooOld ==
  reply # None =>
    LET entry == reply.entry
        h == entry.header
        old == now - entry.storedAt + (IF h.age = None THEN 0 ELSE Second * h.age)
    IN old < Asked(h) + StaleWindow(h)

\* Storing and looking up agree: a response just kept for a request answers
\* that request for as long as it is fresh, whatever was stored under the
\* resource before, if its client can decode it at all and the sum of its
\* windows is still a duration (storageKeyFor, admitVariant, cacheLookup).
KeptIsFound ==
  fetched # None /\ Holds(fetched.key) =>
    LET entry == store[fetched.key]
    IN /\ entry.by = fetched.by
       /\ fresh(entry)
       /\ clientAcceptsEncoding(fetched.by, entry.coding)
       /\ Wrapped(entry.freshFor + entry.staleFor) >= entry.freshFor
       => Lookup(fetched.by) = fetched.key /\ Servable(fetched.by)

\* The cache answers rightly: with what the target would have negotiated with this
\* client, agreed to share and still allows, and with what was just kept for it.
CacheAnswersRightly ==
  RightRepresentation /\ SharedWithConsent /\ NeverTooOld /\ KeptIsFound
=============================================================================
