--------------------------- MODULE DynamicSources ---------------------------
(***************************************************************************)
(* The sources a service is polled from: its dynamic domains               *)
(* (dynamic_domains.go, domain_source.go, dynamic_domain_state.go) and its *)
(* dynamic redirects (dynamic_redirects.go, dynamic_redirect_state.go),    *)
(* both fetched by a poller (source_poller.go).  One service, one manager  *)
(* of either kind; the two differ in what a deploy keeps, in who may apply *)
(* a payload, in the shrink guard and in how the state file is written.    *)
(*                                                                         *)
(* A list is a set of entries.  A source has revisions, each with a list   *)
(* and an ETag.                                                            *)
(***************************************************************************)
EXTENDS Integers, FiniteSets

CONSTANTS
    Entry, Source, Poller, Admin, Other, None,
    MaxRevision,
    listOf,         \* source -> sequence of the lists of its revisions
    Setting         \* [kind, tags, sources, actors, changes]

Confirmations == 3      \* shrinkGuardConfirmations

VARIABLES
    setting,
    revision,       \* source -> its current revision
    configured,     \* the source the router has for the service, or None
    known,          \* the router knows the service
    current,        \* sources[name]: the poller in charge, or None
    state,          \* states[name]: None or [list, etag, src]
    polls,          \* holds[name].polls
    inForce,        \* the manager's allowlist, or the service's redirect map
    poller,         \* [pc, src, etag, tag, list, cancelled]
    admin,          \* deploys, removals and boots under way
    save,           \* who is writing the state file: [pc, data, fd]
    tmp, file,      \* None, Empty or a state
    changes         \* what may still happen: revisions, faults, deploys, crashes

vars == <<setting, revision, configured, known, current, state, polls, inForce,
          poller, admin, save, tmp, file, changes>>

Domains == setting.kind = "domains"
Acts(a) == a \in setting.actors
Spend == changes > 0 /\ changes' = changes - 1

\* Two sources that count their revisions give the same tags.
ETag(s) == IF setting.tags = "shared" THEN <<revision[s]>> ELSE <<s, revision[s]>>
Cut == <<0, 0>>        \* the tag of a short answer
List(s) == listOf[s][revision[s]]

\* Other: the pollers of other services, the issuer, the renewer, the prober.
Saver == Poller \cup Admin \cup {Other}
NotSaving == [pc |-> "idle", data |-> None, fd |-> None]
Empty == [list |-> {}, etag |-> None, src |-> None, torn |-> TRUE]
Record(list, etag, src) == [list |-> list, etag |-> etag, src |-> src, torn |-> FALSE]

Exited == [pc |-> "exit", src |-> None, etag |-> None, tag |-> None, list |-> {},
           cancelled |-> TRUE]
NoAdmin == [pc |-> "idle", src |-> None, prev |-> None, new |-> None, list |-> {}]

\* One poller, admin or saver goes on to the record given.
Polls(p, next) == poller' = [poller EXCEPT ![p] = next]
Manages(a, next) == admin' = [admin EXCEPT ![a] = next]
Saves(x, next) == save' = [save EXCEPT ![x] = next]

\* A tag, of a revision or of a short answer; what the manager knows of a service;
\* what a file holds.
Tag == {None, Cut} \cup {<<n>> : n \in 1..MaxRevision} \cup (Source \X (1..MaxRevision))
StateRecord == [list : SUBSET Entry, etag : Tag, src : Source \cup {None}, torn : {FALSE}]
File == StateRecord \cup {None, Empty}

PollerRecord == [pc : {"new", "wait", "sent", "apply", "set", "save", "exit"},
                 src : Source \cup {None}, etag : Tag, tag : Tag, list : SUBSET Entry,
                 cancelled : BOOLEAN]
AdminRecord == [pc : {"idle", "deploy", "stop", "remove", "drop", "save"},
                src : Source \cup {None}, prev : Poller \cup {None},
                new : Poller \cup {None}, list : SUBSET Entry]
SaveRecord == [pc : {"idle", "open", "write", "rename"}, data : StateRecord \cup {None},
               fd : {None, "tmp", "file"}]

ASSUME SourceAssumption ==
    /\ MaxRevision \in Nat \ {0}
    /\ IsFiniteSet(Entry)
    /\ \A s \in Source : listOf[s] \in [1..MaxRevision -> SUBSET Entry]
    /\ \A s \in Setting : s.changes \in Nat /\ s.sources \subseteq Source

ASSUME NameAssumption ==
    /\ None \notin Source \cup Poller \cup Admin \cup StateRecord
    /\ Poller \cap Admin = {} /\ Other \notin Poller \cup Admin

Init ==
    /\ setting \in Setting
    /\ changes = setting.changes
    /\ revision = [s \in Source |-> 1]
    /\ configured = None /\ known = FALSE
    /\ current = None /\ state = None /\ polls = 0 /\ inForce = {}
    /\ poller = [p \in Poller |-> Exited]
    /\ admin = [a \in Admin |-> NoAdmin]
    /\ save = [x \in Saver |-> NotSaving]
    /\ tmp = None /\ file = None

managed == <<configured, known, current, state, polls, inForce>>
disk == <<save, tmp, file>>

-----------------------------------------------------------------------------
(***************************************************************************)
(* The poller: a timer or a refresh starts a poll.                         *)
(***************************************************************************)
poll(p) ==
    /\ poller[p].pc = "wait"
    /\ Polls(p, IF poller[p].cancelled THEN Exited
                ELSE [poller[p] EXCEPT !.pc = "sent", !.tag = poller[p].etag])
    /\ UNCHANGED <<setting, revision, managed, admin, disk, changes>>

\* 200: the tag is kept before the body is applied.
Fetched(p, list, etag) ==
    Polls(p, [poller[p] EXCEPT !.pc = "apply", !.list = list, !.etag = etag])

Unmodified(p) == poller[p].tag # None /\ poller[p].tag = ETag(poller[p].src)

\* The answer: the body, 304, a cut body, or a failure (no endpoint, an error, a
\* status, a payload that does not parse).  A cancelled request mostly fails.
SourceAnswers(p) ==
    /\ poller[p].pc = "sent"
    /\ \/ /\ ~Unmodified(p)
          /\ Fetched(p, List(poller[p].src), ETag(poller[p].src))
          /\ UNCHANGED changes
       \/ /\ Unmodified(p) \/ poller[p].cancelled
          /\ Polls(p, [poller[p] EXCEPT !.pc = "wait"])
          /\ UNCHANGED changes
       \/ /\ Acts("faults") /\ Spend
          /\ Polls(p, [poller[p] EXCEPT !.pc = "wait"])
       \/ /\ Acts("cuts") /\ Spend
          /\ Fetched(p, {}, Cut)
    /\ UNCHANGED <<setting, revision, managed, admin, disk>>

-----------------------------------------------------------------------------
(***************************************************************************)
(* Applying a payload: under the manager's lock, then the result is put in *)
(* force, then the state is saved.                                         *)
(***************************************************************************)
Ignored(p) ==
    /\ Polls(p, [poller[p] EXCEPT !.pc = "wait"])
    /\ UNCHANGED <<state, polls>>

shrinks(removed, previous) == 10 * Cardinality(removed) > 3 * Cardinality(previous)

\* Mutant: one confirmation fewer.
evaluateShrinkHold_Early(removed, previous) ==
    IF shrinks(removed, previous) /\ polls + 2 < Confirmations THEN polls + 1 ELSE 0

\* The polls that have confirmed the removals, this one included; 0: they apply.
evaluateShrinkHold(removed, previous) ==
    IF shrinks(removed, previous) /\ polls + 1 < Confirmations THEN polls + 1 ELSE 0

\* The tag recorded, and the one forgotten while a removal is held, are those of
\* the poller in charge, whoever polled.
applyDomains(p) ==
    /\ Domains
    /\ poller[p].pc = "apply"
    /\ IF ~known \/ current = None THEN Ignored(p)
       ELSE LET previous == IF state = None THEN {} ELSE state.list
                polled   == poller[p].list
                count    == evaluateShrinkHold(previous \ polled, previous)
                applying == IF count > 0 THEN previous \cup polled ELSE polled
                etag     == IF count > 0 THEN None ELSE poller[current].etag
            IN  /\ polls' = count
                /\ state' = Record(applying, etag, None)
                /\ poller' = [q \in Poller |->
                     [poller[q] EXCEPT !.pc   = IF q = p THEN "set" ELSE @,
                                       !.list = IF q = p THEN applying ELSE @,
                                       !.etag = IF q = current THEN etag ELSE @]]
    /\ UNCHANGED <<setting, revision, configured, known, current, inForce, admin, disk, changes>>

\* A payload from a poller that is no longer in charge is dropped.
applyPayload(p) ==
    /\ ~Domains
    /\ poller[p].pc = "apply"
    /\ IF ~known \/ current # p THEN Ignored(p)
       ELSE /\ state' = Record(poller[p].list, poller[p].etag, poller[p].src)
            /\ Polls(p, [poller[p] EXCEPT !.pc = "set"])
            /\ UNCHANGED polls
    /\ UNCHANGED <<setting, revision, configured, known, current, inForce, admin, disk, changes>>

\* SetDynamicDomains, SetDynamicRedirects
PutInForce(p) ==
    /\ poller[p].pc = "set"
    /\ inForce' = IF Domains \/ known THEN poller[p].list ELSE inForce
    /\ Polls(p, [poller[p] EXCEPT !.pc = "save"])
    /\ UNCHANGED <<setting, revision, configured, known, current, state, polls, admin, disk, changes>>

-----------------------------------------------------------------------------
(***************************************************************************)
(* saveState.  The redirects' save holds a lock from the snapshot to the   *)
(* rename: one step.  The domains' does not, and all savers write the same *)
(* temporary file: opening it truncates it for every one of them, and the  *)
(* rename takes it away from under the others.                             *)
(***************************************************************************)
\* A saver's own state when its save is over.
Saved(x) ==
    /\ IF x \in Poller THEN Polls(x, [poller[x] EXCEPT !.pc = "wait"]) ELSE UNCHANGED poller
    /\ IF x \in Admin THEN Manages(x, NoAdmin) ELSE UNCHANGED admin

SaveDue(x) ==
    \/ x \in Poller /\ poller[x].pc = "save"
    \/ x \in Admin /\ admin[x].pc = "save"

Serialized == ~Domains

SaveLocked(x) ==
    /\ Serialized
    /\ file' = state
    /\ Saved(x)
    /\ UNCHANGED <<setting, revision, managed, save, tmp>>

SaveSnapshots(x) ==
    /\ ~Serialized /\ save[x].pc = "idle"
    /\ Saves(x, [pc |-> "open", data |-> state, fd |-> None])
    /\ UNCHANGED <<setting, revision, managed, poller, admin, tmp, file>>

SaveStarts(x) == SaveLocked(x) \/ SaveSnapshots(x)

SaveOpens(x) ==
    /\ save[x].pc = "open"
    /\ tmp' = Empty
    /\ Saves(x, [save[x] EXCEPT !.pc = "write", !.fd = "tmp"])
    /\ UNCHANGED <<setting, revision, managed, poller, admin, file, changes>>

\* The descriptor follows the file it opened: another saver may have renamed it.
SaveWrites(x) ==
    /\ save[x].pc = "write"
    /\ tmp' = IF save[x].fd = "tmp" THEN save[x].data ELSE tmp
    /\ file' = IF save[x].fd = "file" THEN save[x].data ELSE file
    /\ Saves(x, [save[x] EXCEPT !.pc = "rename", !.fd = None])
    /\ UNCHANGED <<setting, revision, managed, poller, admin, changes>>

SaveRenames(x) ==
    /\ save[x].pc = "rename"
    /\ IF tmp = None THEN UNCHANGED <<tmp, file>>        \* ENOENT: a warning
       ELSE file' = tmp /\ tmp' = None
    /\ save' = [y \in Saver |->
                  IF y = x THEN NotSaving
                  ELSE [save[y] EXCEPT !.fd = IF tmp = None THEN @
                                              ELSE IF @ = "tmp" THEN "file" ELSE None]]
    /\ Saved(x)
    /\ UNCHANGED <<setting, revision, managed, changes>>

-----------------------------------------------------------------------------
(***************************************************************************)
(* Deploys, removals and boots.                                            *)
(***************************************************************************)
Free(a) ==
    /\ admin[a].pc = "idle"
    /\ \A b \in Admin \ {a} : admin[b].pc = "idle" \/ Acts("race")

\* The router has the service; ServiceDeployed follows, later.
Deploy(a, s) ==
    /\ Free(a) /\ s \in setting.sources
    /\ IF configured = None THEN UNCHANGED changes ELSE Acts("deploys") /\ Spend
    /\ configured' = s /\ known' = TRUE
    /\ Manages(a, [admin[a] EXCEPT !.pc = "deploy", !.src = s])
    /\ UNCHANGED <<setting, revision, current, state, polls, inForce, poller, disk>>

\* Mutant: the tag survives a change of source.
Kept_Tag(s) ==
    IF state = None THEN Record({}, None, IF Domains THEN None ELSE s)
    ELSE IF ~Domains /\ state.src # s THEN [state EXCEPT !.src = s]
    ELSE state

\* The redirects forget the tag of another source, the domains do not.
Kept(s) ==
    IF state = None THEN Record({}, None, IF Domains THEN None ELSE s)
    ELSE IF ~Domains /\ state.src # s THEN [state EXCEPT !.etag = None, !.src = s]
    ELSE state

\* ServiceDeployed under the lock: a new poller with the tag at hand.
ServiceDeployed(a) ==
    /\ admin[a].pc = "deploy"
    /\ LET kept == Kept(admin[a].src) IN
       \E q \in {p \in Poller : /\ poller[p] = Exited
                                /\ p # current
                                /\ \A b \in Admin : p \notin {admin[b].prev, admin[b].new}} :
          /\ Polls(q, [Exited EXCEPT !.pc = "new", !.src = admin[a].src, !.etag = kept.etag,
                                     !.cancelled = FALSE])
          /\ Manages(a, [admin[a] EXCEPT !.pc = "stop", !.prev = current, !.new = q,
                                         !.list = kept.list])
          /\ current' = q
          /\ state' = kept
    /\ polls' = 0
    /\ UNCHANGED <<setting, revision, configured, known, inForce, disk, changes>>

\* Stop: cancel, and wait for a poll under way to be over.
Cancels(a) ==
    /\ admin[a].pc \in {"stop", "drop"} /\ admin[a].prev # None
    /\ ~poller[admin[a].prev].cancelled
    /\ Polls(admin[a].prev, [poller[admin[a].prev] EXCEPT !.cancelled = TRUE])
    /\ UNCHANGED <<setting, revision, managed, admin, disk, changes>>

\* Mutant: Stop does not wait.
Stopped_Unwaited(a) == admin[a].prev # None => poller[admin[a].prev].cancelled


Stopped(a) ==
    admin[a].prev # None => /\ poller[admin[a].prev].cancelled
                            /\ poller[admin[a].prev].pc \in {"new", "exit"}

\* The persisted list is put in force and the new poller starts.
DeployReturns(a) ==
    /\ admin[a].pc = "stop" /\ Stopped(a)
    /\ inForce' = IF Domains \/ (known /\ admin[a].list # {}) THEN admin[a].list ELSE inForce
    /\ Polls(admin[a].new, [poller[admin[a].new] EXCEPT !.pc = "wait"])
    /\ Manages(a, NoAdmin)
    /\ UNCHANGED <<setting, revision, configured, known, current, state, polls, disk, changes>>

\* The service goes, or is deployed without a source; ServiceRemoved follows.
Remove(a, gone) ==
    /\ Free(a) /\ Acts("removals") /\ Spend
    /\ configured # None
    /\ configured' = None /\ known' = ~gone
    /\ inForce' = IF gone /\ ~Domains THEN {} ELSE inForce    \* the map goes with the service
    /\ Manages(a, [admin[a] EXCEPT !.pc = "remove"])
    /\ UNCHANGED <<setting, revision, current, state, polls, poller, disk>>

ServiceRemoved(a) ==
    /\ admin[a].pc = "remove"
    /\ current' = None /\ state' = None /\ polls' = 0
    /\ Manages(a, IF current = None /\ state = None THEN NoAdmin
                  ELSE [NoAdmin EXCEPT !.pc = "drop", !.prev = current])
    /\ UNCHANGED <<setting, revision, configured, known, inForce, poller, disk, changes>>

RemovedClears(a) ==
    /\ admin[a].pc = "drop" /\ Stopped(a)
    /\ inForce' = {}
    /\ Manages(a, [admin[a] EXCEPT !.pc = "save"])
    /\ UNCHANGED <<setting, revision, configured, known, current, state, polls, poller, disk, changes>>

\* The proxy dies and comes back: loadState, then a deploy of what the router
\* restored.
Crash ==
    /\ Acts("crashes") /\ Spend
    /\ state' = IF file = None \/ file = Empty THEN None ELSE file
    /\ current' = None /\ polls' = 0 /\ inForce' = {}
    /\ poller' = [p \in Poller |-> Exited]
    /\ save' = [x \in Saver |-> NotSaving]
    /\ tmp' = None
    /\ \E a \in Admin :
          admin' = [b \in Admin |->
                      IF b # a \/ ~known THEN NoAdmin
                      ELSE IF configured = None THEN [NoAdmin EXCEPT !.pc = "remove"]
                      ELSE [NoAdmin EXCEPT !.pc = "deploy", !.src = configured]]
    /\ UNCHANGED <<setting, revision, configured, known, file>>

\* The application has a new list.
Publishes(s) ==
    /\ Acts("publishes") /\ Spend
    /\ revision[s] < MaxRevision
    /\ revision' = [revision EXCEPT ![s] = @ + 1]
    /\ UNCHANGED <<setting, managed, poller, admin, disk>>

-----------------------------------------------------------------------------
PollerStep(p) ==
    poll(p) \/ SourceAnswers(p) \/ applyDomains(p) \/ applyPayload(p) \/ PutInForce(p)

SaveStep(x) ==
    \/ SaveDue(x) /\ SaveStarts(x) /\ UNCHANGED changes
    \/ SaveOpens(x) \/ SaveWrites(x) \/ SaveRenames(x)

\* A save for another service, or for a hold that came or went.
OtherSaves == Acts("others") /\ Spend /\ SaveStarts(Other)

AdminStep(a) ==
    \/ ServiceDeployed(a) \/ Cancels(a) \/ DeployReturns(a)
    \/ ServiceRemoved(a) \/ RemovedClears(a)

Next ==
    \/ \E p \in Poller : PollerStep(p)
    \/ \E x \in Saver : SaveStep(x)
    \/ OtherSaves
    \/ \E a \in Admin : AdminStep(a)
    \/ \E a \in Admin, s \in Source : Deploy(a, s)
    \/ \E a \in Admin, gone \in BOOLEAN : Remove(a, gone)
    \/ Crash
    \/ \E s \in Source : Publishes(s)

\* Timers fire, requests are answered or time out, and a goroutine that can run
\* does; nobody is made to deploy, to publish or to crash.
Fairness ==
    /\ \A p \in Poller : WF_vars(PollerStep(p))
    /\ \A x \in Saver : WF_vars(SaveStep(x))
    /\ \A a \in Admin : WF_vars(AdminStep(a))

Spec == Init /\ [][Next]_vars /\ Fairness

-----------------------------------------------------------------------------
(***************************************************************************)
(* Properties.                                                             *)
(***************************************************************************)
\* The type invariant: a hold never outlives its confirmations, what the manager
\* knows is whole, a state file is whole, empty or missing, and a poller that has
\* not exited has a source.
TypeOK ==
    /\ setting \in Setting /\ changes \in 0..setting.changes
    /\ revision \in [Source -> 1..MaxRevision]
    /\ configured \in Source \cup {None} /\ known \in BOOLEAN
    /\ current \in Poller \cup {None}
    /\ state \in StateRecord \cup {None} /\ polls \in 0..(Confirmations - 1)
    /\ inForce \subseteq Entry
    /\ poller \in [Poller -> PollerRecord]
    /\ admin \in [Admin -> AdminRecord]
    /\ save \in [Saver -> SaveRecord]
    /\ tmp \in File /\ file \in File
    /\ \A p \in Poller : poller[p].pc # "exit" => poller[p].src \in Source
    /\ \A a \in Admin : admin[a].pc = "deploy" => admin[a].src \in Source

Quiet ==
    /\ \A a \in Admin : admin[a].pc = "idle"
    /\ \A p \in Poller : poller[p].pc \notin {"set", "save"}

Recorded(r) == IF r = None THEN {} ELSE r.list

\* Whatever the polls, deploys, removals, failures and crashes, what is in force
\* for a service ends up being what its source says, and stays it: no tag is
\* kept that would have the source answer "not modified" to a list the proxy
\* does not have.
Converges == <>[](configured = None \/ inForce = List(configured))

\* When no deploy, removal or payload is being worked on, the redirects in force
\* are the ones recorded for the service, and the state file has them: a payload
\* of a poller that was replaced changes neither, and a restart loses nothing.
RedirectsRecorded ==
    ~Domains /\ Quiet /\ current # None =>
       /\ inForce = Recorded(state)
       /\ Recorded(file) = Recorded(state)

\* Once a removal has returned nothing is in force for the service, no poller is
\* in charge of it and none is left running, a poll that was in flight when it
\* was removed notwithstanding.
RemovedForgets ==
    configured = None /\ (\A a \in Admin : admin[a].pc \in {"idle", "save"}) =>
       /\ inForce = {} /\ current = None
       /\ \A p \in Poller : poller[p].pc = "exit"

\* A poller that was replaced or removed leaves nothing in force, on record or in
\* charge (DynamicRedirectManager.apply, SourcePoller.Stop).
NoLateEffects == RedirectsRecorded /\ RemovedForgets

\* Fewer than three short answers, wherever they fall between good polls,
\* redeploys and restarts, never take a domain away while the source lists all
\* that is recorded (a crash itself goes back to what was saved).
FlakyNeverEvicts ==
    [][ Domains /\ setting.changes < Confirmations
        /\ current # None /\ current' = current
        /\ state.list \subseteq List(poller[current].src)
        => state.list \subseteq state'.list ]_vars

\* "One truncated or empty response from the app must not evict the certificate
\* estate" (dynamic_domains.go:33-34): with one short answer at most, nothing the
\* source still lists is taken away.
OneShortAnswerNeverEvicts ==
    [][ Domains /\ current # None /\ current' = current
        => state.list \cap List(poller[current].src) \subseteq state'.list ]_vars

\* The state file is never half written: "saveState persists the domain sets and
\* quarantine records atomically."
SavedAtomically == file # None => ~file.torn
=============================================================================
