------------------------ MODULE DynamicSourcesProofs ------------------------
(***************************************************************************)
(* Proofs about the sources of a service: a poller that was replaced or    *)
(* removed leaves nothing behind, and a few short answers take nothing     *)
(* away.                                                                   *)
(***************************************************************************)
EXTENDS DynamicSources, FiniteSetTheorems, TLAPS

\* Zenon proves most leaves; one that needs SMT says so.
USE ZenonT(60)

\* What the theorems assume: deploys and removals of a service come one after the
\* other.
OneByOne == \A s \in Setting : "race" \notin s.actors

Busy(a) == admin[a].pc # "idle"
Replacing(a) == admin[a].pc \in {"stop", "drop"}

\* At most one command is under way; a deploy has the service configured, a
\* removal has not; the poller a deploy made is in charge and not started.
AdminInv ==
  /\ \A a, b \in Admin : Busy(a) /\ Busy(b) => a = b
  /\ \A a \in Admin : admin[a].pc \in {"deploy", "stop"} => configured # None
  /\ \A a \in Admin : admin[a].pc \in {"remove", "drop", "save"} => configured = None
  /\ \A a \in Admin : admin[a].pc = "stop" =>
        /\ current # None /\ admin[a].new = current /\ admin[a].prev # current
        /\ poller[current].pc = "new"
  /\ \A a \in Admin : admin[a].pc \in {"drop", "save"} => current = None
  /\ configured # None => known
  /\ configured = None /\ (\A a \in Admin : ~Busy(a)) => current = None

\* A poller that has not exited is in charge or being replaced; one that is in
\* charge has not exited, and has something on record.
LiveInv ==
  /\ \A p \in Poller : poller[p].pc # "exit" =>
        p = current \/ \E a \in Admin : Replacing(a) /\ admin[a].prev = p
  /\ \A p \in Poller : poller[p].pc = "new" =>
        p = current /\ \E a \in Admin : admin[a].pc = "stop"
  /\ current # None =>
        poller[current].pc # "exit" /\ ~poller[current].cancelled /\ state # None

\* With nobody in charge nothing is in force, until a removal clears it.
ForceInv == current = None /\ (\A a \in Admin : admin[a].pc # "drop") => inForce = {}

\* Who is writing the state file is at that point of its work.
SaveInv ==
  \A x \in Saver : save[x].pc # "idle" =>
     /\ ~Serialized
     /\ x \in Poller => poller[x].pc = "save"
     /\ x \in Admin => admin[x].pc = "save"

\* Redirects: a list on its way into force is the one recorded; what is in force
\* is recorded, or a deploy or a payload is about to make it so; what is recorded
\* is saved, or somebody is about to.
RedirectInv ==
  ~Domains =>
    /\ configured # None =>
         \A p \in Poller : poller[p].pc = "set" => poller[p].list = Recorded(state)
    /\ configured # None /\ current # None =>
         \/ inForce = Recorded(state)
         \/ \E p \in Poller : poller[p].pc = "set"
         \/ inForce = {} /\ \E a \in Admin : admin[a].pc = "stop"
    /\ \A a \in Admin : admin[a].pc = "stop" => admin[a].list = Recorded(state)
    /\ \/ Recorded(file) = Recorded(state)
       \/ \E p \in Poller : poller[p].pc \in {"set", "save"}
       \/ \E a \in Admin : admin[a].pc \in {"drop", "save"}

SourceInv == TypeOK /\ AdminInv /\ LiveInv /\ ForceInv /\ SaveInv /\ RedirectInv

\* The source of a setting in which only its answers vary.
Steady == \A s \in Setting : s.kind = "domains" /\ s.changes < Confirmations =>
             "publishes" \notin s.actors /\ \A x, y \in s.sources : x = y

Listed(l) == \A s \in setting.sources : l \subseteq List(s)

\* The short answers that have come, each paid for: those counted towards a
\* removal, and the one that is about to be.
Short(p) == poller[p].pc = "apply" /\ \E s \in setting.sources : poller[p].list # List(s)

Few == Domains /\ setting.changes < Confirmations

\* With few changes: every deploy and every poller is about the one source,
FewSources ==
  /\ configured \in setting.sources \cup {None}
  /\ \A a \in Admin : admin[a].pc = "deploy" => admin[a].src \in setting.sources
  /\ \A p \in Poller : poller[p].pc # "exit" => poller[p].src \in setting.sources

\* nothing recorded, written or saved is more than it says,
FewRecords ==
  /\ Listed(Recorded(state)) /\ Listed(Recorded(tmp)) /\ Listed(Recorded(file))
  /\ \A x \in Saver : Listed(Recorded(save[x].data))

\* and every short answer counted, or about to be, was paid for.
FewShort ==
  /\ \A p \in Poller : Short(p) => poller[p].list = {} /\ polls + changes < setting.changes
  /\ polls + changes <= setting.changes

FewFacts == FewSources /\ FewRecords /\ FewShort

FewInv == Few => FewFacts

-----------------------------------------------------------------------------
(***************************************************************************)
(* The steps by their effect.                                              *)
(***************************************************************************)
Others(p) == \A q \in Poller \ {p} : poller'[q] = poller[q]
OtherAdmins(a) == \A b \in Admin \ {a} : admin'[b] = admin[b]

\* One poller moves to another point of its work.
Moves(p, pc) ==
  /\ Others(p)
  /\ poller'[p].pc = pc /\ poller'[p].src = poller[p].src
  /\ poller'[p].list = poller[p].list /\ poller'[p].cancelled = poller[p].cancelled

\* A poll begins, is answered, fails, or its payload is ignored.
Polled(p) ==
  /\ poller[p].pc \in {"wait", "sent", "apply"}
  /\ Others(p)
  /\ poller'[p].pc = "exit" => poller[p].cancelled
  /\ poller'[p].pc \in {"wait", "sent", "apply", "exit"}
  /\ poller'[p].pc # "exit" =>
       poller'[p].src = poller[p].src /\ poller'[p].cancelled = poller[p].cancelled
  /\ changes' <= changes
  /\ poller'[p].pc = "apply" =>
       \/ poller'[p].list = List(poller[p].src)
       \/ poller'[p].list = {} /\ changes' < changes
  /\ UNCHANGED <<setting, revision, managed, admin, disk>>

AppliedDomains(p) ==
  LET previous == Recorded(state)
      polled   == poller[p].list
      count    == evaluateShrinkHold(previous \ polled, previous)
  IN  /\ Domains /\ poller[p].pc = "apply" /\ current # None
      /\ polls' = count /\ state' # None
      /\ state'.list = IF count > 0 THEN previous \cup polled ELSE polled
      /\ \A q \in Poller \ {p} :
           /\ poller'[q].pc = poller[q].pc /\ poller'[q].src = poller[q].src
           /\ poller'[q].list = poller[q].list /\ poller'[q].cancelled = poller[q].cancelled
      /\ poller'[p].pc = "set" /\ poller'[p].src = poller[p].src
      /\ poller'[p].cancelled = poller[p].cancelled
      /\ UNCHANGED <<setting, revision, configured, known, current, inForce, admin, disk, changes>>

AppliedRedirects(p) ==
  /\ ~Domains /\ poller[p].pc = "apply" /\ current = p
  /\ state' # None /\ state'.list = poller[p].list
  /\ Moves(p, "set")
  /\ UNCHANGED <<setting, revision, configured, known, current, polls, inForce, admin, disk, changes>>

Forced(p) ==
  /\ poller[p].pc = "set" /\ Moves(p, "save")
  /\ inForce' = IF Domains \/ known THEN poller[p].list ELSE inForce
  /\ UNCHANGED <<setting, revision, configured, known, current, state, polls, admin, disk, changes>>

\* Whoever saved goes on.
Returns(x) ==
  /\ Others(x) /\ OtherAdmins(x)
  /\ x \in Poller => poller[x].pc = "save" /\ Moves(x, "wait")
  /\ x \in Admin => admin[x].pc = "save" /\ admin'[x] = NoAdmin

SavedLocked(x) ==
  /\ ~Domains /\ Returns(x) /\ file' = state /\ changes' <= changes
  /\ UNCHANGED <<setting, revision, managed, save, tmp>>

\* A save of the domains goes on; what is written is what was to be written.
Saving(x) ==
  /\ Domains
  /\ file' \in {file, save[x].data} /\ tmp' \in {tmp, save[x].data, Empty}
  /\ \A y \in Saver \ {x} : save'[y] = save[y]
  /\ save'[x].data \in {save[x].data, state}
  /\ save[x].pc # "idle" \/ SaveDue(x) \/ x = Other
  /\ changes' <= changes
  /\ UNCHANGED <<setting, revision, managed, poller, admin>>

Renamed(x) ==
  /\ Domains /\ Returns(x)
  /\ file' \in {file, tmp} /\ tmp' = None
  /\ \A y \in Saver \ {x} : save'[y].pc = save[y].pc /\ save'[y].data = save[y].data
  /\ save'[x] = NotSaving
  /\ UNCHANGED <<setting, revision, managed, changes>>

Deployed(a) ==
  \E s \in Source :
    /\ s \in setting.sources /\ \A b \in Admin : ~Busy(b)
    /\ OtherAdmins(a) /\ admin'[a].pc = "deploy" /\ admin'[a].src = s
    /\ configured' = s /\ known' = TRUE /\ changes' <= changes
    /\ UNCHANGED <<setting, revision, current, state, polls, inForce, poller, disk>>

Replaced(a) ==
  /\ admin[a].pc = "deploy" /\ OtherAdmins(a)
  /\ current' \in Poller \ {current} /\ poller[current'].pc = "exit"
  /\ admin'[a].pc = "stop" /\ admin'[a].prev = current /\ admin'[a].new = current'
  /\ admin'[a].list = Recorded(state)
  /\ Others(current')
  /\ poller'[current'].pc = "new" /\ ~poller'[current'].cancelled
  /\ poller'[current'].src = admin[a].src
  /\ state' # None /\ Recorded(state') = Recorded(state) /\ polls' = 0
  /\ UNCHANGED <<setting, revision, configured, known, inForce, disk, changes>>

Cancelled(a) ==
  LET p == admin[a].prev IN
  /\ Replacing(a) /\ p \in Poller /\ Others(p)
  /\ poller'[p].pc = poller[p].pc /\ poller'[p].src = poller[p].src
  /\ poller'[p].list = poller[p].list
  /\ UNCHANGED <<setting, revision, managed, admin, disk, changes>>

Started(a) ==
  /\ admin[a].pc = "stop" /\ Stopped(a) /\ OtherAdmins(a) /\ admin'[a] = NoAdmin
  /\ admin[a].new \in Poller => Moves(admin[a].new, "wait")
  /\ inForce' = IF Domains \/ (known /\ admin[a].list # {}) THEN admin[a].list ELSE inForce
  /\ UNCHANGED <<setting, revision, configured, known, current, state, polls, disk, changes>>

Removed(a) ==
  /\ \A b \in Admin : ~Busy(b)
  /\ OtherAdmins(a) /\ admin'[a].pc = "remove"
  /\ configured # None /\ configured' = None /\ inForce' \in {inForce, {}}
  /\ changes' <= changes
  /\ UNCHANGED <<setting, revision, current, state, polls, poller, disk>>

Dropped(a) ==
  /\ admin[a].pc = "remove" /\ OtherAdmins(a)
  /\ current' = None /\ state' = None /\ polls' = 0
  /\ IF current = None /\ state = None THEN admin'[a].pc = "idle"
     ELSE admin'[a].pc = "drop" /\ admin'[a].prev = current
  /\ UNCHANGED <<setting, revision, configured, known, inForce, poller, disk, changes>>

Cleared(a) ==
  /\ admin[a].pc = "drop" /\ Stopped(a) /\ OtherAdmins(a) /\ admin'[a].pc = "save"
  /\ inForce' = {}
  /\ UNCHANGED <<setting, revision, configured, known, current, state, polls, poller, disk, changes>>

Restarted ==
  /\ Recorded(state') = Recorded(file) /\ current' = None /\ polls' = 0 /\ inForce' = {}
  /\ \A p \in Poller : poller'[p] = Exited
  /\ \A x \in Saver : save'[x] = NotSaving
  /\ tmp' = None /\ changes' <= changes
  /\ \E a \in Admin :
       /\ \A b \in Admin \ {a} : admin'[b].pc = "idle"
       /\ admin'[a].pc = IF ~known THEN "idle" ELSE IF configured = None THEN "remove" ELSE "deploy"
       /\ admin'[a].pc = "deploy" => admin'[a].src = configured
  /\ UNCHANGED <<setting, revision, configured, known, file>>

Published ==
  /\ Acts("publishes")
  /\ changes' <= changes
  /\ UNCHANGED <<setting, managed, poller, admin, disk>>

AnyStep ==
  \/ \E p \in Poller : Polled(p) \/ AppliedDomains(p) \/ AppliedRedirects(p) \/ Forced(p)
  \/ \E x \in Saver : SavedLocked(x) \/ Saving(x) \/ Renamed(x)
  \/ \E a \in Admin : \/ Deployed(a) \/ Replaced(a) \/ Cancelled(a) \/ Started(a)
                       \/ Removed(a) \/ Dropped(a) \/ Cleared(a)
  \/ Restarted
  \/ Published
  \/ UNCHANGED vars
-----------------------------------------------------------------------------
(***************************************************************************)
(* Types, and that there are no other steps.                               *)
(***************************************************************************)
\* Moving a poller changes nothing but where it is.
LEMMA MovedPoller ==
  ASSUME TypeOK, NEW p \in Poller, NEW pc \in {"wait", "set", "save"},
         Polls(p, [poller[p] EXCEPT !.pc = pc])
  PROVE  Moves(p, pc) /\ poller' \in [Poller -> PollerRecord]
<1>1. poller \in [Poller -> PollerRecord] /\ poller[p] \in PollerRecord
  BY DEF TypeOK
<1>2. /\ [poller[p] EXCEPT !.pc = pc] \in PollerRecord
      /\ [poller[p] EXCEPT !.pc = pc].pc = pc
      /\ [poller[p] EXCEPT !.pc = pc].src = poller[p].src
      /\ [poller[p] EXCEPT !.pc = pc].list = poller[p].list
      /\ [poller[p] EXCEPT !.pc = pc].cancelled = poller[p].cancelled
  BY <1>1 DEF PollerRecord
<1> DEFINE next == [poller[p] EXCEPT !.pc = pc]
<1>3. poller' = [poller EXCEPT ![p] = next]
  BY DEF Polls
<1> HIDE DEF next
<1>4. /\ poller'[p] = next /\ Others(p)
      /\ next \in PollerRecord => poller' \in [Poller -> PollerRecord]
  BY <1>1, <1>3 DEF Others
<1> QED
  BY <1>2, <1>4 DEF Moves, next

\* An admin that goes on leaves the others alone.
LEMMA MovedAdmin ==
  ASSUME TypeOK, NEW a \in Admin, NEW next \in AdminRecord, Manages(a, next)
  PROVE  /\ admin'[a] = next /\ OtherAdmins(a)
         /\ admin' \in [Admin -> AdminRecord]
BY DEF TypeOK, Manages, OtherAdmins

\* The initial and the final records are of their types.
LEMMA Resting ==
  /\ Exited \in PollerRecord /\ Exited.pc = "exit"
  /\ NoAdmin \in AdminRecord /\ NoAdmin.pc = "idle" /\ NoAdmin.prev = None
  /\ NotSaving \in SaveRecord /\ NotSaving.pc = "idle" /\ NotSaving.data = None
  /\ Empty \in File /\ Recorded(Empty) = {}
BY DEF Exited, PollerRecord, NoAdmin, AdminRecord, NotSaving, SaveRecord, Empty, File, Tag,
       Recorded

\* A source's list and tag are of their types.
LEMMA AnswerTypes ==
  ASSUME TypeOK, NEW s \in Source
  PROVE  List(s) \in SUBSET Entry /\ ETag(s) \in Tag
<1>1. revision[s] \in 1..MaxRevision
  BY DEF TypeOK
<1> QED
  BY <1>1, SourceAssumption DEF List, ETag, Tag

\* What the manager records is of its type, and not the absence of a record.
LEMMA RecordTypes ==
  ASSUME NEW l \in SUBSET Entry, NEW e \in Tag, NEW s \in Source \cup {None}
  PROVE  /\ Record(l, e, s) \in StateRecord /\ Record(l, e, s) # None
         /\ Record(l, e, s).list = l /\ Record(l, e, s).etag = e
         /\ Recorded(Record(l, e, s)) = l
<1>1. Record(l, e, s) \in StateRecord
  BY DEF Record, StateRecord
<1>2. Record(l, e, s) # None
  BY <1>1, NameAssumption
<1> QED
  BY <1>1, <1>2 DEF Record, Recorded

\* A record, or its absence, has a list of entries.
LEMMA RecordedType == ASSUME NEW r \in File PROVE Recorded(r) \subseteq Entry
<1>1. CASE r \in StateRecord
  BY <1>1 DEF StateRecord, Recorded
<1>2. CASE r = None
  BY <1>2 DEF Recorded
<1>3. CASE r = Empty
  BY <1>3, Resting
<1> QED
  BY <1>1, <1>2, <1>3 DEF File
\* A poll, its answer, and a payload that is ignored (poll, fetch).
LEMMA PollEffect ==
  ASSUME TypeOK, NEW p \in Poller, poll(p) \/ SourceAnswers(p)
  PROVE  Polled(p) /\ TypeOK'
<1>0. poller \in [Poller -> PollerRecord] /\ poller[p] \in PollerRecord
  BY DEF TypeOK
<1>1. ASSUME poll(p) PROVE Polled(p) /\ TypeOK'
  <2> DEFINE next == IF poller[p].cancelled THEN Exited
                     ELSE [poller[p] EXCEPT !.pc = "sent", !.tag = poller[p].etag]
  <2>1. /\ next \in PollerRecord /\ next.pc \in {"exit", "sent"}
        /\ next.pc = "exit" => poller[p].cancelled
        /\ next.pc # "exit" => next.src = poller[p].src /\ next.cancelled = poller[p].cancelled
    BY <1>0, Resting DEF PollerRecord
  <2>2. poller' = [poller EXCEPT ![p] = next]
    BY <1>1 DEF poll, Polls
  <2> HIDE DEF next
  <2>3. poller'[p] = next /\ Others(p) /\ poller' \in [Poller -> PollerRecord]
    BY <1>0, <2>1, <2>2 DEF Others
  <2>4. TypeOK'
    BY <1>1, <2>1, <2>3 DEF poll, TypeOK, managed, disk, Others
  <2> QED
    BY <1>1, <2>1, <2>3, <2>4, SMTT(60) DEF poll, Polled, TypeOK
<1>2. ASSUME SourceAnswers(p), Polls(p, [poller[p] EXCEPT !.pc = "wait"]),
             changes' = changes \/ Spend
      PROVE  Polled(p) /\ TypeOK'
  <2>1. Moves(p, "wait") /\ poller' \in [Poller -> PollerRecord]
    BY <1>2, MovedPoller
  <2>2. changes' \in 0..setting.changes /\ changes' <= changes
    BY <1>2, SourceAssumption, SMTT(60) DEF Spend, TypeOK
  <2> QED
    BY <1>2, <2>1, <2>2 DEF SourceAnswers, Polled, Moves, Others, TypeOK, managed, disk
<1>3. ASSUME SourceAnswers(p), NEW l \in SUBSET Entry, NEW e \in Tag, Fetched(p, l, e),
             \/ l = List(poller[p].src) /\ changes' = changes
             \/ l = {} /\ Spend
      PROVE  Polled(p) /\ TypeOK'
  <2> DEFINE next == [poller[p] EXCEPT !.pc = "apply", !.list = l, !.etag = e]
  <2>1. /\ next \in PollerRecord /\ next.pc = "apply" /\ next.list = l
        /\ next.src = poller[p].src /\ next.cancelled = poller[p].cancelled
    BY <1>0, <1>3 DEF PollerRecord
  <2>2. poller' = [poller EXCEPT ![p] = next]
    BY <1>3 DEF Fetched, Polls
  <2> HIDE DEF next
  <2>3. poller'[p] = next /\ Others(p) /\ poller' \in [Poller -> PollerRecord]
    BY <1>0, <2>1, <2>2 DEF Others
  <2>4. /\ changes' \in 0..setting.changes /\ changes' <= changes
        /\ l = List(poller[p].src) \/ (l = {} /\ changes' < changes)
    BY <1>3, SourceAssumption, SMTT(60) DEF Spend, TypeOK
  <2>5. TypeOK'
    BY <1>3, <2>1, <2>3, <2>4 DEF SourceAnswers, TypeOK, managed, disk, Others
  <2> QED
    BY <1>3, <2>1, <2>3, <2>4, <2>5 DEF SourceAnswers, Polled
<1>4. SourceAnswers(p) => poller[p].src \in Source
  BY DEF SourceAnswers, TypeOK
<1>5. {} \in SUBSET Entry /\ Cut \in Tag
  BY DEF Tag
<1> QED
  BY <1>1, <1>2, <1>3, <1>4, <1>5, AnswerTypes DEF SourceAnswers

\* A payload applied or ignored, and put in force (apply).
LEMMA ApplyEffect ==
  ASSUME TypeOK, NEW p \in Poller, applyDomains(p) \/ applyPayload(p) \/ PutInForce(p)
  PROVE  TypeOK' /\ (Polled(p) \/ AppliedDomains(p) \/ AppliedRedirects(p) \/ Forced(p))
<1>0. poller \in [Poller -> PollerRecord] /\ poller[p] \in PollerRecord
  BY DEF TypeOK
<1>1. ASSUME Ignored(p), poller[p].pc = "apply",
             UNCHANGED <<setting, revision, configured, known, current, inForce, admin, disk, changes>>
      PROVE  TypeOK' /\ Polled(p)
  <2>1. Moves(p, "wait") /\ poller' \in [Poller -> PollerRecord]
    BY <1>1, MovedPoller DEF Ignored
  <2> QED
    BY <1>1, <2>1, SMTT(60) DEF Ignored, Polled, Moves, Others, TypeOK, managed, disk
<1>2. ASSUME applyDomains(p), ~(~known \/ current = None)
      PROVE  TypeOK' /\ AppliedDomains(p)
  <2> DEFINE previous == Recorded(state)
             polled == poller[p].list
             count == evaluateShrinkHold(previous \ polled, previous)
             applying == IF count > 0 THEN previous \cup polled ELSE polled
             etag == IF count > 0 THEN None ELSE poller[current].etag
  <2>0. /\ Domains /\ poller[p].pc = "apply" /\ current # None
        /\ UNCHANGED <<setting, revision, configured, known, current, inForce, admin, disk, changes>>
    BY <1>2 DEF applyDomains
  <2>s. polls' = count /\ state' = Record(applying, etag, None)
    BY <1>2 DEF applyDomains, Recorded
  <2>1. poller' = [q \in Poller |->
                [poller[q] EXCEPT !.pc   = IF q = p THEN "set" ELSE @,
                                  !.list = IF q = p THEN applying ELSE @,
                                  !.etag = IF q = current THEN etag ELSE @]]
    BY <1>2 DEF applyDomains, Recorded
  <2>2. previous \in SUBSET Entry /\ polled \in SUBSET Entry /\ current \in Poller
    <3>1. state \in File
      BY DEF TypeOK, File
    <3> QED
      BY <1>0, <1>2, <3>1, RecordedType DEF TypeOK, PollerRecord
  <2>3. count \in 0..(Confirmations - 1)
    BY SMTT(60) DEF evaluateShrinkHold, Confirmations, TypeOK
  <2>4. poller[current].etag \in Tag
    BY <2>2 DEF TypeOK, PollerRecord
  <2>5. applying \in SUBSET Entry /\ etag \in Tag
    BY <2>2, <2>4 DEF Tag
  <2> HIDE DEF previous, polled, count, applying, etag
  <2>6. /\ state' \in StateRecord /\ state' # None /\ state'.list = applying
    <3>1. None \in Source \cup {None}
      OBVIOUS
    <3>2. /\ Record(applying, etag, None) \in StateRecord /\ Record(applying, etag, None) # None
          /\ Record(applying, etag, None).list = applying
      BY <2>5, <3>1, RecordTypes, SMTT(60)
    <3> QED
      BY <2>s, <3>2
  <2>7. ASSUME NEW q \in Poller
        PROVE  /\ poller'[q] \in PollerRecord
               /\ poller'[q].pc = (IF q = p THEN "set" ELSE poller[q].pc)
               /\ poller'[q].list = (IF q = p THEN applying ELSE poller[q].list)
               /\ poller'[q].src = poller[q].src /\ poller'[q].cancelled = poller[q].cancelled
    <3>1. poller[q] \in PollerRecord
      BY <1>0
    <3>2. poller'[q] = [poller[q] EXCEPT !.pc   = IF q = p THEN "set" ELSE poller[q].pc,
                                  !.list = IF q = p THEN applying ELSE poller[q].list,
                                  !.etag = IF q = current THEN etag ELSE poller[q].etag]
      BY <2>1
    <3> QED
      BY <2>5, <3>1, <3>2 DEF PollerRecord
  <2>8. poller' \in [Poller -> PollerRecord]
    BY <2>1, <2>7
  <2>9. TypeOK'
    BY <2>0, <2>s, <2>3, <2>6, <2>7, <2>8 DEF TypeOK, disk
  <2> QED
    BY <2>0, <2>s, <2>6, <2>7, <2>9 DEF AppliedDomains, previous, polled, count, applying
<1>3. ASSUME applyPayload(p), ~(~known \/ current # p) PROVE TypeOK' /\ AppliedRedirects(p)
  <2>1. Moves(p, "set") /\ poller' \in [Poller -> PollerRecord]
    BY <1>3, MovedPoller DEF applyPayload
  <2>2. state' \in StateRecord /\ state' # None /\ state'.list = poller[p].list
    BY <1>0, <1>3, RecordTypes, SMTT(60) DEF applyPayload, PollerRecord
  <2> QED
    BY <1>3, <2>1, <2>2 DEF applyPayload, AppliedRedirects, Moves, Others, TypeOK, disk
<1>4. ASSUME PutInForce(p) PROVE TypeOK' /\ Forced(p)
  <2>1. Moves(p, "save") /\ poller' \in [Poller -> PollerRecord]
    BY <1>4, MovedPoller DEF PutInForce
  <2>2. inForce' \subseteq Entry
    BY <1>0, <1>4 DEF PutInForce, TypeOK, PollerRecord
  <2> QED
    BY <1>4, <2>1, <2>2 DEF PutInForce, Forced, Moves, Others, TypeOK, disk
<1> QED
  BY <1>1, <1>2, <1>3, <1>4 DEF applyDomains, applyPayload

\* A saver that goes on leaves the others alone.
LEMMA MovedSaver ==
  ASSUME TypeOK, NEW x \in Saver, NEW next \in SaveRecord, Saves(x, next)
  PROVE  /\ save'[x] = next /\ \A y \in Saver \ {x} : save'[y] = save[y]
         /\ save' \in [Saver -> SaveRecord]
BY DEF TypeOK, Saves

\* Whoever saved is at that point of its work and goes on (saveState returns).
LEMMA SavedEffect ==
  ASSUME TypeOK, NEW x \in Saver, Saved(x),
         x \in Poller => poller[x].pc = "save", x \in Admin => admin[x].pc = "save"
  PROVE  /\ Returns(x)
         /\ poller' \in [Poller -> PollerRecord] /\ admin' \in [Admin -> AdminRecord]
         /\ \A p \in Poller : poller'[p].pc # "exit" => poller'[p].src \in Source
         /\ \A a \in Admin : admin'[a].pc = "deploy" => admin'[a].src \in Source
<1>1. CASE x \in Poller
  <2>1. Moves(x, "wait") /\ poller' \in [Poller -> PollerRecord]
    BY <1>1, MovedPoller DEF Saved
  <2>2. x \notin Admin /\ UNCHANGED admin
    BY <1>1, NameAssumption DEF Saved
  <2> QED
    BY <1>1, <2>1, <2>2 DEF Returns, Moves, Others, OtherAdmins, TypeOK
<1>2. CASE x \in Admin
  <2>1. admin'[x] = NoAdmin /\ OtherAdmins(x) /\ admin' \in [Admin -> AdminRecord]
    BY <1>2, MovedAdmin, Resting DEF Saved
  <2>2. x \notin Poller /\ UNCHANGED poller
    BY <1>2, NameAssumption DEF Saved
  <2> QED
    BY <1>2, <2>1, <2>2, Resting DEF Returns, Others, OtherAdmins, TypeOK
<1>3. CASE x \notin Poller /\ x \notin Admin
  BY <1>3 DEF Saved, Returns, Others, OtherAdmins, TypeOK
<1> QED
  BY <1>1, <1>2, <1>3

\* What may change when a save starts: the budget of changes, if it is another's.
LEMMA SpendType ==
  ASSUME TypeOK, changes' = changes \/ Spend, UNCHANGED setting
  PROVE  changes' \in 0..setting'.changes /\ changes' <= changes
BY SourceAssumption, SMTT(60) DEF Spend, TypeOK

\* The steps of a save (saveState).
LEMMA SaveEffect ==
  ASSUME TypeOK, SaveInv, NEW x \in Saver, SaveStep(x) \/ (x = Other /\ OtherSaves)
  PROVE  TypeOK' /\ (SavedLocked(x) \/ Saving(x) \/ Renamed(x))
<1>0. save \in [Saver -> SaveRecord] /\ save[x] \in SaveRecord
  BY DEF TypeOK
<1>1. ASSUME SaveDue(x) \/ x = Other, changes' = changes \/ Spend, SaveLocked(x)
      PROVE  TypeOK' /\ SavedLocked(x)
  <2>1. /\ x \in Poller => poller[x].pc = "save"
        /\ x \in Admin => admin[x].pc = "save"
    BY <1>1, NameAssumption DEF SaveDue
  <2>2. changes' \in 0..setting'.changes /\ changes' <= changes
    BY <1>1, SpendType DEF SaveLocked
  <2>3. file' \in File
    BY <1>1 DEF SaveLocked, TypeOK, File
  <2>4. Saved(x)
    BY <1>1 DEF SaveLocked
  <2>5. TypeOK'
    BY <1>1, <2>1, <2>2, <2>3, <2>4, SavedEffect DEF SaveLocked, TypeOK, managed
  <2> QED
    BY <1>1, <2>1, <2>2, <2>4, <2>5, SavedEffect DEF SaveLocked, SavedLocked, Serialized
<1>2. ASSUME SaveDue(x) \/ x = Other, changes' = changes \/ Spend, SaveSnapshots(x)
      PROVE  TypeOK' /\ Saving(x)
  <2> DEFINE next == [pc |-> "open", data |-> state, fd |-> None]
  <2>1. next \in SaveRecord /\ next.data = state
    BY DEF SaveRecord, TypeOK
  <2>2. changes' \in 0..setting'.changes /\ changes' <= changes
    BY <1>2, SpendType DEF SaveSnapshots
  <2>3. Saves(x, next)
    BY <1>2 DEF SaveSnapshots
  <2> HIDE DEF next
  <2>4. /\ save'[x] = next /\ \A y \in Saver \ {x} : save'[y] = save[y]
        /\ save' \in [Saver -> SaveRecord]
    BY <2>1, <2>3, MovedSaver
  <2>5. TypeOK'
    BY <1>2, <2>2, <2>4 DEF SaveSnapshots, TypeOK, managed
  <2> QED
    BY <1>2, <2>1, <2>2, <2>4, <2>5 DEF SaveSnapshots, Saving, Serialized
<1>3. ASSUME SaveOpens(x) PROVE TypeOK' /\ Saving(x)
  <2> DEFINE next == [save[x] EXCEPT !.pc = "write", !.fd = "tmp"]
  <2>1. next \in SaveRecord /\ next.data = save[x].data
    BY <1>0 DEF SaveRecord
  <2>3. Saves(x, next)
    BY <1>3 DEF SaveOpens
  <2> HIDE DEF next
  <2>4. /\ save'[x] = next /\ \A y \in Saver \ {x} : save'[y] = save[y]
        /\ save' \in [Saver -> SaveRecord]
    BY <2>1, <2>3, MovedSaver
  <2>5. TypeOK'
    BY <1>3, <2>4, Resting DEF SaveOpens, TypeOK, managed
  <2>6. Domains /\ changes' <= changes
    BY <1>3, SMTT(60) DEF SaveOpens, SaveInv, Serialized, TypeOK
  <2> QED
    BY <1>3, <2>1, <2>4, <2>5, <2>6 DEF SaveOpens, Saving
<1>4. ASSUME SaveWrites(x) PROVE TypeOK' /\ Saving(x)
  <2> DEFINE next == [save[x] EXCEPT !.pc = "rename", !.fd = None]
  <2>1. next \in SaveRecord /\ next.data = save[x].data /\ save[x].data \in File
    BY <1>0 DEF SaveRecord, File
  <2>3. Saves(x, next)
    BY <1>4 DEF SaveWrites
  <2> HIDE DEF next
  <2>4. /\ save'[x] = next /\ \A y \in Saver \ {x} : save'[y] = save[y]
        /\ save' \in [Saver -> SaveRecord]
    BY <2>1, <2>3, MovedSaver
  <2>5. TypeOK'
    BY <1>4, <2>1, <2>4 DEF SaveWrites, TypeOK, managed
  <2>6. Domains /\ changes' <= changes
    BY <1>4, SMTT(60) DEF SaveWrites, SaveInv, Serialized, TypeOK
  <2> QED
    BY <1>4, <2>1, <2>4, <2>5, <2>6 DEF SaveWrites, Saving
<1>5. ASSUME SaveRenames(x) PROVE TypeOK' /\ Renamed(x)
  <2>1. /\ Domains
        /\ x \in Poller => poller[x].pc = "save"
        /\ x \in Admin => admin[x].pc = "save"
    BY <1>5 DEF SaveRenames, SaveInv, Serialized
  <2>2. ASSUME NEW y \in Saver \ {x}
        PROVE  save'[y] \in SaveRecord /\ save'[y].pc = save[y].pc /\ save'[y].data = save[y].data
    <3>1. save'[y] = [save[y] EXCEPT !.fd = IF tmp = None THEN save[y].fd
                                            ELSE IF save[y].fd = "tmp" THEN "file" ELSE None]
      BY <1>5, <2>2 DEF SaveRenames
    <3>2. save[y] \in SaveRecord
      BY <1>0, <2>2
    <3> QED
      BY <3>1, <3>2 DEF SaveRecord
  <2>3. save'[x] = NotSaving /\ DOMAIN save' = Saver /\ save' = [y \in Saver |-> save'[y]]
    BY <1>5 DEF SaveRenames
  <2>4. save' \in [Saver -> SaveRecord]
    BY <2>2, <2>3, Resting
  <2>5. file' \in {file, tmp} /\ tmp' = None
    BY <1>5 DEF SaveRenames
  <2>6. Saved(x)
    BY <1>5 DEF SaveRenames
  <2>7. TypeOK'
    BY <1>5, <2>1, <2>4, <2>5, <2>6, SavedEffect DEF SaveRenames, TypeOK, managed, File
  <2> QED
    BY <1>5, <2>1, <2>2, <2>3, <2>5, <2>6, <2>7, SavedEffect DEF SaveRenames, Renamed
<1> QED
  BY <1>1, <1>2, <1>3, <1>4, <1>5 DEF SaveStep, OtherSaves, SaveStarts

\* A command begins only when no other is under way (the router's lock).
LEMMA FreeAlone == ASSUME TypeOK, OneByOne, NEW a \in Admin, Free(a) PROVE \A b \in Admin : ~Busy(b)
BY DEF TypeOK, OneByOne, Free, Acts, Busy

\* Deploys and removals, as the router begins them (DeployService, RemoveService).
LEMMA BeginEffect ==
  ASSUME TypeOK, OneByOne, NEW a \in Admin
  PROVE  /\ \A s \in Source : Deploy(a, s) => TypeOK' /\ Deployed(a)
         /\ \A gone \in BOOLEAN : Remove(a, gone) => TypeOK' /\ Removed(a)
<1>0. admin \in [Admin -> AdminRecord] /\ admin[a] \in AdminRecord
  BY DEF TypeOK
<1>1. ASSUME NEW s \in Source, Deploy(a, s) PROVE TypeOK' /\ Deployed(a)
  <2> DEFINE next == [admin[a] EXCEPT !.pc = "deploy", !.src = s]
  <2>1. next \in AdminRecord /\ next.pc = "deploy" /\ next.src = s
    BY <1>0 DEF AdminRecord
  <2>2. Manages(a, next)
    BY <1>1 DEF Deploy
  <2> HIDE DEF next
  <2>3. admin'[a] = next /\ OtherAdmins(a) /\ admin' \in [Admin -> AdminRecord]
    BY <2>1, <2>2, MovedAdmin
  <2>4. changes' \in 0..setting'.changes /\ changes' <= changes
    BY <1>1, SpendType DEF Deploy
  <2>5. \A b \in Admin : ~Busy(b)
    BY <1>1, FreeAlone DEF Deploy
  <2>6. TypeOK'
    BY <1>1, <2>1, <2>3, <2>4 DEF Deploy, TypeOK, OtherAdmins, disk
  <2> QED
    BY <1>1, <2>1, <2>3, <2>4, <2>5, <2>6 DEF Deploy, Deployed
<1>2. ASSUME NEW gone \in BOOLEAN, Remove(a, gone) PROVE TypeOK' /\ Removed(a)
  <2> DEFINE next == [admin[a] EXCEPT !.pc = "remove"]
  <2>1. next \in AdminRecord /\ next.pc = "remove"
    BY <1>0 DEF AdminRecord
  <2>2. Manages(a, next)
    BY <1>2 DEF Remove
  <2> HIDE DEF next
  <2>3. admin'[a] = next /\ OtherAdmins(a) /\ admin' \in [Admin -> AdminRecord]
    BY <2>1, <2>2, MovedAdmin
  <2>4. changes' \in 0..setting'.changes /\ changes' <= changes
    BY <1>2, SpendType DEF Remove
  <2>5. \A b \in Admin : ~Busy(b)
    BY <1>2, FreeAlone DEF Remove
  <2>6. TypeOK'
    BY <1>2, <2>1, <2>3, <2>4 DEF Remove, TypeOK, OtherAdmins, disk
  <2> QED
    BY <1>2, <2>1, <2>3, <2>4, <2>5, <2>6 DEF Remove, Removed
<1> QED
  BY <1>1, <1>2

\* What a deploy keeps of the record is its list (ServiceDeployed).
LEMMA KeptEffect ==
  ASSUME TypeOK, NEW s \in Source
  PROVE  /\ Kept(s) \in StateRecord /\ Kept(s) # None
         /\ Kept(s).list = Recorded(state) /\ Recorded(Kept(s)) = Recorded(state)
         /\ Kept(s).etag \in Tag /\ Kept(s).list \subseteq Entry
<1>1. CASE state = None
  <2>1. {} \in SUBSET Entry /\ None \in Tag /\ (IF Domains THEN None ELSE s) \in Source \cup {None}
    BY DEF Tag
  <2>2. Kept(s) = Record({}, None, IF Domains THEN None ELSE s)
    BY <1>1 DEF Kept
  <2>3. Recorded(state) = {}
    BY <1>1 DEF Recorded
  <2> QED
    BY <2>1, <2>2, <2>3, RecordTypes, SMTT(60)
<1>2. CASE state # None
  <2>1. state \in StateRecord /\ None \in Tag
    BY <1>2 DEF TypeOK, Tag
  <2>2. [state EXCEPT !.etag = None, !.src = s] \in StateRecord
        /\ [state EXCEPT !.etag = None, !.src = s].list = state.list
    BY <2>1 DEF StateRecord
  <2>3. Kept(s) \in StateRecord /\ Kept(s).list = state.list
    BY <1>2, <2>1, <2>2 DEF Kept
  <2>4. Kept(s) # None
    BY <2>3, NameAssumption
  <2> QED
    BY <1>2, <2>3, <2>4 DEF Recorded, StateRecord
<1> QED
  BY <1>1, <1>2

\* The manager takes a deploy in: a new poller is in charge (ServiceDeployed).
LEMMA DeployEffect ==
  ASSUME TypeOK, NEW a \in Admin, ServiceDeployed(a) PROVE TypeOK' /\ Replaced(a)
<1>0. admin[a] \in AdminRecord /\ admin[a].src \in Source
  BY DEF TypeOK, ServiceDeployed
<1> DEFINE kept == Kept(admin[a].src)
<1>1. /\ kept \in StateRecord /\ kept # None /\ kept.list = Recorded(state)
      /\ Recorded(kept) = Recorded(state) /\ kept.etag \in Tag /\ kept.list \subseteq Entry
  BY <1>0, KeptEffect
<1> HIDE DEF kept
<1>2. PICK q \in Poller :
        /\ poller[q] = Exited /\ q # current
        /\ Polls(q, [Exited EXCEPT !.pc = "new", !.src = admin[a].src, !.etag = kept.etag,
                                   !.cancelled = FALSE])
        /\ Manages(a, [admin[a] EXCEPT !.pc = "stop", !.prev = current, !.new = q,
                                       !.list = kept.list])
        /\ current' = q
        /\ state' = kept
  BY DEF ServiceDeployed, kept
<1> DEFINE made == [Exited EXCEPT !.pc = "new", !.src = admin[a].src, !.etag = kept.etag,
                                  !.cancelled = FALSE]
           next == [admin[a] EXCEPT !.pc = "stop", !.prev = current, !.new = q,
                                    !.list = kept.list]
<1>3. /\ made \in PollerRecord /\ made.pc = "new" /\ made.src = admin[a].src /\ ~made.cancelled
  BY <1>0, <1>1 DEF Exited, PollerRecord, Tag
<1>4. /\ next \in AdminRecord /\ next.pc = "stop" /\ next.prev = current /\ next.new = q
      /\ next.list = kept.list
  BY <1>0, <1>1 DEF AdminRecord, TypeOK
<1>5. poller' = [poller EXCEPT ![q] = made] /\ Manages(a, next)
  BY <1>2 DEF Polls
<1> HIDE DEF made, next
<1>6. poller'[q] = made /\ Others(q) /\ poller' \in [Poller -> PollerRecord]
  BY <1>3, <1>5 DEF TypeOK, Others
<1>7. admin'[a] = next /\ OtherAdmins(a) /\ admin' \in [Admin -> AdminRecord]
  BY <1>4, <1>5, MovedAdmin
<1>8. /\ admin[a].pc = "deploy" /\ polls' = 0
      /\ UNCHANGED <<setting, revision, configured, known, inForce, disk, changes>>
  BY DEF ServiceDeployed
<1>9. TypeOK'
  BY <1>0, <1>1, <1>2, <1>3, <1>4, <1>6, <1>7, <1>8, SMTT(60)
  DEF TypeOK, Others, OtherAdmins, disk, Confirmations
<1> QED
  BY <1>1, <1>2, <1>3, <1>4, <1>6, <1>7, <1>8, <1>9, Resting DEF Replaced

\* A deploy or removal goes on (SourcePoller.Stop, ServiceDeployed, ServiceRemoved).
LEMMA AdminEffect ==
  ASSUME TypeOK, AdminInv, NEW a \in Admin,
         Cancels(a) \/ DeployReturns(a) \/ ServiceRemoved(a) \/ RemovedClears(a)
  PROVE  TypeOK' /\ (Cancelled(a) \/ Started(a) \/ Dropped(a) \/ Cleared(a))
<1>0. admin \in [Admin -> AdminRecord] /\ admin[a] \in AdminRecord
  BY DEF TypeOK
<1>1. ASSUME Cancels(a) PROVE TypeOK' /\ Cancelled(a)
  <2>1. admin[a].prev \in Poller
    BY <1>0, <1>1 DEF Cancels, AdminRecord
  <2> DEFINE p == admin[a].prev
             next == [poller[p] EXCEPT !.cancelled = TRUE]
  <2>2. poller \in [Poller -> PollerRecord] /\ poller[p] \in PollerRecord
    BY <2>1 DEF TypeOK
  <2>3. /\ next \in PollerRecord /\ next.pc = poller[p].pc /\ next.src = poller[p].src
        /\ next.list = poller[p].list
    BY <2>2 DEF PollerRecord
  <2>4. poller' = [poller EXCEPT ![p] = next]
    BY <1>1 DEF Cancels, Polls
  <2> HIDE DEF p, next
  <2>5. poller'[p] = next /\ Others(p) /\ poller' \in [Poller -> PollerRecord]
    BY <2>1, <2>2, <2>3, <2>4 DEF Others, p
  <2>6. TypeOK'
    BY <1>1, <2>3, <2>5 DEF Cancels, TypeOK, Others, managed, disk
  <2> QED
    BY <1>1, <2>1, <2>3, <2>5, <2>6 DEF Cancels, Cancelled, Replacing, p
<1>2. ASSUME DeployReturns(a) PROVE TypeOK' /\ Started(a)
  <2>1. admin[a].new \in Poller /\ poller[admin[a].new].pc = "new"
    BY <1>2 DEF DeployReturns, AdminInv, TypeOK
  <2>2. Moves(admin[a].new, "wait") /\ poller' \in [Poller -> PollerRecord]
    BY <1>2, <2>1, MovedPoller DEF DeployReturns
  <2>3. admin'[a] = NoAdmin /\ OtherAdmins(a) /\ admin' \in [Admin -> AdminRecord]
    BY <1>2, MovedAdmin, Resting DEF DeployReturns
  <2>4. inForce' \subseteq Entry
    BY <1>0, <1>2 DEF DeployReturns, AdminRecord, TypeOK
  <2>5. TypeOK'
    BY <1>2, <2>1, <2>2, <2>3, <2>4, Resting
    DEF DeployReturns, TypeOK, Moves, Others, OtherAdmins, disk
  <2> QED
    BY <1>2, <2>2, <2>3, <2>5 DEF DeployReturns, Started
<1>3. ASSUME ServiceRemoved(a) PROVE TypeOK' /\ Dropped(a)
  <2> DEFINE next == IF current = None /\ state = None THEN NoAdmin
                     ELSE [NoAdmin EXCEPT !.pc = "drop", !.prev = current]
  <2>1. /\ next \in AdminRecord /\ next.pc # "deploy"
        /\ IF current = None /\ state = None THEN next.pc = "idle"
           ELSE next.pc = "drop" /\ next.prev = current
    BY DEF NoAdmin, AdminRecord, TypeOK
  <2>2. Manages(a, next)
    BY <1>3 DEF ServiceRemoved
  <2> HIDE DEF next
  <2>3. admin'[a] = next /\ OtherAdmins(a) /\ admin' \in [Admin -> AdminRecord]
    BY <2>1, <2>2, MovedAdmin
  <2>4. TypeOK'
    BY <1>3, <2>1, <2>3, SMTT(60) DEF ServiceRemoved, TypeOK, OtherAdmins, disk, Confirmations
  <2> QED
    BY <1>3, <2>1, <2>3, <2>4 DEF ServiceRemoved, Dropped
<1>4. ASSUME RemovedClears(a) PROVE TypeOK' /\ Cleared(a)
  <2> DEFINE next == [admin[a] EXCEPT !.pc = "save"]
  <2>1. next \in AdminRecord /\ next.pc = "save"
    BY <1>0 DEF AdminRecord
  <2>2. Manages(a, next)
    BY <1>4 DEF RemovedClears
  <2> HIDE DEF next
  <2>3. admin'[a] = next /\ OtherAdmins(a) /\ admin' \in [Admin -> AdminRecord]
    BY <2>1, <2>2, MovedAdmin
  <2>4. TypeOK'
    BY <1>4, <2>1, <2>3 DEF RemovedClears, TypeOK, OtherAdmins, disk
  <2> QED
    BY <1>4, <2>1, <2>3, <2>4 DEF RemovedClears, Cleared
<1> QED
  BY <1>1, <1>2, <1>3, <1>4

\* A crash and the boot after it (loadState).
LEMMA CrashEffect == ASSUME TypeOK, Crash PROVE TypeOK' /\ Restarted
<1>1. state' \in StateRecord \cup {None} /\ Recorded(state') = Recorded(file)
  <2>1. CASE file = None
    BY <2>1 DEF Crash
  <2>2. CASE file = Empty
    <3>1. state' = None
      BY <2>2 DEF Crash
    <3> QED
      BY <2>2, <3>1, Resting DEF Recorded
  <2>3. CASE file # None /\ file # Empty
    BY <2>3 DEF Crash, TypeOK, File
  <2> QED
    BY <2>1, <2>2, <2>3
<1>2. PICK a \in Admin :
        admin' = [b \in Admin |->
                    IF b # a \/ ~known THEN NoAdmin
                    ELSE IF configured = None THEN [NoAdmin EXCEPT !.pc = "remove"]
                    ELSE [NoAdmin EXCEPT !.pc = "deploy", !.src = configured]]
  BY DEF Crash
<1> DEFINE rem == [NoAdmin EXCEPT !.pc = "remove"]
           dep == [NoAdmin EXCEPT !.pc = "deploy", !.src = configured]
<1>3. /\ rem \in AdminRecord /\ rem.pc = "remove"
      /\ dep \in AdminRecord /\ dep.pc = "deploy" /\ dep.src = configured
  BY DEF NoAdmin, AdminRecord, TypeOK
<1>4. admin' = [b \in Admin |-> IF b # a \/ ~known THEN NoAdmin
                               ELSE IF configured = None THEN rem ELSE dep]
  BY <1>2
<1> HIDE DEF rem, dep
<1>5. /\ admin' \in [Admin -> AdminRecord]
      /\ \A b \in Admin : admin'[b].pc = "deploy" => admin'[b].src \in Source
      /\ \A b \in Admin \ {a} : admin'[b] = NoAdmin
      /\ admin'[a] = IF ~known THEN NoAdmin ELSE IF configured = None THEN rem ELSE dep
  BY <1>3, <1>4, Resting DEF TypeOK
<1>6. /\ poller' \in [Poller -> PollerRecord] /\ \A p \in Poller : poller'[p] = Exited
      /\ save' \in [Saver -> SaveRecord] /\ \A x \in Saver : save'[x] = NotSaving
  BY Resting DEF Crash
<1>7. changes' \in 0..setting'.changes /\ changes' <= changes
  BY SpendType DEF Crash
<1>8. TypeOK'
  BY <1>1, <1>5, <1>6, <1>7, Resting, SMTT(60) DEF Crash, TypeOK, File, Confirmations
<1> QED
  BY <1>1, <1>3, <1>5, <1>6, <1>7, <1>8, Resting, SMTT(60) DEF Crash, Restarted

\* Every step has one of these effects.
LEMMA SourceCases ==
  ASSUME OneByOne, SourceInv, [Next]_vars PROVE TypeOK' /\ AnyStep
<1> USE DEF SourceInv
<1>1. ASSUME NEW p \in Poller, PollerStep(p) PROVE TypeOK' /\ AnyStep
  BY <1>1, PollEffect, ApplyEffect DEF PollerStep, AnyStep
<1>2. ASSUME NEW x \in Saver, SaveStep(x) \/ (x = Other /\ OtherSaves) PROVE TypeOK' /\ AnyStep
  BY <1>2, SaveEffect DEF AnyStep
<1>3. ASSUME NEW a \in Admin, AdminStep(a) PROVE TypeOK' /\ AnyStep
  BY <1>3, DeployEffect, AdminEffect DEF AdminStep, AnyStep
<1>4. ASSUME NEW a \in Admin, NEW s \in Source, Deploy(a, s) PROVE TypeOK' /\ AnyStep
  BY <1>4, BeginEffect DEF AnyStep
<1>5. ASSUME NEW a \in Admin, NEW gone \in BOOLEAN, Remove(a, gone) PROVE TypeOK' /\ AnyStep
  BY <1>5, BeginEffect DEF AnyStep
<1>6. ASSUME Crash PROVE TypeOK' /\ AnyStep
  BY <1>6, CrashEffect DEF AnyStep
<1>7. ASSUME NEW s \in Source, Publishes(s) PROVE TypeOK' /\ AnyStep
  <2>1. changes' \in 0..setting'.changes /\ changes' <= changes
    BY <1>7, SpendType DEF Publishes
  <2>2. revision' \in [Source -> 1..MaxRevision]
    BY <1>7, SourceAssumption, SMTT(60) DEF Publishes, TypeOK
  <2>3. TypeOK'
    BY <1>7, <2>1, <2>2 DEF Publishes, TypeOK, managed, disk
  <2> QED
    BY <1>7, <2>1, <2>3 DEF Publishes, Published, AnyStep
<1>8. ASSUME UNCHANGED vars PROVE TypeOK' /\ AnyStep
  BY <1>8 DEF AnyStep, vars, TypeOK
<1>9. Other \in Saver
  BY DEF Saver
<1> QED
  BY <1>1, <1>2, <1>3, <1>4, <1>5, <1>6, <1>7, <1>8, <1>9 DEF Next

-----------------------------------------------------------------------------
(***************************************************************************)
(* The invariant, part by part and effect by effect.                       *)
(***************************************************************************)
\* At most one command is under way after every step, with its poller in charge.
LEMMA AdminKept == ASSUME SourceInv, TypeOK', AnyStep PROVE AdminInv'
<1>i. AdminInv
  BY DEF SourceInv
<1>t. current \in Poller \cup {None} /\ None \notin Poller /\ None \notin Source
  BY NameAssumption DEF SourceInv, TypeOK
<1>1. ASSUME NEW p \in Poller, Polled(p) PROVE AdminInv'
  BY <1>1, <1>i, <1>t, Resting DEF Polled, Others, managed, disk, AdminInv, Busy
<1>2. ASSUME NEW p \in Poller, AppliedDomains(p) PROVE AdminInv'
  BY <1>2, <1>i, <1>t, Resting DEF AppliedDomains, disk, AdminInv, Busy
<1>3. ASSUME NEW p \in Poller, AppliedRedirects(p) PROVE AdminInv'
  BY <1>3, <1>i, <1>t, Resting DEF AppliedRedirects, Moves, Others, disk, AdminInv, Busy
<1>4. ASSUME NEW p \in Poller, Forced(p) PROVE AdminInv'
  BY <1>4, <1>i, <1>t, Resting DEF Forced, Moves, Others, disk, AdminInv, Busy
<1>5. ASSUME NEW x \in Saver, SavedLocked(x) PROVE AdminInv'
  BY <1>5, <1>i, <1>t, Resting, SMTT(60) DEF SavedLocked, Returns, Moves, Others, OtherAdmins, managed, AdminInv, Busy
<1>6. ASSUME NEW x \in Saver, Saving(x) PROVE AdminInv'
  BY <1>6, <1>i, <1>t, Resting DEF Saving, SaveDue, managed, AdminInv, Busy
<1>7. ASSUME NEW x \in Saver, Renamed(x) PROVE AdminInv'
  BY <1>7, <1>i, <1>t, Resting, SMTT(60) DEF Renamed, Returns, Moves, Others, OtherAdmins, managed, AdminInv, Busy
<1>8. ASSUME NEW a \in Admin, Deployed(a) PROVE AdminInv'
  BY <1>8, <1>i, <1>t, Resting, SMTT(60) DEF Deployed, OtherAdmins, disk, AdminInv, Busy
<1>9. ASSUME NEW a \in Admin, Replaced(a) PROVE AdminInv'
  BY <1>9, <1>i, <1>t, Resting, SMTT(60) DEF Replaced, Others, OtherAdmins, disk, AdminInv, Busy
<1>10. ASSUME NEW a \in Admin, Cancelled(a) PROVE AdminInv'
  BY <1>10, <1>i, <1>t, Resting DEF Cancelled, Others, managed, disk, AdminInv, Busy
<1>11. ASSUME NEW a \in Admin, Started(a) PROVE AdminInv'
  BY <1>11, <1>i, <1>t, Resting, SMTT(60) DEF Started, Moves, Others, OtherAdmins, Stopped, disk, AdminInv, Busy
<1>12. ASSUME NEW a \in Admin, Removed(a) PROVE AdminInv'
  BY <1>12, <1>i, <1>t, Resting DEF Removed, OtherAdmins, disk, AdminInv, Busy
<1>13. ASSUME NEW a \in Admin, Dropped(a) PROVE AdminInv'
  BY <1>13, <1>i, <1>t, Resting, SMTT(60) DEF Dropped, OtherAdmins, disk, AdminInv, Busy
<1>14. ASSUME NEW a \in Admin, Cleared(a) PROVE AdminInv'
  BY <1>14, <1>i, <1>t, Resting, SMTT(60) DEF Cleared, OtherAdmins, Stopped, disk, AdminInv, Busy
<1>15. ASSUME Restarted PROVE AdminInv'
  BY <1>15, <1>i, <1>t, Resting DEF Restarted, AdminInv, Busy
<1>16. ASSUME Published PROVE AdminInv'
  BY <1>16, <1>i, <1>t, Resting DEF Published, managed, disk, AdminInv, Busy
<1>17. ASSUME UNCHANGED vars PROVE AdminInv'
  BY <1>17, <1>i, <1>t, Resting DEF vars, AdminInv, Busy
<1> QED
  BY <1>1, <1>2, <1>3, <1>4, <1>5, <1>6, <1>7, <1>8, <1>9, <1>10, <1>11, <1>12, <1>13, <1>14, <1>15, <1>16, <1>17 DEF AnyStep

\* A step that stops no poller but those replaced, makes none, and goes on with a
\* replacement.
Undisturbed ==
  /\ current' = current /\ (state # None => state' # None)
  /\ \A a \in Admin : Replacing(a) => admin'[a] = admin[a]
  /\ \A p \in Poller : /\ poller'[p].pc # "exit" => poller[p].pc # "exit"
                       /\ poller'[p].pc = "new" => poller[p].pc = "new"
  /\ current # None => poller'[current].pc # "exit" /\ ~poller'[current].cancelled

\* Such a step leaves the pollers in charge.
LEMMA LiveFrame == ASSUME LiveInv, Undisturbed PROVE LiveInv'
<1>1. ASSUME NEW p \in Poller, poller'[p].pc # "exit"
      PROVE  p = current' \/ \E a \in Admin : Replacing(a)' /\ admin'[a].prev = p
  BY <1>1, SMTT(60) DEF Undisturbed, LiveInv, Replacing
<1>2. ASSUME NEW p \in Poller, poller'[p].pc = "new"
      PROVE  p = current' /\ \E a \in Admin : admin'[a].pc = "stop"
  BY <1>2 DEF Undisturbed, LiveInv, Replacing
<1> QED
  BY <1>1, <1>2 DEF Undisturbed, LiveInv

\* When a deploy starts its poller every other one has exited (SourcePoller.Stop
\* waits for it).
LEMMA StartedAlone ==
  ASSUME AdminInv, LiveInv, current \in Poller \cup {None}, None \notin Poller,
         NEW a \in Admin, Started(a)
  PROVE  /\ current \in Poller /\ admin[a].new = current /\ poller[current].pc = "new"
         /\ \A b \in Admin \ {a} : admin[b].pc = "idle"
         /\ \A q \in Poller \ {current} : poller[q].pc = "exit"
<1>1. current \in Poller /\ admin[a].new = current /\ poller[current].pc = "new"
  BY DEF Started, AdminInv
<1>2. \A b \in Admin \ {a} : admin[b].pc = "idle"
  BY DEF Started, AdminInv, Busy
<1>3. ASSUME NEW q \in Poller \ {current} PROVE poller[q].pc = "exit"
  <2>1. poller[q].pc # "exit" => admin[a].prev = q
    BY <1>2, <1>3 DEF LiveInv, Replacing
  <2>2. poller[q].pc # "new"
    BY <1>3 DEF LiveInv
  <2> QED
    BY <1>3, <2>1, <2>2 DEF Started, Stopped
<1> QED
  BY <1>1, <1>2, <1>3

\* When a removal has stopped its poller every one has exited.
LEMMA ClearedAlone ==
  ASSUME AdminInv, LiveInv, None \notin Poller, NEW a \in Admin, Cleared(a)
  PROVE  /\ configured = None /\ current = None
         /\ \A b \in Admin \ {a} : admin[b].pc = "idle"
         /\ \A q \in Poller : poller[q].pc = "exit"
<1>1. configured = None /\ current = None
  BY DEF Cleared, AdminInv
<1>2. \A b \in Admin \ {a} : admin[b].pc = "idle"
  BY DEF Cleared, AdminInv, Busy
<1>3. ASSUME NEW q \in Poller PROVE poller[q].pc = "exit"
  <2>1. poller[q].pc # "exit" => admin[a].prev = q
    BY <1>1, <1>2, <1>3 DEF LiveInv, Replacing
  <2>2. poller[q].pc # "new"
    BY <1>1, <1>3 DEF LiveInv
  <2> QED
    BY <1>3, <2>1, <2>2 DEF Cleared, Stopped
<1> QED
  BY <1>1, <1>2, <1>3

\* Every step leaves a poller that has not exited in charge or being replaced.
LEMMA LiveKept == ASSUME SourceInv, TypeOK', AnyStep PROVE LiveInv'
<1>i. AdminInv /\ LiveInv /\ ForceInv /\ SaveInv
  BY DEF SourceInv
<1>t. current \in Poller \cup {None} /\ None \notin Poller /\ None \notin Source
  BY NameAssumption DEF SourceInv, TypeOK
<1>1. ASSUME NEW p \in Poller, Polled(p) PROVE LiveInv'
  <2>1. /\ current' = current /\ (state # None => state' # None)
        /\ \A b \in Admin : Replacing(b) => admin'[b] = admin[b]
    BY <1>1 DEF Polled, Others, managed, Replacing
  <2>2. \A q \in Poller : /\ poller'[q].pc # "exit" => poller[q].pc # "exit"
                          /\ poller'[q].pc = "new" => poller[q].pc = "new"
    BY <1>1 DEF Polled, Others, managed
  <2>3. current # None => poller'[current].pc # "exit" /\ ~poller'[current].cancelled
    BY <1>1, <1>i, <1>t DEF Polled, Others, managed, LiveInv
  <2>4. Undisturbed
    BY <2>1, <2>2, <2>3 DEF Undisturbed
  <2> QED
    BY <1>i, <2>4, LiveFrame
<1>2. ASSUME NEW p \in Poller, AppliedDomains(p) PROVE LiveInv'
  <2>1. /\ current' = current /\ (state # None => state' # None)
        /\ \A b \in Admin : Replacing(b) => admin'[b] = admin[b]
    BY <1>2 DEF AppliedDomains, Replacing
  <2>2. \A q \in Poller : /\ poller'[q].pc # "exit" => poller[q].pc # "exit"
                          /\ poller'[q].pc = "new" => poller[q].pc = "new"
    BY <1>2 DEF AppliedDomains
  <2>3. current # None => poller'[current].pc # "exit" /\ ~poller'[current].cancelled
    BY <1>2, <1>i, <1>t DEF AppliedDomains, LiveInv
  <2>4. Undisturbed
    BY <2>1, <2>2, <2>3 DEF Undisturbed
  <2> QED
    BY <1>i, <2>4, LiveFrame
<1>3. ASSUME NEW p \in Poller, AppliedRedirects(p) PROVE LiveInv'
  <2>1. /\ current' = current /\ (state # None => state' # None)
        /\ \A b \in Admin : Replacing(b) => admin'[b] = admin[b]
    BY <1>3 DEF AppliedRedirects, Moves, Others, Replacing
  <2>2. \A q \in Poller : /\ poller'[q].pc # "exit" => poller[q].pc # "exit"
                          /\ poller'[q].pc = "new" => poller[q].pc = "new"
    BY <1>3 DEF AppliedRedirects, Moves, Others
  <2>3. current # None => poller'[current].pc # "exit" /\ ~poller'[current].cancelled
    BY <1>3, <1>i, <1>t DEF AppliedRedirects, Moves, Others, LiveInv
  <2>4. Undisturbed
    BY <2>1, <2>2, <2>3 DEF Undisturbed
  <2> QED
    BY <1>i, <2>4, LiveFrame
<1>4. ASSUME NEW p \in Poller, Forced(p) PROVE LiveInv'
  <2>1. /\ current' = current /\ (state # None => state' # None)
        /\ \A b \in Admin : Replacing(b) => admin'[b] = admin[b]
    BY <1>4 DEF Forced, Moves, Others, Replacing
  <2>2. \A q \in Poller : /\ poller'[q].pc # "exit" => poller[q].pc # "exit"
                          /\ poller'[q].pc = "new" => poller[q].pc = "new"
    BY <1>4 DEF Forced, Moves, Others
  <2>3. current # None => poller'[current].pc # "exit" /\ ~poller'[current].cancelled
    BY <1>4, <1>i, <1>t DEF Forced, Moves, Others, LiveInv
  <2>4. Undisturbed
    BY <2>1, <2>2, <2>3 DEF Undisturbed
  <2> QED
    BY <1>i, <2>4, LiveFrame
<1>5. ASSUME NEW x \in Saver, SavedLocked(x) PROVE LiveInv'
  <2>1. /\ current' = current /\ (state # None => state' # None)
        /\ \A b \in Admin : Replacing(b) => admin'[b] = admin[b]
    BY <1>5 DEF SavedLocked, Returns, Moves, Others, OtherAdmins, managed, Replacing
  <2>2. \A q \in Poller : /\ poller'[q].pc # "exit" => poller[q].pc # "exit"
                          /\ poller'[q].pc = "new" => poller[q].pc = "new"
    BY <1>5 DEF SavedLocked, Returns, Moves, Others, OtherAdmins, managed
  <2>3. current # None => poller'[current].pc # "exit" /\ ~poller'[current].cancelled
    BY <1>5, <1>i, <1>t DEF SavedLocked, Returns, Moves, Others, OtherAdmins, managed, LiveInv
  <2>4. Undisturbed
    BY <2>1, <2>2, <2>3 DEF Undisturbed
  <2> QED
    BY <1>i, <2>4, LiveFrame
<1>6. ASSUME NEW x \in Saver, Saving(x) PROVE LiveInv'
  <2>1. /\ current' = current /\ (state # None => state' # None)
        /\ \A b \in Admin : Replacing(b) => admin'[b] = admin[b]
    BY <1>6 DEF Saving, managed, Replacing
  <2>2. \A q \in Poller : /\ poller'[q].pc # "exit" => poller[q].pc # "exit"
                          /\ poller'[q].pc = "new" => poller[q].pc = "new"
    BY <1>6 DEF Saving, managed
  <2>3. current # None => poller'[current].pc # "exit" /\ ~poller'[current].cancelled
    BY <1>6, <1>i, <1>t DEF Saving, managed, LiveInv
  <2>4. Undisturbed
    BY <2>1, <2>2, <2>3 DEF Undisturbed
  <2> QED
    BY <1>i, <2>4, LiveFrame
<1>7. ASSUME NEW x \in Saver, Renamed(x) PROVE LiveInv'
  <2>1. /\ current' = current /\ (state # None => state' # None)
        /\ \A b \in Admin : Replacing(b) => admin'[b] = admin[b]
    BY <1>7 DEF Renamed, Returns, Moves, Others, OtherAdmins, managed, Replacing
  <2>2. \A q \in Poller : /\ poller'[q].pc # "exit" => poller[q].pc # "exit"
                          /\ poller'[q].pc = "new" => poller[q].pc = "new"
    BY <1>7 DEF Renamed, Returns, Moves, Others, OtherAdmins, managed
  <2>3. current # None => poller'[current].pc # "exit" /\ ~poller'[current].cancelled
    BY <1>7, <1>i, <1>t DEF Renamed, Returns, Moves, Others, OtherAdmins, managed, LiveInv
  <2>4. Undisturbed
    BY <2>1, <2>2, <2>3 DEF Undisturbed
  <2> QED
    BY <1>i, <2>4, LiveFrame
<1>8. ASSUME NEW a \in Admin, Deployed(a) PROVE LiveInv'
  <2>1. \A b \in Admin : ~Replacing(b)
    BY <1>8 DEF Deployed, Busy, Replacing
  <2> QED
    BY <1>8, <1>i, <2>1 DEF Deployed, LiveInv, Replacing
<1>9. ASSUME NEW a \in Admin, Replaced(a) PROVE LiveInv'
  <2>1. \A b \in Admin \ {a} : admin[b].pc = "idle"
    BY <1>9, <1>i DEF Replaced, AdminInv, Busy
  <2>2. /\ admin'[a].pc = "stop" /\ admin'[a].prev = current /\ admin[a].pc = "deploy"
        /\ current' \in Poller /\ poller'[current'].pc = "new" /\ ~poller'[current'].cancelled
        /\ state' # None /\ \A q \in Poller \ {current'} : poller'[q] = poller[q]
    BY <1>9 DEF Replaced, Others
  <2>3. \A b \in Admin : ~Replacing(b)
    BY <2>1, <2>2 DEF Replacing
  <2>4. ASSUME NEW q \in Poller, poller'[q].pc # "exit"
        PROVE  q = current' \/ \E b \in Admin : Replacing(b)' /\ admin'[b].prev = q
    <3>1. q # current' => q = current
      BY <1>i, <2>2, <2>3, <2>4 DEF LiveInv
    <3> QED
      BY <2>2, <3>1 DEF Replacing
  <2>5. ASSUME NEW q \in Poller, poller'[q].pc = "new"
        PROVE  q = current' /\ \E b \in Admin : admin'[b].pc = "stop"
    BY <1>i, <2>2, <2>3, <2>5 DEF LiveInv, Replacing
  <2> QED
    BY <2>2, <2>4, <2>5 DEF LiveInv
<1>10. ASSUME NEW a \in Admin, Cancelled(a) PROVE LiveInv'
  <2>0. admin[a].prev # current
    BY <1>10, <1>i, <1>t DEF Cancelled, Replacing, AdminInv
  <2>1. /\ current' = current /\ (state # None => state' # None)
        /\ \A b \in Admin : Replacing(b) => admin'[b] = admin[b]
    BY <1>10 DEF Cancelled, Others, managed, Replacing
  <2>2. \A q \in Poller : /\ poller'[q].pc # "exit" => poller[q].pc # "exit"
                          /\ poller'[q].pc = "new" => poller[q].pc = "new"
    BY <1>10 DEF Cancelled, Others, managed
  <2>3. current # None => poller'[current].pc # "exit" /\ ~poller'[current].cancelled
    BY <1>10, <1>i, <1>t, <2>0 DEF Cancelled, Others, managed, LiveInv
  <2>4. Undisturbed
    BY <2>1, <2>2, <2>3 DEF Undisturbed
  <2> QED
    BY <1>i, <2>4, LiveFrame
<1>11. ASSUME NEW a \in Admin, Started(a) PROVE LiveInv'
  <2>1. /\ current \in Poller /\ \A q \in Poller \ {current} : poller[q].pc = "exit"
        /\ Moves(current, "wait") /\ current' = current /\ state' = state
    BY <1>11, <1>i, <1>t, StartedAlone DEF Started, AdminInv
  <2>2. /\ \A q \in Poller \ {current} : poller'[q].pc = "exit"
        /\ poller'[current].pc = "wait" /\ poller'[current].cancelled = poller[current].cancelled
    BY <2>1 DEF Moves, Others
  <2>3. ~poller'[current].cancelled /\ state' # None
    BY <1>i, <1>t, <2>1, <2>2 DEF LiveInv
  <2> QED
    BY <2>1, <2>2, <2>3 DEF LiveInv
<1>12. ASSUME NEW a \in Admin, Removed(a) PROVE LiveInv'
  BY <1>12, <1>i, <1>t, Resting DEF Removed, OtherAdmins, disk, AdminInv, LiveInv, Busy, Replacing
<1>13. ASSUME NEW a \in Admin, Dropped(a) PROVE LiveInv'
  BY <1>13, <1>i, <1>t, Resting DEF Dropped, OtherAdmins, disk, AdminInv, LiveInv, Busy, Replacing
<1>14. ASSUME NEW a \in Admin, Cleared(a) PROVE LiveInv'
  <2>1. current = None /\ \A q \in Poller : poller[q].pc = "exit"
    BY <1>14, <1>i, <1>t, ClearedAlone
  <2> QED
    BY <1>14, <2>1 DEF Cleared, LiveInv
<1>15. ASSUME Restarted PROVE LiveInv'
  BY <1>15, Resting DEF Restarted, LiveInv
<1>16. ASSUME Published PROVE LiveInv'
  <2>1. /\ current' = current /\ (state # None => state' # None)
        /\ \A b \in Admin : Replacing(b) => admin'[b] = admin[b]
    BY <1>16 DEF Published, managed, Replacing
  <2>2. \A q \in Poller : /\ poller'[q].pc # "exit" => poller[q].pc # "exit"
                          /\ poller'[q].pc = "new" => poller[q].pc = "new"
    BY <1>16 DEF Published, managed
  <2>3. current # None => poller'[current].pc # "exit" /\ ~poller'[current].cancelled
    BY <1>16, <1>i, <1>t DEF Published, managed, LiveInv
  <2>4. Undisturbed
    BY <2>1, <2>2, <2>3 DEF Undisturbed
  <2> QED
    BY <1>i, <2>4, LiveFrame
<1>17. ASSUME UNCHANGED vars PROVE LiveInv'
  BY <1>17, <1>i DEF vars, LiveInv, Replacing
<1> QED
  BY <1>1, <1>2, <1>3, <1>4, <1>5, <1>6, <1>7, <1>8, <1>9, <1>10, <1>11, <1>12, <1>13, <1>14, <1>15, <1>16, <1>17 DEF AnyStep

\* Every step leaves nothing in force when nobody is in charge.
LEMMA ForceKept == ASSUME SourceInv, TypeOK', AnyStep PROVE ForceInv'
<1>i. AdminInv /\ LiveInv /\ ForceInv /\ SaveInv
  BY DEF SourceInv
<1>t. current \in Poller \cup {None} /\ None \notin Poller /\ None \notin Source
  BY NameAssumption DEF SourceInv, TypeOK
<1>1. ASSUME NEW p \in Poller, Polled(p) PROVE ForceInv'
  BY <1>1, <1>i, <1>t, Resting DEF Polled, Others, managed, disk, AdminInv, LiveInv, ForceInv, Busy, Replacing
<1>2. ASSUME NEW p \in Poller, AppliedDomains(p) PROVE ForceInv'
  BY <1>2, <1>i, <1>t, Resting DEF AppliedDomains, disk, AdminInv, LiveInv, ForceInv, Busy, Replacing
<1>3. ASSUME NEW p \in Poller, AppliedRedirects(p) PROVE ForceInv'
  <2>1. current' # None
    BY <1>3, <1>t DEF AppliedRedirects
  <2> QED
    BY <2>1 DEF ForceInv
<1>4. ASSUME NEW p \in Poller, Forced(p) PROVE ForceInv'
  <2>1. current # None \/ \E a \in Admin : admin[a].pc = "drop"
    <3>1. p = current \/ \E a \in Admin : Replacing(a)
      BY <1>4, <1>i DEF Forced, LiveInv
    <3> QED
      BY <1>i, <1>t, <3>1 DEF Replacing, AdminInv
  <2> QED
    BY <1>4, <2>1 DEF Forced, ForceInv
<1>5. ASSUME NEW x \in Saver, SavedLocked(x) PROVE ForceInv'
  BY <1>5, <1>i, <1>t, Resting, SMTT(60) DEF SavedLocked, Returns, Moves, Others, OtherAdmins, managed, AdminInv, LiveInv, ForceInv, Busy, Replacing
<1>6. ASSUME NEW x \in Saver, Saving(x) PROVE ForceInv'
  BY <1>6, <1>i, <1>t, Resting DEF Saving, SaveDue, managed, AdminInv, LiveInv, ForceInv, Busy, Replacing
<1>7. ASSUME NEW x \in Saver, Renamed(x) PROVE ForceInv'
  BY <1>7, <1>i, <1>t, Resting, SMTT(60) DEF Renamed, Returns, Moves, Others, OtherAdmins, managed, AdminInv, LiveInv, ForceInv, Busy, Replacing
<1>8. ASSUME NEW a \in Admin, Deployed(a) PROVE ForceInv'
  BY <1>8, <1>i, <1>t, Resting DEF Deployed, OtherAdmins, disk, AdminInv, LiveInv, ForceInv, Busy, Replacing
<1>9. ASSUME NEW a \in Admin, Replaced(a) PROVE ForceInv'
  BY <1>9, <1>i, <1>t, Resting DEF Replaced, Others, OtherAdmins, disk, AdminInv, LiveInv, ForceInv, Busy, Replacing
<1>10. ASSUME NEW a \in Admin, Cancelled(a) PROVE ForceInv'
  BY <1>10, <1>i, <1>t, Resting DEF Cancelled, Others, managed, disk, AdminInv, LiveInv, ForceInv, Busy, Replacing
<1>11. ASSUME NEW a \in Admin, Started(a) PROVE ForceInv'
  BY <1>11, <1>i, <1>t, Resting DEF Started, Moves, Others, OtherAdmins, Stopped, disk, AdminInv, LiveInv, ForceInv, Busy, Replacing
<1>12. ASSUME NEW a \in Admin, Removed(a) PROVE ForceInv'
  BY <1>12, <1>i, <1>t, Resting DEF Removed, OtherAdmins, disk, AdminInv, LiveInv, ForceInv, Busy, Replacing
<1>13. ASSUME NEW a \in Admin, Dropped(a) PROVE ForceInv'
  BY <1>13, <1>i, <1>t, Resting DEF Dropped, OtherAdmins, disk, AdminInv, LiveInv, ForceInv, Busy, Replacing
<1>14. ASSUME NEW a \in Admin, Cleared(a) PROVE ForceInv'
  BY <1>14, <1>i, <1>t, Resting DEF Cleared, OtherAdmins, Stopped, disk, AdminInv, LiveInv, ForceInv, Busy, Replacing
<1>15. ASSUME Restarted PROVE ForceInv'
  BY <1>15, <1>i, <1>t, Resting DEF Restarted, AdminInv, LiveInv, ForceInv, Busy, Replacing
<1>16. ASSUME Published PROVE ForceInv'
  BY <1>16, <1>i, <1>t, Resting DEF Published, managed, disk, AdminInv, LiveInv, ForceInv, Busy, Replacing
<1>17. ASSUME UNCHANGED vars PROVE ForceInv'
  BY <1>17, <1>i, <1>t, Resting DEF vars, AdminInv, LiveInv, ForceInv, Busy, Replacing
<1> QED
  BY <1>1, <1>2, <1>3, <1>4, <1>5, <1>6, <1>7, <1>8, <1>9, <1>10, <1>11, <1>12, <1>13, <1>14, <1>15, <1>16, <1>17 DEF AnyStep

\* Every step leaves a saver at the point of its work where it saves.
LEMMA SaveKept == ASSUME SourceInv, TypeOK', AnyStep PROVE SaveInv'
<1>i. AdminInv /\ LiveInv /\ ForceInv /\ SaveInv
  BY DEF SourceInv
<1>n. Poller \cap Admin = {} /\ Other \notin Poller \cup Admin
  BY NameAssumption
<1>t. current \in Poller \cup {None} /\ None \notin Poller /\ None \notin Source
  BY NameAssumption DEF SourceInv, TypeOK
<1>1. ASSUME NEW p \in Poller, Polled(p) PROVE SaveInv'
  BY <1>1, <1>i, <1>n, Resting DEF Polled, Others, managed, disk, SaveInv, Serialized, Domains
<1>2. ASSUME NEW p \in Poller, AppliedDomains(p) PROVE SaveInv'
  BY <1>2, <1>i, <1>n, Resting DEF AppliedDomains, disk, SaveInv, Serialized, Domains
<1>3. ASSUME NEW p \in Poller, AppliedRedirects(p) PROVE SaveInv'
  BY <1>3, <1>i, <1>n, Resting DEF AppliedRedirects, Moves, Others, disk, SaveInv, Serialized, Domains
<1>4. ASSUME NEW p \in Poller, Forced(p) PROVE SaveInv'
  BY <1>4, <1>i, <1>n, Resting DEF Forced, Moves, Others, disk, SaveInv, Serialized, Domains
<1>5. ASSUME NEW x \in Saver, SavedLocked(x) PROVE SaveInv'
  BY <1>5, <1>i, <1>n, Resting DEF SavedLocked, Returns, Moves, Others, OtherAdmins, managed, SaveInv, Serialized, Domains
<1>6. ASSUME NEW x \in Saver, Saving(x) PROVE SaveInv'
  BY <1>6, <1>i, <1>n, Resting DEF Saving, SaveDue, managed, SaveInv, Serialized, Domains
<1>7. ASSUME NEW x \in Saver, Renamed(x) PROVE SaveInv'
  BY <1>7, <1>i, <1>n, Resting DEF Renamed, Returns, Moves, Others, OtherAdmins, managed, SaveInv, Serialized, Domains
<1>8. ASSUME NEW a \in Admin, Deployed(a) PROVE SaveInv'
  BY <1>8, <1>i, <1>n, Resting DEF Deployed, OtherAdmins, disk, Busy, SaveInv, Serialized, Domains
<1>9. ASSUME NEW a \in Admin, Replaced(a) PROVE SaveInv'
  BY <1>9, <1>i, <1>n, Resting, SMTT(60) DEF Replaced, Others, OtherAdmins, disk, SaveInv, Serialized, Domains
<1>10. ASSUME NEW a \in Admin, Cancelled(a) PROVE SaveInv'
  BY <1>10, <1>i, <1>n, Resting DEF Cancelled, Others, managed, disk, SaveInv, Serialized, Domains
<1>11. ASSUME NEW a \in Admin, Started(a) PROVE SaveInv'
  BY <1>11, <1>i, <1>n, <1>t, Resting DEF Started, Moves, Others, OtherAdmins, disk, AdminInv, SaveInv, Serialized, Domains
<1>12. ASSUME NEW a \in Admin, Removed(a) PROVE SaveInv'
  BY <1>12, <1>i, <1>n, Resting DEF Removed, OtherAdmins, disk, Busy, SaveInv, Serialized, Domains
<1>13. ASSUME NEW a \in Admin, Dropped(a) PROVE SaveInv'
  BY <1>13, <1>i, <1>n, Resting DEF Dropped, OtherAdmins, disk, SaveInv, Serialized, Domains
<1>14. ASSUME NEW a \in Admin, Cleared(a) PROVE SaveInv'
  BY <1>14, <1>i, <1>n, Resting, SMTT(60) DEF Cleared, OtherAdmins, Stopped, disk, SaveInv, Serialized, Domains
<1>15. ASSUME Restarted PROVE SaveInv'
  BY <1>15, <1>i, <1>n, Resting DEF Restarted, SaveInv, Serialized, Domains
<1>16. ASSUME Published PROVE SaveInv'
  BY <1>16, <1>i, <1>n, Resting DEF Published, managed, disk, SaveInv, Serialized, Domains
<1>17. ASSUME UNCHANGED vars PROVE SaveInv'
  BY <1>17, <1>i, <1>n, Resting DEF vars, SaveInv, Serialized, Domains
<1> QED
  BY <1>1, <1>2, <1>3, <1>4, <1>5, <1>6, <1>7, <1>8, <1>9, <1>10, <1>11, <1>12, <1>13, <1>14, <1>15, <1>16, <1>17 DEF AnyStep

\* No two pollers are at work at once: while one is being stopped its successor is
\* not started (SourcePoller.Stop).
LEMMA OneWorks ==
  ASSUME TypeOK, AdminInv, LiveInv, NEW p \in Poller, NEW q \in Poller,
         poller[p].pc \notin {"exit", "new"}, poller[q].pc \notin {"exit", "new"}
  PROVE  p = q
<1>1. current \in Poller \cup {None} /\ None \notin Poller
  BY NameAssumption DEF TypeOK
<1> QED
  BY <1>1, SMTT(60) DEF AdminInv, LiveInv, Busy, Replacing

\* A step that leaves alone what is in force, recorded and saved, and those who
\* change it, keeps the redirects right.
LEMMA RedirectFrame ==
  ASSUME RedirectInv, UNCHANGED <<setting, configured, current, state, inForce, file>>,
         admin' = admin,
         \A q \in Poller : poller[q].pc \in {"set", "save"} \/ poller'[q].pc \in {"set", "save"} =>
                             poller'[q].pc = poller[q].pc /\ poller'[q].list = poller[q].list
  PROVE  RedirectInv'
BY DEF RedirectInv, Domains

\* Every step leaves the redirects in force on record and saved, or about to be.
LEMMA RedirectsKept == ASSUME SourceInv, TypeOK', AnyStep PROVE RedirectInv'
<1>i. AdminInv /\ LiveInv /\ ForceInv /\ RedirectInv
  BY DEF SourceInv
<1>t. current \in Poller \cup {None} /\ None \notin Poller /\ None \notin Source
  BY NameAssumption DEF SourceInv, TypeOK
<1>s. \A x \in Saver : save[x].pc # "idle" => Domains
  BY DEF SourceInv, SaveInv, Serialized
<1>1. ASSUME NEW p \in Poller, Polled(p) PROVE RedirectInv'
  <2>1. UNCHANGED <<setting, configured, current, state, inForce, file>>
    BY <1>1 DEF Polled, Others, managed, disk
  <2>2. /\ \A q \in Poller : poller[q].pc \in {"set", "save"} \/ poller'[q].pc \in {"set", "save"} =>
                             poller'[q].pc = poller[q].pc /\ poller'[q].list = poller[q].list
        /\ admin' = admin
    BY <1>1 DEF Polled, Others, managed
  <2> QED
    BY <1>i, <2>1, <2>2, RedirectFrame
<1>2. ASSUME NEW p \in Poller, AppliedDomains(p) PROVE RedirectInv'
  BY <1>2 DEF AppliedDomains, Domains, RedirectInv
<1>3. ASSUME NEW p \in Poller, AppliedRedirects(p) PROVE RedirectInv'
  <2>1. \A q \in Poller \ {p} : poller[q].pc \notin {"apply", "set", "save"}
    BY <1>3, <1>i, OneWorks DEF SourceInv, AppliedRedirects
  <2>2. \A a \in Admin : admin[a].pc # "stop"
    BY <1>3, <1>i DEF AppliedRedirects, AdminInv
  <2>3. Recorded(state') = poller[p].list
    BY <1>3 DEF AppliedRedirects, Recorded
  <2> QED
    BY <1>3, <2>1, <2>2, <2>3 DEF AppliedRedirects, Moves, Others, disk, Domains, RedirectInv
<1>4. ASSUME NEW p \in Poller, Forced(p) PROVE RedirectInv'
  <2>1. /\ \A q \in Poller \ {p} : poller'[q] = poller[q]
        /\ poller[p].pc = "set" /\ poller'[p].pc = "save"
        /\ UNCHANGED <<setting, configured, known, current, state, admin, file>>
    BY <1>4 DEF Forced, Moves, Others, disk
  <2>2. ~Domains /\ configured # None => inForce' = Recorded(state)
    BY <1>4, <1>i, <2>1 DEF Forced, AdminInv, RedirectInv
  <2> QED
    BY <1>i, <2>1, <2>2 DEF RedirectInv, Domains
<1>5. ASSUME NEW x \in Saver, SavedLocked(x) PROVE RedirectInv'
  <2>1. /\ \A q \in Poller : poller[q].pc = "set" \/ poller'[q].pc = "set" => poller'[q] = poller[q]
        /\ UNCHANGED <<setting, configured, known, current, state, inForce>> /\ file' = state
    BY <1>5 DEF SavedLocked, Returns, Moves, Others, managed
  <2>2. \A b \in Admin : admin[b].pc = "stop" \/ admin'[b].pc = "stop" => admin'[b] = admin[b]
    BY <1>5, Resting DEF SavedLocked, Returns, OtherAdmins
  <2> QED
    BY <1>i, <2>1, <2>2 DEF RedirectInv, Domains
<1>6. ASSUME NEW x \in Saver, Saving(x) PROVE RedirectInv'
  BY <1>6 DEF Saving, Domains, RedirectInv
<1>7. ASSUME NEW x \in Saver, Renamed(x) PROVE RedirectInv'
  BY <1>7 DEF Renamed, Domains, RedirectInv
<1>8. ASSUME NEW a \in Admin, Deployed(a) PROVE RedirectInv'
  <2>1. /\ UNCHANGED <<setting, current, state, inForce, poller, file>>
        /\ \A b \in Admin : admin[b].pc = "idle" /\ admin'[b].pc \in {"idle", "deploy"}
    BY <1>8 DEF Deployed, Busy, OtherAdmins, disk
  <2>2. configured = None => current = None /\ \A q \in Poller : poller[q].pc = "exit"
    BY <1>i, <1>t, <2>1 DEF AdminInv, LiveInv, Busy, Replacing
  <2>3. ~Domains => \A q \in Poller : poller[q].pc = "set" => poller[q].list = Recorded(state)
    BY <1>i, <2>2 DEF RedirectInv
  <2> QED
    BY <1>i, <2>1, <2>2, <2>3 DEF RedirectInv, Domains
<1>9. ASSUME NEW a \in Admin, Replaced(a) PROVE RedirectInv'
  <2>1. /\ UNCHANGED <<setting, configured, inForce, file>> /\ Recorded(state') = Recorded(state)
        /\ admin[a].pc = "deploy" /\ admin'[a].pc = "stop" /\ admin'[a].list = Recorded(state)
        /\ \A q \in Poller : poller'[q].pc \in {"set", "save"} => poller'[q] = poller[q]
        /\ \A q \in Poller : poller[q].pc \in {"set", "save"} => poller'[q] = poller[q]
    BY <1>9 DEF Replaced, Others, disk
  <2>2. \A b \in Admin \ {a} : admin[b].pc = "idle" /\ admin'[b].pc = "idle"
    BY <1>9, <1>i DEF Replaced, AdminInv, Busy, OtherAdmins
  <2>3. configured # None
    BY <1>i, <2>1 DEF AdminInv
  <2>4. ~Domains => \/ inForce = Recorded(state) \/ \E q \in Poller : poller[q].pc = "set"
                    \/ inForce = {}
    BY <1>i, <2>1, <2>2, <2>3 DEF RedirectInv, ForceInv
  <2> QED
    BY <1>i, <2>1, <2>2, <2>3, <2>4 DEF RedirectInv, Domains
<1>10. ASSUME NEW a \in Admin, Cancelled(a) PROVE RedirectInv'
  <2>1. UNCHANGED <<setting, configured, current, state, inForce, file>>
    BY <1>10 DEF Cancelled, Others, managed, disk
  <2>2. /\ \A q \in Poller : poller[q].pc \in {"set", "save"} \/ poller'[q].pc \in {"set", "save"} =>
                             poller'[q].pc = poller[q].pc /\ poller'[q].list = poller[q].list
        /\ admin' = admin
    BY <1>10 DEF Cancelled, Others, managed
  <2> QED
    BY <1>i, <2>1, <2>2, RedirectFrame
<1>11. ASSUME NEW a \in Admin, Started(a) PROVE RedirectInv'
  <2>1. /\ current \in Poller /\ configured # None /\ known
        /\ \A b \in Admin \ {a} : admin[b].pc = "idle"
        /\ \A q \in Poller \ {current} : poller[q].pc = "exit"
        /\ poller[current].pc = "new" /\ Moves(current, "wait")
    BY <1>11, <1>i, <1>t, StartedAlone DEF Started, AdminInv
  <2>2. \A b \in Admin : admin'[b].pc = "idle"
    BY <1>11, <2>1, Resting, SMTT(60) DEF Started, OtherAdmins
  <2>3. /\ \A q \in Poller : poller[q].pc \in {"exit", "new"}
        /\ \A q \in Poller : poller'[q].pc \in {"exit", "wait"}
    BY <2>1, SMTT(60) DEF Moves, Others
  <2>4. ~Domains => admin[a].list = Recorded(state) /\ Recorded(file) = Recorded(state)
    <3>1. \A q \in Poller : poller[q].pc \notin {"set", "save"}
      BY <2>3
    <3>2. admin[a].pc = "stop" /\ \A b \in Admin : admin[b].pc \notin {"drop", "save"}
      BY <1>11, <2>1 DEF Started
    <3> QED
      BY <1>i, <3>1, <3>2 DEF RedirectInv
  <2>5. ~Domains /\ admin[a].list = {} => inForce = {}
    BY <1>11, <1>i, <1>t, <2>1, <2>3, <2>4 DEF RedirectInv
  <2>6. ~Domains => inForce' = Recorded(state)
    BY <1>11, <2>1, <2>4, <2>5 DEF Started
  <2> QED
    BY <1>11, <2>2, <2>3, <2>4, <2>6 DEF Started, disk, Domains, RedirectInv
<1>12. ASSUME NEW a \in Admin, Removed(a) PROVE RedirectInv'
  <2>1. /\ configured' = None /\ UNCHANGED <<setting, state, poller, file>>
        /\ \A b \in Admin : admin[b].pc = "idle" /\ admin'[b].pc \in {"idle", "remove"}
    BY <1>12 DEF Removed, Busy, OtherAdmins, disk
  <2> QED
    BY <1>i, <2>1 DEF RedirectInv, Domains
<1>13. ASSUME NEW a \in Admin, Dropped(a) PROVE RedirectInv'
  <2>1. /\ configured' = None /\ UNCHANGED <<setting, poller, file>>
        /\ \A b \in Admin : admin'[b].pc # "stop"
        /\ state' = state \/ admin'[a].pc = "drop"
    BY <1>13, <1>i DEF Dropped, AdminInv, Busy, OtherAdmins, disk
  <2>2. \A b \in Admin : admin[b].pc \notin {"drop", "save"}
    BY <1>13, <1>i DEF Dropped, AdminInv, Busy
  <2> QED
    BY <1>i, <2>1, <2>2 DEF RedirectInv, Domains
<1>14. ASSUME NEW a \in Admin, Cleared(a) PROVE RedirectInv'
  <2>1. /\ configured' = None /\ admin'[a].pc = "save"
        /\ \A b \in Admin \ {a} : admin'[b].pc = "idle"
    BY <1>14, <1>i DEF Cleared, OtherAdmins, AdminInv, Busy
  <2> QED
    BY <1>14, <2>1 DEF RedirectInv
<1>15. ASSUME Restarted PROVE RedirectInv'
  BY <1>15, <1>i, <1>t, <1>s, Resting DEF Restarted, Domains, AdminInv, LiveInv, ForceInv, RedirectInv, Busy, Replacing
<1>16. ASSUME Published PROVE RedirectInv'
  BY <1>16, <1>i DEF Published, managed, disk, Domains, RedirectInv
<1>17. ASSUME UNCHANGED vars PROVE RedirectInv'
  BY <1>17, <1>i DEF vars, Domains, RedirectInv
<1> QED
  BY <1>1, <1>2, <1>3, <1>4, <1>5, <1>6, <1>7, <1>8, <1>9, <1>10, <1>11, <1>12, <1>13, <1>14, <1>15, <1>16, <1>17 DEF AnyStep

-----------------------------------------------------------------------------
(* Few short answers. *)

\* A poll that takes nothing away confirms no removal (evaluateShrinkHold).
LEMMA NothingShrinks ==
  ASSUME SourceInv PROVE evaluateShrinkHold({}, Recorded(state)) = 0
<1>1. IsFiniteSet(Recorded(state))
  <2>1. state \in File
    BY DEF SourceInv, TypeOK, File
  <2> QED
    BY <2>1, RecordedType, SourceAssumption, FS_Subset
<1>2. Cardinality({}) = 0 /\ Cardinality(Recorded(state)) \in Nat
  BY <1>1, FS_EmptySet, FS_CardinalityType
<1> QED
  BY <1>2, SMTT(60) DEF evaluateShrinkHold, shrinks

\* A poll that takes everything away is held while it is not confirmed, unless
\* there is nothing to take away (evaluateShrinkHold).
LEMMA EverythingShrinks ==
  ASSUME SourceInv, polls + 1 < Confirmations, Recorded(state) # {}
  PROVE  evaluateShrinkHold(Recorded(state), Recorded(state)) > 0
<1>1. IsFiniteSet(Recorded(state))
  <2>1. state \in File
    BY DEF SourceInv, TypeOK, File
  <2> QED
    BY <2>1, RecordedType, SourceAssumption, FS_Subset
<1>2. Cardinality(Recorded(state)) \in Nat /\ Cardinality(Recorded(state)) # 0
  BY <1>1, FS_EmptySet, FS_CardinalityType
<1>3. polls \in Nat
  BY SMTT(60) DEF SourceInv, TypeOK, Confirmations
<1> QED
  BY <1>2, <1>3, SMTT(60) DEF evaluateShrinkHold, shrinks

\* Every step leaves the deploys and the pollers with the one source.
LEMMA FewSourcesKept == ASSUME SourceInv, FewSources, AnyStep PROVE FewSources'
<1>i. AdminInv /\ FewSources
  BY DEF SourceInv
<1>t. current \in Poller \cup {None} /\ None \notin Poller
  BY NameAssumption DEF SourceInv, TypeOK
<1>1. ASSUME NEW p \in Poller, Polled(p) PROVE FewSources'
  BY <1>1, <1>i DEF Polled, Others, managed, FewSources
<1>2. ASSUME NEW p \in Poller, AppliedDomains(p) PROVE FewSources'
  BY <1>2, <1>i DEF AppliedDomains, FewSources
<1>3. ASSUME NEW p \in Poller, AppliedRedirects(p) PROVE FewSources'
  BY <1>3, <1>i DEF AppliedRedirects, Moves, Others, FewSources
<1>4. ASSUME NEW p \in Poller, Forced(p) PROVE FewSources'
  BY <1>4, <1>i DEF Forced, Moves, Others, FewSources
<1>5. ASSUME NEW x \in Saver, SavedLocked(x) PROVE FewSources'
  BY <1>5, <1>i, Resting DEF SavedLocked, Returns, Moves, Others, OtherAdmins, managed, FewSources
<1>6. ASSUME NEW x \in Saver, Saving(x) PROVE FewSources'
  BY <1>6, <1>i DEF Saving, managed, FewSources
<1>7. ASSUME NEW x \in Saver, Renamed(x) PROVE FewSources'
  BY <1>7, <1>i, Resting DEF Renamed, Returns, Moves, Others, OtherAdmins, managed, FewSources
<1>8. ASSUME NEW a \in Admin, Deployed(a) PROVE FewSources'
  BY <1>8, <1>i DEF Deployed, OtherAdmins, FewSources
<1>9. ASSUME NEW a \in Admin, Replaced(a) PROVE FewSources'
  BY <1>9, <1>i DEF Replaced, Others, OtherAdmins, FewSources
<1>10. ASSUME NEW a \in Admin, Cancelled(a) PROVE FewSources'
  BY <1>10, <1>i DEF Cancelled, Others, managed, FewSources
<1>11. ASSUME NEW a \in Admin, Started(a) PROVE FewSources'
  <2>1. admin[a].new \in Poller /\ poller[admin[a].new].pc = "new"
    BY <1>11, <1>i, <1>t DEF Started, AdminInv
  <2> QED
    BY <1>11, <1>i, <2>1, Resting DEF Started, Moves, Others, OtherAdmins, FewSources
<1>12. ASSUME NEW a \in Admin, Removed(a) PROVE FewSources'
  BY <1>12, <1>i DEF Removed, OtherAdmins, FewSources
<1>13. ASSUME NEW a \in Admin, Dropped(a) PROVE FewSources'
  BY <1>13, <1>i DEF Dropped, OtherAdmins, FewSources
<1>14. ASSUME NEW a \in Admin, Cleared(a) PROVE FewSources'
  BY <1>14, <1>i DEF Cleared, OtherAdmins, FewSources
<1>15. ASSUME Restarted PROVE FewSources'
  BY <1>15, <1>i, Resting DEF Restarted, FewSources
<1>16. ASSUME Published PROVE FewSources'
  BY <1>16, <1>i DEF Published, managed, FewSources
<1>17. ASSUME UNCHANGED vars PROVE FewSources'
  BY <1>17, <1>i DEF vars, FewSources
<1> QED
  BY <1>1, <1>2, <1>3, <1>4, <1>5, <1>6, <1>7, <1>8, <1>9, <1>10, <1>11, <1>12, <1>13, <1>14, <1>15, <1>16, <1>17 DEF AnyStep

\* A poll that is applied takes nothing into the record that the source does not
\* list, and counts no more short answers than were paid for.
LEMMA AppliedFew ==
  ASSUME Steady, SourceInv, Few, FewFacts, NEW p \in Poller, AppliedDomains(p)
  PROVE  Listed(Recorded(state')) /\ polls' + changes <= setting.changes
<1> DEFINE previous == Recorded(state)
           polled == poller[p].list
           count == evaluateShrinkHold(previous \ polled, previous)
<1>1. polls \in Nat /\ changes \in Nat /\ setting.changes \in Nat
  BY SourceAssumption, SMTT(60) DEF SourceInv, TypeOK, Confirmations
<1>2. /\ polls' = count /\ poller[p].pc = "apply"
      /\ Recorded(state') = IF count > 0 THEN previous \cup polled ELSE polled
  BY DEF AppliedDomains, Recorded
<1>3. Listed(previous) /\ polls + changes <= setting.changes
  BY DEF FewFacts, FewRecords, FewShort
<1>4. CASE Short(p)
  <2>1. polled = {} /\ polls + changes < setting.changes
    BY <1>4 DEF FewFacts, FewShort
  <2>2. count \in {0, polls + 1}
    BY DEF evaluateShrinkHold
  <2> HIDE DEF previous, polled, count
  <2>3. Listed(Recorded(state'))
    BY <1>2, <1>3, <2>1 DEF Listed
  <2>4. polls' + changes <= setting.changes
    BY <1>1, <1>2, <2>1, <2>2, SMTT(60)
  <2> QED
    BY <2>3, <2>4
<1>5. CASE ~Short(p)
  <2>1. \A s \in setting.sources : polled = List(s)
    BY <1>2, <1>5 DEF Short
  <2>2. poller[p].src \in setting.sources
    BY <1>2 DEF FewFacts, FewSources
  <2>3. previous \subseteq polled
    BY <1>3, <2>1, <2>2 DEF Listed
  <2>4. previous \ polled = {}
    BY <2>3
  <2>5. count = 0
    BY <2>4, NothingShrinks
  <2> HIDE DEF previous, polled, count
  <2>6. Recorded(state') = polled /\ polls' = 0
    BY <1>2, <2>5, SMTT(60)
  <2>7. Listed(Recorded(state'))
    BY <2>1, <2>6 DEF Listed
  <2>8. polls' + changes <= setting.changes
    BY <1>1, <1>3, <2>6, SMTT(60)
  <2> QED
    BY <2>7, <2>8
<1> QED
  BY <1>4, <1>5

\* Every step leaves nothing recorded, written or saved that the source does not
\* list.
LEMMA FewRecordsKept == ASSUME Steady, SourceInv, Few, FewFacts, AnyStep PROVE FewRecords'
<1>i. FewRecords
  BY DEF FewFacts
<1>s. "publishes" \notin setting.actors
  BY DEF SourceInv, TypeOK, Steady, Few, Domains
<1>n. Recorded(None) = {} /\ Recorded(Empty) = {}
  BY Resting DEF Recorded
<1>1. ASSUME NEW p \in Poller, Polled(p) PROVE FewRecords'
  BY <1>1, <1>i DEF Polled, managed, disk, FewRecords, Listed, List
<1>2. ASSUME NEW p \in Poller, AppliedDomains(p) PROVE FewRecords'
  <2>1. Listed(Recorded(state'))
    BY <1>2, AppliedFew
  <2> QED
    BY <1>2, <1>i, <2>1 DEF AppliedDomains, disk, FewRecords, Listed, List
<1>3. ASSUME NEW p \in Poller, AppliedRedirects(p) PROVE FewRecords'
  BY <1>3 DEF AppliedRedirects, Few
<1>4. ASSUME NEW p \in Poller, Forced(p) PROVE FewRecords'
  BY <1>4, <1>i DEF Forced, disk, FewRecords, Listed, List
<1>5. ASSUME NEW x \in Saver, SavedLocked(x) PROVE FewRecords'
  BY <1>5 DEF SavedLocked, Few
<1>6. ASSUME NEW x \in Saver, Saving(x) PROVE FewRecords'
  <2>1. Listed(Recorded(file')) /\ Listed(Recorded(tmp'))
    BY <1>6, <1>i, <1>n DEF Saving, FewRecords, Listed
  <2>2. ASSUME NEW y \in Saver PROVE Listed(Recorded(save'[y].data))
    BY <1>6, <1>i DEF Saving, FewRecords
  <2> QED
    BY <1>6, <1>i, <2>1, <2>2 DEF Saving, managed, FewRecords, Listed, List
<1>7. ASSUME NEW x \in Saver, Renamed(x) PROVE FewRecords'
  <2>1. Listed(Recorded(file')) /\ Listed(Recorded(tmp'))
    BY <1>7, <1>i, <1>n DEF Renamed, FewRecords, Listed
  <2>2. ASSUME NEW y \in Saver PROVE Listed(Recorded(save'[y].data))
    BY <1>7, <1>i, <1>n, Resting DEF Renamed, FewRecords, Listed
  <2> QED
    BY <1>7, <1>i, <2>1, <2>2 DEF Renamed, managed, FewRecords, Listed, List
<1>8. ASSUME NEW a \in Admin, Deployed(a) PROVE FewRecords'
  BY <1>8, <1>i DEF Deployed, disk, FewRecords, Listed, List
<1>9. ASSUME NEW a \in Admin, Replaced(a) PROVE FewRecords'
  BY <1>9, <1>i DEF Replaced, disk, FewRecords, Listed, List
<1>10. ASSUME NEW a \in Admin, Cancelled(a) PROVE FewRecords'
  BY <1>10, <1>i DEF Cancelled, managed, disk, FewRecords, Listed, List
<1>11. ASSUME NEW a \in Admin, Started(a) PROVE FewRecords'
  BY <1>11, <1>i DEF Started, disk, FewRecords, Listed, List
<1>12. ASSUME NEW a \in Admin, Removed(a) PROVE FewRecords'
  BY <1>12, <1>i DEF Removed, disk, FewRecords, Listed, List
<1>13. ASSUME NEW a \in Admin, Dropped(a) PROVE FewRecords'
  BY <1>13, <1>i, <1>n DEF Dropped, disk, FewRecords, Listed, List
<1>14. ASSUME NEW a \in Admin, Cleared(a) PROVE FewRecords'
  BY <1>14, <1>i DEF Cleared, disk, FewRecords, Listed, List
<1>15. ASSUME Restarted PROVE FewRecords'
  BY <1>15, <1>i, <1>n, Resting DEF Restarted, FewRecords, Listed, List
<1>16. ASSUME Published PROVE FewRecords'
  BY <1>16, <1>s DEF Published, Acts
<1>17. ASSUME UNCHANGED vars PROVE FewRecords'
  BY <1>17, <1>i DEF vars, FewRecords, Listed, List
<1> QED
  BY <1>1, <1>2, <1>3, <1>4, <1>5, <1>6, <1>7, <1>8, <1>9, <1>10, <1>11, <1>12, <1>13, <1>14, <1>15, <1>16, <1>17 DEF AnyStep

\* A step that puts no other list to be applied, and counts and spends no more,
\* leaves the short answers paid for.
LEMMA NoMoreShort ==
  ASSUME FewShort, polls \in Nat, changes \in Nat, changes' \in Nat, setting.changes \in Nat,
         setting' = setting, revision' = revision,
         polls' = polls \/ polls' = 0, changes' <= changes,
         \A q \in Poller : poller'[q].pc = "apply" =>
            poller[q].pc = "apply" /\ poller'[q].list = poller[q].list
  PROVE  FewShort'
<1>1. polls' + changes' <= polls + changes
  BY SMTT(60)
<1>2. polls' + changes' \in Nat
  BY SMTT(60)
<1>3. polls' + changes' <= setting'.changes
  BY <1>1, <1>2, SMTT(60) DEF FewShort
<1>4. ASSUME NEW q \in Poller, Short(q)'
      PROVE  poller'[q].list = {} /\ polls' + changes' < setting'.changes
  <2>1. Short(q) /\ poller'[q].list = poller[q].list
    BY <1>4 DEF Short, List
  <2>2. poller[q].list = {} /\ polls + changes < setting.changes
    BY <2>1 DEF FewShort
  <2>3. polls' + changes' < setting.changes
    BY <1>1, <1>2, <2>2, SMTT(60)
  <2> QED
    BY <2>1, <2>2, <2>3
<1> QED
  BY <1>3, <1>4 DEF FewShort

\* Every step leaves the short answers counted paid for.
LEMMA FewShortKept == ASSUME Steady, SourceInv, TypeOK', Few, FewFacts, AnyStep PROVE FewShort'
<1>i. AdminInv /\ FewSources /\ FewShort
  BY DEF SourceInv, FewFacts
<1>t. polls \in Nat /\ changes \in Nat /\ changes' \in Nat /\ setting.changes \in Nat
  BY SourceAssumption, SMTT(60) DEF SourceInv, TypeOK, Confirmations
<1>c. current \in Poller \cup {None} /\ None \notin Poller
  BY NameAssumption DEF SourceInv, TypeOK
<1>s. "publishes" \notin setting.actors /\ \A x, y \in setting.sources : x = y
  BY DEF SourceInv, TypeOK, Steady, Few, Domains
<1>1. ASSUME NEW p \in Poller, Polled(p) PROVE FewShort'
  <2>1. /\ setting' = setting /\ revision' = revision /\ polls' = polls /\ changes' <= changes
        /\ Others(p) /\ poller[p].pc # "exit"
    BY <1>1 DEF Polled, managed
  <2>2. polls' + changes' <= setting'.changes
    BY <1>i, <1>t, <2>1, SMTT(60) DEF FewShort
  <2>3. ASSUME NEW q \in Poller \ {p}, Short(q)'
        PROVE  poller'[q].list = {} /\ polls' + changes' < setting'.changes
    <3>1. Short(q) /\ poller'[q] = poller[q]
      BY <2>1, <2>3 DEF Others, Short, List
    <3>2. poller[q].list = {} /\ polls + changes < setting.changes
      BY <1>i, <3>1 DEF FewShort
    <3> QED
      BY <1>t, <2>1, <3>1, <3>2, SMTT(60)
  <2>4. ASSUME Short(p)'
        PROVE  poller'[p].list = {} /\ polls' + changes' < setting'.changes
    <3>1. poller[p].src \in setting.sources
      BY <1>i, <2>1 DEF FewSources
    <3>2. poller'[p].pc = "apply" /\ poller'[p].list # List(poller[p].src)
      BY <1>s, <2>1, <2>4, <3>1 DEF Short, List
    <3>3. poller'[p].list = {} /\ changes' < changes
      BY <1>1, <3>2 DEF Polled
    <3> QED
      BY <1>i, <1>t, <2>1, <3>3, SMTT(60) DEF FewShort
  <2> QED
    BY <2>2, <2>3, <2>4 DEF FewShort
<1>2. ASSUME NEW p \in Poller, AppliedDomains(p) PROVE FewShort'
  <2>1. /\ setting' = setting /\ changes' = changes /\ poller'[p].pc = "set"
        /\ poller[p].pc = "apply" /\ \A q \in Poller \ {p} : poller'[q].pc = poller[q].pc
    BY <1>2 DEF AppliedDomains
  <2>2. polls' + changes <= setting.changes
    BY <1>2, AppliedFew
  <2>3. \A q \in Poller : poller'[q].pc # "apply"
    BY <2>1, OneWorks DEF SourceInv
  <2> QED
    BY <2>1, <2>2, <2>3 DEF FewShort, Short
<1>3. ASSUME NEW p \in Poller, AppliedRedirects(p) PROVE FewShort'
  BY <1>3 DEF AppliedRedirects, Few
<1>4. ASSUME NEW p \in Poller, Forced(p) PROVE FewShort'
  <2>1. setting' = setting /\ revision' = revision /\ polls' = polls /\ changes' = changes
    BY <1>4 DEF Forced
  <2>2. \A q \in Poller : poller'[q].pc = "apply" =>
           poller[q].pc = "apply" /\ poller'[q].list = poller[q].list
    BY <1>4 DEF Forced, Moves, Others
  <2> QED
    BY <1>i, <1>t, <2>1, <2>2, NoMoreShort, SMTT(60)
<1>5. ASSUME NEW x \in Saver, SavedLocked(x) PROVE FewShort'
  BY <1>5 DEF SavedLocked, Few
<1>6. ASSUME NEW x \in Saver, Saving(x) PROVE FewShort'
  <2>1. setting' = setting /\ revision' = revision /\ polls' = polls /\ changes' <= changes
    BY <1>6 DEF Saving, managed
  <2>2. \A q \in Poller : poller'[q].pc = "apply" =>
           poller[q].pc = "apply" /\ poller'[q].list = poller[q].list
    BY <1>6 DEF Saving
  <2> QED
    BY <1>i, <1>t, <2>1, <2>2, NoMoreShort
<1>7. ASSUME NEW x \in Saver, Renamed(x) PROVE FewShort'
  <2>1. setting' = setting /\ revision' = revision /\ polls' = polls /\ changes' = changes
    BY <1>7 DEF Renamed, managed
  <2>2. \A q \in Poller : poller'[q].pc = "apply" =>
           poller[q].pc = "apply" /\ poller'[q].list = poller[q].list
    BY <1>7 DEF Renamed, Returns, Moves, Others
  <2> QED
    BY <1>i, <1>t, <2>1, <2>2, NoMoreShort, SMTT(60)
<1>8. ASSUME NEW a \in Admin, Deployed(a) PROVE FewShort'
  <2>1. setting' = setting /\ revision' = revision /\ polls' = polls /\ changes' <= changes
    BY <1>8 DEF Deployed
  <2>2. \A q \in Poller : poller'[q].pc = "apply" =>
           poller[q].pc = "apply" /\ poller'[q].list = poller[q].list
    BY <1>8 DEF Deployed
  <2> QED
    BY <1>i, <1>t, <2>1, <2>2, NoMoreShort
<1>9. ASSUME NEW a \in Admin, Replaced(a) PROVE FewShort'
  <2>1. setting' = setting /\ revision' = revision /\ polls' = 0 /\ changes' = changes
    BY <1>9 DEF Replaced
  <2>2. \A q \in Poller : poller'[q].pc = "apply" =>
           poller[q].pc = "apply" /\ poller'[q].list = poller[q].list
    BY <1>9 DEF Replaced, Others
  <2> QED
    BY <1>i, <1>t, <2>1, <2>2, NoMoreShort, SMTT(60)
<1>10. ASSUME NEW a \in Admin, Cancelled(a) PROVE FewShort'
  <2>1. setting' = setting /\ revision' = revision /\ polls' = polls /\ changes' = changes
    BY <1>10 DEF Cancelled, managed
  <2>2. \A q \in Poller : poller'[q].pc = "apply" =>
           poller[q].pc = "apply" /\ poller'[q].list = poller[q].list
    BY <1>10 DEF Cancelled, Others
  <2> QED
    BY <1>i, <1>t, <2>1, <2>2, NoMoreShort, SMTT(60)
<1>11. ASSUME NEW a \in Admin, Started(a) PROVE FewShort'
  <2>0. admin[a].new \in Poller
    BY <1>11, <1>i, <1>c DEF Started, AdminInv
  <2>1. setting' = setting /\ revision' = revision /\ polls' = polls /\ changes' = changes
    BY <1>11 DEF Started
  <2>2. \A q \in Poller : poller'[q].pc = "apply" =>
           poller[q].pc = "apply" /\ poller'[q].list = poller[q].list
    BY <1>11, <2>0 DEF Started, Moves, Others
  <2> QED
    BY <1>i, <1>t, <2>1, <2>2, NoMoreShort, SMTT(60)
<1>12. ASSUME NEW a \in Admin, Removed(a) PROVE FewShort'
  <2>1. setting' = setting /\ revision' = revision /\ polls' = polls /\ changes' <= changes
    BY <1>12 DEF Removed
  <2>2. \A q \in Poller : poller'[q].pc = "apply" =>
           poller[q].pc = "apply" /\ poller'[q].list = poller[q].list
    BY <1>12 DEF Removed
  <2> QED
    BY <1>i, <1>t, <2>1, <2>2, NoMoreShort
<1>13. ASSUME NEW a \in Admin, Dropped(a) PROVE FewShort'
  <2>1. setting' = setting /\ revision' = revision /\ polls' = 0 /\ changes' = changes
    BY <1>13 DEF Dropped
  <2>2. \A q \in Poller : poller'[q].pc = "apply" =>
           poller[q].pc = "apply" /\ poller'[q].list = poller[q].list
    BY <1>13 DEF Dropped
  <2> QED
    BY <1>i, <1>t, <2>1, <2>2, NoMoreShort, SMTT(60)
<1>14. ASSUME NEW a \in Admin, Cleared(a) PROVE FewShort'
  <2>1. setting' = setting /\ revision' = revision /\ polls' = polls /\ changes' = changes
    BY <1>14 DEF Cleared
  <2>2. \A q \in Poller : poller'[q].pc = "apply" =>
           poller[q].pc = "apply" /\ poller'[q].list = poller[q].list
    BY <1>14 DEF Cleared
  <2> QED
    BY <1>i, <1>t, <2>1, <2>2, NoMoreShort, SMTT(60)
<1>15. ASSUME Restarted PROVE FewShort'
  <2>1. setting' = setting /\ revision' = revision /\ polls' = 0 /\ changes' <= changes
    BY <1>15 DEF Restarted
  <2>2. \A q \in Poller : poller'[q].pc = "apply" =>
           poller[q].pc = "apply" /\ poller'[q].list = poller[q].list
    BY <1>15, Resting DEF Restarted
  <2> QED
    BY <1>i, <1>t, <2>1, <2>2, NoMoreShort
<1>16. ASSUME Published PROVE FewShort'
  BY <1>16, <1>s DEF Published, Acts
<1>17. ASSUME UNCHANGED vars PROVE FewShort'
  BY <1>17, <1>i DEF vars, FewShort, Short, List
<1> QED
  BY <1>1, <1>2, <1>3, <1>4, <1>5, <1>6, <1>7, <1>8, <1>9, <1>10, <1>11, <1>12, <1>13, <1>14, <1>15, <1>16, <1>17 DEF AnyStep

-----------------------------------------------------------------------------
(* The theorems. *)

\* A proxy that has just started, without a service, satisfies the invariants.
LEMMA SourceInit == Init => SourceInv /\ FewInv
<1> SUFFICES ASSUME Init PROVE SourceInv /\ FewInv
  OBVIOUS
<1>1. /\ poller \in [Poller -> PollerRecord] /\ \A p \in Poller : poller[p].pc = "exit"
      /\ admin \in [Admin -> AdminRecord] /\ \A a \in Admin : admin[a].pc = "idle"
      /\ save \in [Saver -> SaveRecord]
      /\ \A x \in Saver : save[x].pc = "idle" /\ save[x].data = None
  BY Resting DEF Init
<1>2. setting.changes \in Nat /\ revision \in [Source -> 1..MaxRevision]
  BY SourceAssumption, SMTT(60) DEF Init
<1>3. TypeOK
  <2>1. /\ setting \in Setting /\ changes = setting.changes /\ configured = None /\ known = FALSE
        /\ current = None /\ state = None /\ polls = 0 /\ inForce = {} /\ tmp = None /\ file = None
    BY DEF Init
  <2>2. changes \in 0..setting.changes /\ polls \in 0..(Confirmations - 1)
    BY <1>2, <2>1, SMTT(60) DEF Confirmations
  <2>3. tmp \in File /\ file \in File
    BY <2>1 DEF File
  <2> QED
    BY <1>1, <1>2, <2>1, <2>2, <2>3 DEF TypeOK
<1>4. AdminInv /\ LiveInv /\ ForceInv /\ SaveInv /\ RedirectInv
  BY <1>1 DEF Init, AdminInv, LiveInv, ForceInv, SaveInv, RedirectInv, Busy, Recorded
<1>5. Recorded(None) = {}
  BY DEF Recorded
<1>6. FewFacts
  <2>1. polls + changes <= setting.changes
    <3>1. polls = 0 /\ changes = setting.changes
      BY DEF Init
    <3> QED
      BY <1>2, <3>1, SMTT(60)
  <2>2. FewSources /\ FewRecords
    BY <1>1, <1>5 DEF Init, FewSources, FewRecords, Listed
  <2> QED
    BY <1>1, <2>1, <2>2 DEF FewFacts, FewShort, Short
<1> QED
  BY <1>3, <1>4, <1>6 DEF SourceInv, FewInv

\* Every step preserves the invariant.
LEMMA SourceInvKept == ASSUME OneByOne, SourceInv, [Next]_vars PROVE SourceInv'
<1>1. TypeOK' /\ AnyStep
  BY SourceCases
<1> QED
  BY <1>1, AdminKept, LiveKept, ForceKept, SaveKept, RedirectsKept DEF SourceInv

\* Every step leaves the setting as it was chosen.
LEMMA SettingStays == ASSUME AnyStep PROVE setting' = setting
BY DEF AnyStep, Polled, AppliedDomains, AppliedRedirects, Forced, SavedLocked, Saving, Renamed,
       Deployed, Replaced, Cancelled, Started, Removed, Dropped, Cleared, Restarted, Published, vars

\* Every step leaves the short answers counted paid for, if they are few.
LEMMA FewInvKept ==
  ASSUME OneByOne, Steady, SourceInv, FewInv, [Next]_vars PROVE FewInv'
<1>1. TypeOK' /\ AnyStep
  BY SourceCases
<1>2. setting' = setting
  BY <1>1, SettingStays
<1>3. Few' => Few
  BY <1>2 DEF Few, Domains
<1> QED
  BY <1>1, <1>3, FewSourcesKept, FewRecordsKept, FewShortKept DEF FewInv, FewFacts

\* The invariant of a manager with its pollers, savers and commands, for any
\* number of each, around crashes, failures and removals.
THEOREM SourceInvariant == ASSUME OneByOne PROVE Spec => []SourceInv
<1>1. SourceInv /\ [Next]_vars => SourceInv'
  BY SourceInvKept
<1>2. Init => SourceInv
  BY SourceInit
<1> QED
  BY <1>1, <1>2, PTL DEF Spec

\* A poller that was replaced or removed leaves nothing in force, on record or in
\* charge, whatever it was doing when it was stopped: redirects in force are the
\* ones recorded and saved, and after a removal nothing is in force
\* (DynamicRedirectManager.apply, SourcePoller.Stop).
THEOREM NoEffectIsLate == ASSUME OneByOne PROVE Spec => []NoLateEffects
<1>1. SourceInv => RedirectsRecorded
  BY DEF SourceInv, RedirectInv, AdminInv, RedirectsRecorded, Quiet, Busy
<1>2. SourceInv => RemovedForgets
  <2> SUFFICES ASSUME SourceInv, configured = None, \A a \in Admin : admin[a].pc \in {"idle", "save"}
               PROVE  inForce = {} /\ current = None /\ \A p \in Poller : poller[p].pc = "exit"
    BY DEF RemovedForgets
  <2>1. current = None
    BY DEF SourceInv, AdminInv, Busy
  <2>2. inForce = {}
    BY <2>1 DEF SourceInv, ForceInv
  <2>3. None \notin Poller
    BY NameAssumption
  <2> QED
    BY <2>1, <2>2, <2>3 DEF SourceInv, LiveInv, Replacing
<1>3. SourceInv => NoLateEffects
  BY <1>1, <1>2 DEF NoLateEffects
<1> QED
  BY <1>3, SourceInvariant, PTL

\* Fewer than three short answers take no domain away while the source lists all
\* that is recorded, wherever they fall between good polls, redeploys of the same
\* source and crashes (evaluateShrinkHold).
THEOREM FlakyEvictsNothing == ASSUME OneByOne, Steady PROVE Spec => FlakyNeverEvicts
<1>1. ASSUME SourceInv, FewInv, [Next]_vars, Domains, setting.changes < Confirmations,
             current # None, current' = current, state.list \subseteq List(poller[current].src)
      PROVE  state.list \subseteq state'.list
  <2>1. AnyStep
    BY <1>1, SourceCases
  <2>2. state # None /\ current \in Poller /\ poller[current].pc # "exit"
    BY <1>1 DEF SourceInv, TypeOK, LiveInv
  <2>3. FewFacts
    BY <1>1 DEF FewInv, Few
  <2>4. ASSUME NEW p \in Poller, AppliedDomains(p) PROVE state.list \subseteq state'.list
    <3> DEFINE count == evaluateShrinkHold(state.list \ poller[p].list, state.list)
    <3>1. /\ poller[p].pc = "apply" /\ Recorded(state) = state.list
          /\ state'.list = IF count > 0 THEN state.list \cup poller[p].list ELSE poller[p].list
      BY <2>2, <2>4 DEF AppliedDomains, Recorded
    <3>2. CASE Short(p)
      <4>1. poller[p].list = {} /\ polls + changes < setting.changes
        BY <2>3, <3>2 DEF FewFacts, FewShort
      <4>2. polls + 1 < Confirmations
        <5>1. polls \in Nat /\ changes \in Nat /\ setting.changes \in Nat
          BY <1>1, SourceAssumption, SMTT(60) DEF Confirmations, SourceInv, TypeOK
        <5> QED
          BY <1>1, <4>1, <5>1, SMTT(60) DEF Confirmations
      <4>3. state.list # {} => evaluateShrinkHold(state.list, state.list) > 0
        BY <1>1, <3>1, <4>2, EverythingShrinks
      <4>4. state.list \ poller[p].list = state.list
        BY <4>1
      <4> QED
        BY <3>1, <4>3, <4>4
    <3>3. CASE ~Short(p)
      <4>1. poller[p].list = List(poller[current].src)
        BY <2>2, <2>3, <3>1, <3>3 DEF FewFacts, FewSources, Short
      <4> QED
        BY <1>1, <3>1, <4>1
    <3> QED
      BY <3>2, <3>3
  <2>5. ASSUME NEW p \in Poller, Polled(p) \/ AppliedRedirects(p) \/ Forced(p)
        PROVE  state.list \subseteq state'.list
    BY <1>1, <2>5 DEF Polled, AppliedRedirects, Forced, managed
  <2>6. ASSUME NEW x \in Saver, SavedLocked(x) \/ Saving(x) \/ Renamed(x)
        PROVE  state.list \subseteq state'.list
    BY <2>6 DEF SavedLocked, Saving, Renamed, managed
  <2>7. ASSUME NEW a \in Admin, \/ Deployed(a) \/ Replaced(a) \/ Cancelled(a) \/ Started(a)
                                \/ Removed(a) \/ Dropped(a) \/ Cleared(a)
        PROVE  state.list \subseteq state'.list
    BY <1>1, <2>7 DEF Deployed, Replaced, Cancelled, Started, Removed, Dropped, Cleared, managed
  <2>8. ASSUME Restarted \/ Published \/ UNCHANGED vars PROVE state.list \subseteq state'.list
    BY <1>1, <2>8 DEF Restarted, Published, managed, vars
  <2> QED
    BY <2>1, <2>4, <2>5, <2>6, <2>7, <2>8 DEF AnyStep
<1>2. SourceInv /\ FewInv /\ [Next]_vars =>
        [ Domains /\ setting.changes < Confirmations
          /\ current # None /\ current' = current
          /\ state.list \subseteq List(poller[current].src)
          => state.list \subseteq state'.list ]_vars
  BY <1>1
<1>3. SourceInv /\ FewInv /\ [Next]_vars => SourceInv' /\ FewInv'
  BY SourceInvKept, FewInvKept
<1>4. Init => SourceInv /\ FewInv
  BY SourceInit
<1> QED
  BY <1>2, <1>3, <1>4, PTL DEF Spec, FlakyNeverEvicts
=============================================================================
