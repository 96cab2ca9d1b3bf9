------------------------ MODULE ResponseCacheProofs ------------------------
(***************************************************************************)
(* Proofs about ResponseCache, for every fleet, set of requests, set of    *)
(* header values, and bound: what a client is sent was negotiated for it,  *)
(* no follower is stranded, and the lease excludes.                        *)
(***************************************************************************)
EXTENDS ResponseCache, TLAPS

\* Zenon proves most leaves; one that needs SMT says so.
USE ZenonT(60)

Known == Entry \cup {None}

TaskRecord ==
    [pc : Pc, role : {"none", "lead", "refresh", "alone"},
     value : Value \cup {None}, allowsStored : BOOLEAN, index : Known,
     entry : Known, behind : Request \cup {None}, mine : BOOLEAN,
     floor : 0..MaxVersion]

Working == {"lead", "wait", "fetch", "store", "publish", "restore", "finish"}

\* The representation is the one these header values ask for.
Negotiated(entry, value) == entry.varyOn = None \/ entry.value = value

\* What a task has in hand at each place: its header values until it is over,
\* the index that leads it on, the stale copy it sends and then refreshes, the
\* response it is to store.
TaskFits(t) ==
    /\ t \in TaskRecord
    /\ t.pc \notin {"done", "lost"} => t.value \in Value
    /\ t.pc = "variant" => t.index \in Entry
    /\ t.pc = "stale" =>
          t.entry \in Entry \ {None} /\ ~t.entry.index /\ Negotiated(t.entry, t.value)
    /\ t.role = "refresh" /\ t.pc \in {"lead", "wait", "fetch"} => t.entry \in Entry
    /\ t.pc \in {"store", "publish", "restore"} => t.entry \in Entry
    /\ t.pc \in {"store", "publish"} => StorageKey(t.entry) \in Key

TasksFit == \A r \in Request : TaskFits(task[r])

\* A call is open exactly while its proxy has it in flight, and then its leader
\* is at work; a follower queues behind a call of its own proxy that is not over.
FlightInv ==
    /\ \A r \in Request :
          call[r].state = "open" => flight[NodeOf[r]] = r /\ task[r].pc \in Working
    /\ \A n \in Node :
          flight[n] # None => NodeOf[flight[n]] = n /\ call[flight[n]].state = "open"
    /\ \A f \in Request :
          task[f].pc = "follow" =>
              /\ task[f].behind \in Request
              /\ NodeOf[task[f].behind] = NodeOf[f]
              /\ call[task[f].behind].state # "none"

\* Whoever acquired the lease and was not timed out has it; a release on its way
\* belongs to a task that is done with it; undisturbed, all who fetch acquired it.
LeaseInv ==
    /\ \A r \in Request : task[r].mine /\ r \notin hist.expired => lease = r
    /\ \A r \in dropping : ~task[r].mine /\ task[r].pc \in {"finish", "done", "lost"}
    /\ ~hist.disturbed =>
          /\ hist.expired = {}
          /\ \A r \in Request : task[r].pc = "fetch" => task[r].mine

\* The content is at its last version once the purge has begun, and only then does
\* a request ask for no less.
PurgeStarted ==
    /\ purge.state # "idle" => purge.version = MaxVersion /\ origin.version = MaxVersion
    /\ purge.state = "done" => purge.left = {}
    /\ \A r \in Request : task[r].floor > 0 => purge.state = "done"

InHand == {"store", "publish", "restore", "finish"}

Current(e) == e = None \/ e.index \/ e.version = MaxVersion

\* What the purge has passed over is current: the keys it has emptied, the
\* responses about to be stored once it has emptied any, and what reaches a
\* request that came after it.
PurgeClean ==
    /\ purge.state # "idle" => \A k \in Key \ purge.left : Current(store[k])
    /\ purge.state # "idle" /\ purge.left # Key =>
          \A r \in Request : task[r].pc \in InHand => Current(task[r].entry)
    /\ \A r \in Request :
          /\ task[r].floor > 0 /\ task[r].pc = "stale" => Current(task[r].entry)
          /\ task[r].floor > 0 /\ task[r].pc = "follow"
               /\ call[task[r].behind].state = "settled"
                 => Current(call[task[r].behind].entry)
    /\ \A r \in Request : answer[r] # None => answer[r].sincePurge

PurgeInv == PurgeStarted /\ (~hist.overtaken => PurgeClean)

CacheInv == TypeOK /\ TasksFit /\ RightVariant /\ FlightInv /\ LeaseInv
            /\ PurgeInv

----------------------------------------------------------------------------
(* Types, and what each task has in hand.                                  *)

\* Response: what the target answers is an entry, negotiated for the values it
\* was asked with, that belongs under a key of the resource.
LEMMA ResponseFits ==
    ASSUME NEW version \in 0..MaxVersion, NEW varyOn \in Shape, NEW value \in Value
    PROVE  LET e == Response(version, varyOn, value)
           IN  /\ e \in Entry /\ ~e.index
               /\ Negotiated(e, value)
               /\ StorageKey(e) \in Key
  BY DEF Response, Entry, Negotiated, StorageKey, Key, Shape, Primary

\* entryAnswers: an entry that answers a request is negotiated for its values.
LEMMA AnswersNegotiated ==
    ASSUME NEW r \in Request, NEW e \in Known, EntryAnswers(e, r)
    PROVE  e \in Entry \ {None} /\ ~e.index /\ Negotiated(e, task[r].value)
  BY DEF EntryAnswers, Known, Negotiated, VariantKey, StorageKey, Primary

\* admitVariant: the index it publishes lists keys of the resource.
LEMMA AdmittedFits ==
    ASSUME NEW index \in Known, NEW e \in Entry, StorageKey(e) \in Key
    PROVE  AdmitVariant(index, e) \subseteq Entry
  <1> DEFINE fresh == index = None \/ index.varyOn # e.varyOn
             held == IF fresh THEN {} ELSE index.variants
  <1>1. held \subseteq Key
    BY DEF Known, Entry
  <1>2. VariantIndex(e.varyOn, held \cup {StorageKey(e)}) \in Entry
    <2>1. held \cup {StorageKey(e)} \in SUBSET Key
      BY <1>1
    <2>2. e.varyOn \in Shape /\ 0 \in 0..MaxVersion
      BY BoundsAssumption, SMTT(60) DEF Entry
    <2> QED
      BY <2>1, <2>2 DEF VariantIndex, Entry
  <1> QED
    BY <1>2 DEF AdmitVariant

\* A request that is over, or lost with its proxy, carries what its place allows.
LEMMA DoneFits == TaskFits(Done) /\ TaskFits([Done EXCEPT !.pc = "lost"])
  <1>1. 0 \in 0..MaxVersion
    BY BoundsAssumption, SMTT(60)
  <1> QED
    BY <1>1 DEF TaskFits, Done, TaskRecord, Known, Pc

\* A task that goes where nothing new is needed still fits.
LEMMA MoveFits ==
    ASSUME NEW t, TaskFits(t), NEW pc \in {"miss", "wait", "fetch", "finish"},
           t.pc \notin {"done", "lost"},
           t.role = "refresh" /\ pc \in {"wait", "fetch"} => t.entry \in Entry
    PROVE  TaskFits([t EXCEPT !.pc = pc])
  BY DEF TaskFits, TaskRecord, Pc

\* A lookup that found nothing to serve.
LEMMA MissFits ==
    ASSUME NEW t, TaskFits(t), t.pc \notin {"done", "lost"}, NEW floor \in 0..MaxVersion
    PROVE  TaskFits([t EXCEPT !.pc = "miss", !.floor = floor])
  <1> DEFINE next == [t EXCEPT !.pc = "miss", !.floor = floor]
  <1>1. t \in TaskRecord
    BY DEF TaskFits
  <1>2. next \in TaskRecord
    BY <1>1 DEF TaskRecord, Pc, Known
  <1>3. next.pc = "miss" /\ next.value = t.value
    BY <1>1 DEF TaskRecord
  <1> HIDE DEF next
  <1>4. TaskFits(next)
    BY <1>2, <1>3 DEF TaskFits
  <1> QED
    BY <1>4 DEF next

\* fetch and revalidate: the task that leads a call.
LEMMA LeadFits ==
    ASSUME NEW t, TaskFits(t), t.pc \notin {"done", "lost"}, NEW role \in {"lead", "refresh"},
           role = "refresh" => t.entry \in Entry
    PROVE  TaskFits([t EXCEPT !.pc = "lead", !.role = role])
  <1> DEFINE next == [t EXCEPT !.pc = "lead", !.role = role]
  <1>1. t \in TaskRecord
    BY DEF TaskFits
  <1>2. next \in TaskRecord
    BY <1>1 DEF TaskRecord, Pc, Known
  <1>3. next.pc = "lead" /\ next.value = t.value /\ next.role = role /\ next.entry = t.entry
    BY <1>1 DEF TaskRecord
  <1> HIDE DEF next
  <1>4. TaskFits(next)
    BY <1>2, <1>3 DEF TaskFits
  <1> QED
    BY <1>4 DEF next

\* fetch: the task that queues behind one.
LEMMA FollowFits ==
    ASSUME NEW t, TaskFits(t), t.pc \notin {"done", "lost"}, NEW b \in Request \cup {None}
    PROVE  TaskFits([t EXCEPT !.pc = "follow", !.behind = b])
  <1> DEFINE next == [t EXCEPT !.pc = "follow", !.behind = b]
  <1>1. t \in TaskRecord
    BY DEF TaskFits
  <1>2. next \in TaskRecord
    BY <1>1 DEF TaskRecord, Pc, Known
  <1>3. next.pc = "follow" /\ next.value = t.value
    BY <1>1 DEF TaskRecord
  <1> HIDE DEF next
  <1>4. TaskFits(next)
    BY <1>2, <1>3 DEF TaskFits
  <1> QED
    BY <1>4 DEF next

\* acquireLease: the task that holds the lease.
LEMMA AcquiredFits ==
    ASSUME NEW t, TaskFits(t), t.pc \notin {"done", "lost"},
           t.role = "refresh" => t.entry \in Entry
    PROVE  TaskFits([t EXCEPT !.pc = "fetch", !.mine = TRUE])
  <1> DEFINE next == [t EXCEPT !.pc = "fetch", !.mine = TRUE]
  <1>1. t \in TaskRecord
    BY DEF TaskFits
  <1>2. next \in TaskRecord
    BY <1>1 DEF TaskRecord, Pc, Known
  <1>3. next.pc = "fetch" /\ next.value = t.value /\ next.role = t.role /\ next.entry = t.entry
    BY <1>1 DEF TaskRecord
  <1> HIDE DEF next
  <1>4. TaskFits(next)
    BY <1>2, <1>3 DEF TaskFits
  <1> QED
    BY <1>4 DEF next

\* fetch: a follower the shared entry does not answer.
LEMMA AloneFits ==
    ASSUME NEW t, TaskFits(t), t.pc \notin {"done", "lost"}
    PROVE  TaskFits([t EXCEPT !.pc = "fetch", !.role = "alone"])
  <1> DEFINE next == [t EXCEPT !.pc = "fetch", !.role = "alone"]
  <1>1. t \in TaskRecord
    BY DEF TaskFits
  <1>2. next \in TaskRecord
    BY <1>1 DEF TaskRecord, Pc, Known
  <1>3. next.pc = "fetch" /\ next.value = t.value /\ next.role = "alone"
    BY <1>1 DEF TaskRecord
  <1> HIDE DEF next
  <1>4. TaskFits(next)
    BY <1>2, <1>3 DEF TaskFits
  <1> QED
    BY <1>4 DEF next

\* forwardRecording: a response that may not be stored.
LEMMA UnstoredFits ==
    ASSUME NEW t, TaskFits(t), t.pc \notin {"done", "lost"}
    PROVE  TaskFits([t EXCEPT !.pc = "finish", !.entry = None, !.mine = FALSE])
  <1> DEFINE next == [t EXCEPT !.pc = "finish", !.entry = None, !.mine = FALSE]
  <1>1. t \in TaskRecord
    BY DEF TaskFits
  <1>2. next \in TaskRecord
    BY <1>1 DEF TaskRecord, Pc, Known
  <1>3. next.pc = "finish" /\ next.value = t.value
    BY <1>1 DEF TaskRecord
  <1> HIDE DEF next
  <1>4. TaskFits(next)
    BY <1>2, <1>3 DEF TaskFits
  <1> QED
    BY <1>4 DEF next

\* forwardRecording: a response to store.
LEMMA FetchedFits ==
    ASSUME NEW t, TaskFits(t), t.pc \notin {"done", "lost"}, NEW e \in Entry,
           StorageKey(e) \in Key
    PROVE  TaskFits([t EXCEPT !.pc = "store", !.entry = e])
  <1> DEFINE next == [t EXCEPT !.pc = "store", !.entry = e]
  <1>1. t \in TaskRecord
    BY DEF TaskFits
  <1>2. next \in TaskRecord
    BY <1>1 DEF TaskRecord, Pc, Known
  <1>3. next.pc = "store" /\ next.value = t.value /\ next.entry = e
    BY <1>1 DEF TaskRecord
  <1> HIDE DEF next
  <1>4. TaskFits(next)
    BY <1>2, <1>3 DEF TaskFits
  <1> QED
    BY <1>4 DEF next

\* refreshed: a stored copy that is still good.
LEMMA RefreshedFits ==
    ASSUME NEW t, TaskFits(t), t.pc \notin {"done", "lost"}, NEW e \in Entry
    PROVE  TaskFits([t EXCEPT !.pc = "restore", !.entry = e])
  <1> DEFINE next == [t EXCEPT !.pc = "restore", !.entry = e]
  <1>1. t \in TaskRecord
    BY DEF TaskFits
  <1>2. next \in TaskRecord
    BY <1>1 DEF TaskRecord, Pc, Known
  <1>3. next.pc = "restore" /\ next.value = t.value /\ next.entry = e
    BY <1>1 DEF TaskRecord
  <1> HIDE DEF next
  <1>4. TaskFits(next)
    BY <1>2, <1>3 DEF TaskFits
  <1> QED
    BY <1>4 DEF next

\* The rest of the state changes type in no step of a task.
LEMMA GoFits ==
    ASSUME TypeOK, TasksFit, NEW r \in Request, NEW t, TaskFits(t), Go(r, t)
    PROVE  TasksFit' /\ task' \in [Request -> TaskRecord]
  <1>1. task \in [Request -> TaskRecord]
    BY DEF TypeOK, TaskRecord, Known
  <1>2. t \in TaskRecord
    BY DEF TaskFits
  <1>3. task' \in [Request -> TaskRecord]
    BY <1>1, <1>2 DEF Go
  <1>4. \A q \in Request : TaskFits(task'[q])
    BY <1>1 DEF Go, TasksFit
  <1> QED
    BY <1>3, <1>4 DEF TasksFit, TaskFits, Negotiated, StorageKey

\* Send: what is recorded of a response.
LEMMA SendFits ==
    ASSUME TypeOK, NEW r \in Request, NEW e, NEW own, NEW floor, Send(r, e, own, floor)
    PROVE  answer' \in [Request -> [rightVariant : BOOLEAN, sincePurge : BOOLEAN,
                                    asWished : BOOLEAN] \cup {None}]
  <1> DEFINE sent == [rightVariant |-> e.varyOn = None \/ e.value = task[r].value,
                      sincePurge |-> e.version >= floor,
                      asWished |-> own \/ task[r].allowsStored]
  <1>1. sent \in [rightVariant : BOOLEAN, sincePurge : BOOLEAN, asWished : BOOLEAN]
    BY SMTT(60)
  <1> QED
    BY <1>1 DEF Send, TypeOK

\* Settling a call keeps the types of the in-flight table and of the calls.
LEMMA SettleFits ==
    ASSUME TypeOK, NEW r \in Request, NEW e \in Known, Settle(r, e)
    PROVE  /\ flight' \in [Node -> Request \cup {None}]
           /\ call' \in [Request -> [state : {"none", "open", "settled"}, entry : Known]]
  <1>1. call \in [Request -> [state : {"none", "open", "settled"}, entry : Known]]
    BY DEF TypeOK, Known
  <1>2. NoCall \in [state : {"none", "open", "settled"}, entry : Known]
    BY DEF NoCall, Known
  <1>3. [state |-> "settled", entry |-> e] \in [state : {"none", "open", "settled"}, entry : Known]
    OBVIOUS
  <1>4. call' \in [Request -> [state : {"none", "open", "settled"}, entry : Known]]
    BY <1>1, <1>2, <1>3 DEF Settle
  <1>5. flight' \in [Node -> Request \cup {None}]
    BY SMTT(60) DEF TypeOK, Settle
  <1> QED
    BY <1>4, <1>5

\* The history keeps its type when an event or a disturbance is noted.
LEMMA HistFits ==
    ASSUME TypeOK
    PROVE  /\ \A b \in BOOLEAN : MayHappen /\ Happens(b) => 
                hist' \in [events : 0..MaxEvents, expired : SUBSET Request,
                           disturbed : BOOLEAN, overtaken : BOOLEAN]
           /\ Disturbed => 
                hist' \in [events : 0..MaxEvents, expired : SUBSET Request,
                           disturbed : BOOLEAN, overtaken : BOOLEAN]
  <1>1. hist \in [events : 0..MaxEvents, expired : SUBSET Request,
                           disturbed : BOOLEAN, overtaken : BOOLEAN]
    BY DEF TypeOK
  <1>2. MayHappen => hist.events + 1 \in 0..MaxEvents
    BY <1>1, BoundsAssumption, SMTT(60) DEF MayHappen
  <1>3. ASSUME NEW b \in BOOLEAN
        PROVE  (hist.disturbed \/ b) \in BOOLEAN
    OBVIOUS
  <1> QED
    BY <1>1, <1>2, <1>3 DEF Happens, Disturbed

\* Serve: whatever a lookup finds, the task goes on with what it needs.
LEMMA ServeFits ==
    ASSUME TypeOK, TasksFit, NEW r \in Request, NEW e \in Known,
           NEW floor \in 0..MaxVersion, task[r].pc \in {"start", "variant"},
           Serve(r, e, floor)
    PROVE  /\ TasksFit' /\ task' \in [Request -> TaskRecord]
           /\ answer' \in [Request -> [rightVariant : BOOLEAN, sincePurge : BOOLEAN,
                                       asWished : BOOLEAN] \cup {None}]
  <1> DEFINE t == task[r]
  <1>1. TaskFits(t)
    BY DEF TasksFit
  <1>2. CASE EntryAnswers(e, r) /\ e.fresh
    BY <1>2, DoneFits, GoFits, SendFits DEF Serve
  <1>3. CASE EntryAnswers(e, r) /\ ~e.fresh
    <2> DEFINE next == [t EXCEPT !.pc = "stale", !.entry = e, !.floor = floor]
    <2>1. e \in Entry \ {None} /\ ~e.index /\ Negotiated(e, t.value)
      BY <1>3, AnswersNegotiated
    <2>2. next \in TaskRecord
      BY <1>1 DEF TaskFits, TaskRecord, Pc
    <2>3. next.pc = "stale" /\ next.entry = e /\ next.value = t.value
      BY <1>1 DEF TaskFits, TaskRecord
    <2>4. TaskFits(next)
      BY <1>1, <2>1, <2>2, <2>3 DEF TaskFits
    <2>5. Go(r, next) /\ UNCHANGED answer
      BY <1>3 DEF Serve
    <2> QED
      BY <2>4, <2>5, GoFits DEF TypeOK
  <1>4. CASE ~EntryAnswers(e, r)
    <2> DEFINE next == [t EXCEPT !.pc = "miss", !.floor = floor]
    <2>1. TaskFits(next)
      BY <1>1, MissFits
    <2>2. Go(r, next) /\ UNCHANGED answer
      BY <1>4 DEF Serve
    <2> QED
      BY <2>1, <2>2, GoFits DEF TypeOK
  <1> QED
    BY <1>2, <1>3, <1>4

\* Init: every task starts with its header values and nothing else.
LEMMA InitFits == Init => TypeOK /\ TasksFit
  <1> SUFFICES ASSUME Init PROVE TypeOK /\ TasksFit
    OBVIOUS
  <1>1. 0 \in 0..MaxVersion /\ 0 \in 0..MaxEvents /\ 0 \in 0..Threshold
    BY BoundsAssumption, SMTT(60)
  <1>2. task \in [Request -> TaskRecord]
    BY <1>1 DEF Init, TaskRecord, Pc, Known
  <1>3. TasksFit
    BY <1>2 DEF Init, TasksFit, TaskFits
  <1>4. origin \in [version : 0..MaxVersion, varyOn : Shape]
    BY <1>1 DEF Init
  <1>5. TypeOK
    BY <1>1, <1>2, <1>4 DEF Init, TypeOK, TaskRecord, Known, NoCall
  <1> QED
    BY <1>3, <1>5

\* Every step keeps the types and what each request carries at its place.
LEMMA TypesKept == TypeOK /\ TasksFit /\ [Next]_vars => TypeOK' /\ TasksFit'
  <1> SUFFICES ASSUME TypeOK, TasksFit, [Next]_vars
               PROVE  TypeOK' /\ TasksFit'
    OBVIOUS
  <1> DEFINE Fine == TasksFit' /\ task' \in [Request -> TaskRecord]
             AnswerType == [Request -> [rightVariant : BOOLEAN, sincePurge : BOOLEAN,
                                        asWished : BOOLEAN] \cup {None}]
             CallType == [Request -> [state : {"none", "open", "settled"}, entry : Known]]
             FlightType == [Node -> Request \cup {None}]
             HistType == [events : 0..MaxEvents, expired : SUBSET Request,
                          disturbed : BOOLEAN, overtaken : BOOLEAN]
             BreakerType == [Node -> [failures : 0..Threshold, cooling : BOOLEAN]]
             PurgeType == [state : {"idle", "running", "done"}, left : SUBSET Key,
                           version : 0..MaxVersion]
             StoreType == [Key -> Known]
             OriginType == [version : 0..MaxVersion, varyOn : Shape]
  <1>t. /\ origin \in OriginType /\ store \in StoreType /\ call \in CallType
        /\ flight \in FlightType /\ answer \in AnswerType /\ hist \in HistType
        /\ breaker \in BreakerType /\ purge \in PurgeType
        /\ lease \in Request \cup {None} /\ dropping \subseteq Request
        /\ task \in [Request -> TaskRecord]
    BY DEF TypeOK, TaskRecord, Known
  <1> DEFINE Kept ==
               /\ Fine
               /\ origin' \in OriginType /\ store' \in StoreType /\ call' \in CallType
               /\ flight' \in FlightType /\ answer' \in AnswerType /\ hist' \in HistType
               /\ breaker' \in BreakerType /\ purge' \in PurgeType
               /\ lease' \in Request \cup {None} /\ dropping' \subseteq Request
  <1>s. SUFFICES Kept
    BY DEF TypeOK, TaskRecord, Known
  <1>f. ASSUME task' = task PROVE Fine
    BY <1>f, <1>t DEF TasksFit, TaskFits, Negotiated, StorageKey
  <1>h. /\ \A b \in BOOLEAN : MayHappen /\ Happens(b) => hist' \in HistType
        /\ Disturbed => hist' \in HistType
    BY HistFits
  <1>m. ASSUME NEW r \in Request, NEW pc \in {"miss", "wait", "fetch", "finish"},
               task[r].pc \notin {"done", "lost"},
               task[r].role = "refresh" /\ pc \in {"wait", "fetch"} => task[r].entry \in Entry,
               Move(r, pc)
        PROVE  Fine
    BY <1>m, MoveFits, GoFits DEF Move, TasksFit
  <1>b. ASSUME NEW n \in Node
        PROVE  /\ BreakerSucceeded(n) => breaker' \in BreakerType
               /\ \A f \in 0..Threshold : BreakerFailed(n, f) => breaker' \in BreakerType
               /\ Asked(n) \in 0..Threshold
    <2>0. Threshold \in Nat \ {0} /\ 0 \in 0..Threshold
      BY BoundsAssumption, SMTT(60)
    <2>1. BreakerSucceeded(n) => breaker' \in BreakerType
      BY <1>t, <2>0, SMTT(60) DEF BreakerSucceeded
    <2>2. ASSUME NEW f \in 0..Threshold, BreakerFailed(n, f)
          PROVE  breaker' \in BreakerType
      <3> DEFINE now == [failures |-> IF f < Threshold THEN f + 1 ELSE Threshold,
                         cooling |-> f + 1 >= Threshold]
      <3>1. now \in [failures : 0..Threshold, cooling : BOOLEAN]
        BY <2>0, SMTT(60)
      <3> QED
        BY <3>1, <2>2, <1>t DEF BreakerFailed
    <2>3. Asked(n) \in 0..Threshold
      BY <2>0, <1>t, SMTT(60) DEF Asked
    <2> QED
      BY <2>1, <2>2, <2>3
  <1>n. \A r \in Request : NodeOf[r] \in Node /\ TaskFits(task[r])
    BY FleetAssumption DEF TasksFit
  <1>1. CASE UNCHANGED vars
    BY <1>1, <1>t, <1>f DEF vars
  <1>2. ASSUME NEW r \in Request, Lookup(r) PROVE Kept
    <2> DEFINE floor == IF purge.state = "done" THEN purge.version ELSE 0
    <2>1. floor \in 0..MaxVersion /\ Get(Primary) \in Known
      BY <1>t, BoundsAssumption, SMTT(60) DEF Get, Key
    <2>2. ASSUME Serve(r, Get(Primary), floor) PROVE Fine /\ answer' \in AnswerType
      BY <2>1, <2>2, <1>2, ServeFits DEF Lookup
    <2>3. ASSUME Go(r, [task[r] EXCEPT !.pc = "miss", !.floor = floor]) PROVE Fine
      <3>1. TaskFits([task[r] EXCEPT !.pc = "miss", !.floor = floor])
        BY <1>n, <1>2, <2>1, MissFits DEF Lookup
      <3> QED
        BY <3>1, <2>3, GoFits
    <2>4. ASSUME Get(Primary) # None,
                 Go(r, [task[r] EXCEPT !.pc = "variant", !.index = Get(Primary), !.floor = floor])
          PROVE  Fine
      <3> DEFINE next == [task[r] EXCEPT !.pc = "variant", !.index = Get(Primary),
                                         !.floor = floor]
      <3>2. Get(Primary) \in Entry
        BY <2>1, <2>4 DEF Known
      <3>3. TaskFits(task[r]) /\ task[r].pc = "start"
        BY <1>n, <1>2 DEF Lookup
      <3> HIDE DEF floor
      <3>4. next \in TaskRecord
        BY <2>1, <3>3 DEF TaskFits, TaskRecord, Pc
      <3>5. next.pc = "variant" /\ next.index = Get(Primary) /\ next.value = task[r].value
        BY <3>3 DEF TaskFits, TaskRecord
      <3>1. TaskFits(next)
        BY <3>2, <3>3, <3>4, <3>5 DEF TaskFits
      <3> QED
        BY <3>1, <2>4, GoFits
    <2>5. Fine /\ answer' \in AnswerType /\ hist' \in HistType
      BY <2>2, <2>3, <2>4, <1>2, <1>h, <1>t DEF Lookup
    <2> QED
      BY <2>5, <1>2, <1>t DEF Lookup
  <1>3. ASSUME NEW r \in Request, LookupVariant(r) PROVE Kept
    <2> DEFINE key == VariantKey(task[r].index.varyOn, r)
    <2>1. task[r].pc = "variant" /\ task[r].index \in Entry /\ task[r].value \in Value
      BY <1>3, <1>n DEF LookupVariant, TaskFits, TaskRecord, Known
    <2>2. key \in Key
      BY <2>1 DEF VariantKey, Key, Entry, Shape
    <2>3. Get(key) \in Known /\ task[r].floor \in 0..MaxVersion
      BY <2>2, <1>t, <1>n DEF Get, TaskRecord
    <2>4. ASSUME Serve(r, Get(key), task[r].floor) PROVE Fine /\ answer' \in AnswerType
      BY <2>1, <2>3, <2>4, ServeFits
    <2>5. Fine /\ answer' \in AnswerType /\ hist' \in HistType
      BY <2>1, <2>4, <1>3, <1>h, <1>m, <1>t DEF LookupVariant
    <2> QED
      BY <2>5, <1>3, <1>t DEF LookupVariant
  <1>j. ASSUME NEW r \in Request, NEW leads, NEW follows,
               Join(r, leads, follows), TaskFits(leads),
               flight[NodeOf[r]] # None => TaskFits(follows)
        PROVE  Fine /\ flight' \in FlightType /\ call' \in CallType
    <2>1. CASE flight[NodeOf[r]] = None
      <3>1. [call[r] EXCEPT !.state = "open"] \in [state : {"none", "open", "settled"}, entry : Known]
        BY <1>t, SMTT(60)
      <3>2. call' = [call EXCEPT ![r] = [call[r] EXCEPT !.state = "open"]]
        BY <2>1, <1>j, <1>t DEF Join
      <3>3. flight' \in FlightType /\ Go(r, leads)
        BY <2>1, <1>j, <1>t, SMTT(60) DEF Join
      <3> QED
        BY <3>1, <3>2, <3>3, <1>t, <1>j, GoFits
    <2>2. CASE flight[NodeOf[r]] # None
      BY <2>2, <1>j, <1>t, GoFits DEF Join
    <2> QED
      BY <2>1, <2>2
  <1>4. ASSUME NEW r \in Request, Fetch(r) PROVE Kept
    <2>1. task[r].pc = "miss" /\ flight[NodeOf[r]] \in Request \cup {None}
      BY <1>4, <1>t, <1>n DEF Fetch
    <2>2. TaskFits([task[r] EXCEPT !.pc = "lead", !.role = "lead"])
      BY <2>1, <1>n, LeadFits
    <2>3. TaskFits([task[r] EXCEPT !.pc = "follow", !.behind = flight[NodeOf[r]]])
      BY <2>1, <1>n, FollowFits
    <2>4. Fine /\ flight' \in FlightType /\ call' \in CallType
      BY <2>2, <2>3, <1>4, <1>j DEF Fetch
    <2> QED
      BY <2>4, <1>4, <1>t DEF Fetch
  <1>5. ASSUME NEW r \in Request, Revalidate(r) PROVE Kept
    <2>1. task[r].pc = "stale"
      BY <1>5 DEF Revalidate
    <2>0. task[r].entry \in Entry
      BY <2>1, <1>n DEF TaskFits
    <2>2. TaskFits([task[r] EXCEPT !.pc = "lead", !.role = "refresh"])
      BY <2>1, <2>0, <1>n, LeadFits
    <2>3. Fine /\ flight' \in FlightType /\ call' \in CallType
      BY <2>2, <1>5, <1>j, DoneFits DEF Revalidate
    <2>4. answer' \in AnswerType
      BY <1>5, SendFits DEF Revalidate
    <2> QED
      BY <2>3, <2>4, <1>5, <1>t DEF Revalidate
  <1>6. ASSUME NEW r \in Request, AcquireLease(r) PROVE Kept
    <2>1. task[r].pc = "lead" /\ (task[r].role = "refresh" => task[r].entry \in Entry)
      BY <1>6, <1>n DEF AcquireLease, TaskFits
    <2>2. Move(r, "fetch") \/ Move(r, "wait") => Fine
      BY <2>1, <1>m
    <2>3. TaskFits([task[r] EXCEPT !.pc = "fetch", !.mine = TRUE])
      BY <2>1, <1>n, AcquiredFits
    <2>4. Go(r, [task[r] EXCEPT !.pc = "fetch", !.mine = TRUE]) => Fine
      BY <2>3, GoFits
    <2>5. Go(r, Done) => Fine
      BY DoneFits, GoFits
    <2>6. Settle(r, None) => flight' \in FlightType /\ call' \in CallType
      BY SettleFits DEF Known
    <2>7. breaker' \in BreakerType
      BY <1>6, <1>b, <1>n, <1>t DEF AcquireLease
    <2>8. hist' \in HistType /\ lease' \in Request \cup {None}
      BY <1>6, <1>h, <1>t DEF AcquireLease
    <2>9. Fine
      BY <1>6, <2>2, <2>4, <2>5 DEF AcquireLease
    <2>10. flight' \in FlightType /\ call' \in CallType
      BY <1>6, <2>6, <1>t DEF AcquireLease
    <2> QED
      BY <2>7, <2>8, <2>9, <2>10, <1>6, <1>t DEF AcquireLease
  <1>7. ASSUME NEW r \in Request, Probe(r) \/ WaitEnds(r) PROVE Kept
    <2>1. task[r].pc = "wait" /\ (task[r].role = "refresh" => task[r].entry \in Entry)
      BY <1>7, <1>n DEF Probe, WaitEnds, TaskFits
    <2>2. Move(r, "fetch") => Fine
      BY <2>1, <1>m
    <2>3. Go(r, Done) => Fine
      BY DoneFits, GoFits
    <2>4. ProbeLease.entry \in Known
      BY <1>t DEF ProbeLease, Key
    <2>5. Settle(r, ProbeLease.entry) => flight' \in FlightType /\ call' \in CallType
      BY <2>4, SettleFits
    <2>6. Send(r, ProbeLease.entry, FALSE, task[r].floor) => answer' \in AnswerType
      BY SendFits
    <2>7. breaker' \in BreakerType
      BY <1>7, <1>b, <1>n, <1>t DEF Probe, WaitEnds
    <2>8. hist' \in HistType
      BY <1>7, <1>h, <1>t DEF Probe, WaitEnds
    <2>9. Fine
      BY <1>7, <2>2, <2>3 DEF Probe, WaitEnds
    <2>10. flight' \in FlightType /\ call' \in CallType /\ answer' \in AnswerType
      BY <1>7, <2>5, <2>6, <1>t DEF Probe, WaitEnds
    <2> QED
      BY <2>7, <2>8, <2>9, <2>10, <1>7, <1>t DEF Probe, WaitEnds
  <1>r. ASSUME NEW r \in Request, Release(r) PROVE dropping' \subseteq Request
    BY <1>r, <1>t DEF Release
  <1>8. ASSUME NEW r \in Request, Forward(r) PROVE Kept
    <2> DEFINE fetched == Response(origin.version, origin.varyOn, task[r].value)
               stored == task[r].entry
    <2>1. /\ task[r].pc = "fetch" /\ task[r].value \in Value
          /\ origin.version \in 0..MaxVersion /\ origin.varyOn \in Shape
      BY <1>8, <1>n, <1>t DEF Forward, TaskFits
    <2>2. fetched \in Entry /\ ~fetched.index /\ StorageKey(fetched) \in Key
      BY <2>1, ResponseFits
    <2>3. ASSUME Go(r, [task[r] EXCEPT !.pc = "finish", !.entry = None, !.mine = FALSE])
          PROVE  Fine
      <3>1. TaskFits([task[r] EXCEPT !.pc = "finish", !.entry = None, !.mine = FALSE])
        BY <2>1, <1>n, UnstoredFits
      <3> QED
        BY <3>1, <2>3, GoFits
    <2>4. ASSUME Go(r, [task[r] EXCEPT !.pc = "store", !.entry = fetched])
          PROVE  Fine
      <3> DEFINE next == [task[r] EXCEPT !.pc = "store", !.entry = fetched]
      <3> HIDE DEF fetched
      <3>2. TaskFits(next)
        BY <2>1, <2>2, <1>n, FetchedFits
      <3> QED
        BY <3>2, <2>4, GoFits
    <2>5. ASSUME task[r].role = "refresh",
                 Go(r, [task[r] EXCEPT !.pc = "restore", !.entry = [stored EXCEPT !.fresh = TRUE]])
          PROVE  Fine
      <3> DEFINE again == [stored EXCEPT !.fresh = TRUE]
      <3>1. stored \in Entry
        BY <2>1, <2>5, <1>n DEF TaskFits, TaskRecord, Known
      <3>2. again \in Entry
        BY <3>1 DEF Entry
      <3> HIDE DEF again
      <3>3. TaskFits([task[r] EXCEPT !.pc = "restore", !.entry = again])
        BY <2>1, <3>2, <1>n, RefreshedFits
      <3> QED
        BY <3>3, <2>5, GoFits DEF again
    <2>6. Fine
      BY <2>3, <2>4, <2>5, <1>8 DEF Forward
    <2>7. answer' \in AnswerType
      <3>1. Send(r, fetched, TRUE, task[r].floor) => answer' \in AnswerType
        BY SendFits
      <3> QED
        BY <3>1, <1>8, <1>t DEF Forward
    <2>8. flight' \in FlightType /\ call' \in CallType
      <3>1. Settle(r, None) => flight' \in FlightType /\ call' \in CallType
        BY SettleFits DEF Known
      <3> QED
        BY <3>1, <1>8, <1>t DEF Forward
    <2>9. dropping' \subseteq Request /\ hist' \in HistType
      BY <1>8, <1>r, <1>h, <1>t DEF Forward
    <2> QED
      BY <2>6, <2>7, <2>8, <2>9, <1>8, <1>t DEF Forward
  <1>w. ASSUME NEW key, NEW e \in Known, Set(key, e)
        PROVE  store' \in StoreType /\ hist' \in HistType
    <2>1. [store EXCEPT ![key] = e] \in StoreType
      BY <1>t
    <2>2. MayHappen /\ Happens(FALSE) => hist' \in HistType
      BY <1>h
    <2> QED
      BY <2>1, <2>2, <1>w, <1>t DEF Set
  <1>9. ASSUME NEW r \in Request, StoreVariant(r) PROVE Kept
    <2>1. task[r].pc = "store" /\ task[r].entry \in Entry /\ StorageKey(task[r].entry) \in Key
      BY <1>9, <1>n DEF StoreVariant, TaskFits, TaskRecord, Known
    <2>2. Move(r, "finish") => Fine
      BY <2>1, <1>m
    <2>3. Move(r, "publish") => Fine
      <3>1. TaskFits([task[r] EXCEPT !.pc = "publish"])
        BY <2>1, <1>n, SMTT(60) DEF TaskFits, TaskRecord, Pc
      <3> QED
        BY <3>1, GoFits DEF Move
    <2>4. Set(StorageKey(task[r].entry), task[r].entry) => store' \in StoreType /\ hist' \in HistType
      BY <2>1, <1>w DEF Known
    <2>5. Fine /\ store' \in StoreType /\ hist' \in HistType
      BY <2>2, <2>3, <2>4, <1>9, <1>t DEF StoreVariant
    <2> QED
      BY <2>5, <1>9, <1>t DEF StoreVariant
  <1>10. ASSUME NEW r \in Request, PublishIndex(r) PROVE Kept
    <2>1. /\ task[r].pc = "publish" /\ task[r].entry \in Entry
          /\ StorageKey(task[r].entry) \in Key /\ task[r].index \in Known
      BY <1>10, <1>n DEF PublishIndex, TaskFits, TaskRecord, Known
    <2>2. PICK index \in AdmitVariant(task[r].index, task[r].entry) : Set(Primary, index)
      BY <1>10 DEF PublishIndex
    <2>3. index \in Known
      BY <2>1, <2>2, AdmittedFits DEF Known
    <2>4. Fine /\ store' \in StoreType /\ hist' \in HistType
      BY <2>1, <2>2, <2>3, <1>w, <1>m, <1>10 DEF PublishIndex
    <2> QED
      BY <2>4, <1>10, <1>t DEF PublishIndex
  <1>11. ASSUME NEW r \in Request, StoreRefreshed(r) PROVE Kept
    <2>1. task[r].pc = "restore" /\ task[r].entry \in Known
      BY <1>11, <1>t DEF StoreRefreshed, TaskRecord
    <2>2. Fine /\ store' \in StoreType /\ hist' \in HistType
      BY <2>1, <1>w, <1>m, <1>11 DEF StoreRefreshed
    <2> QED
      BY <2>2, <1>11, <1>t DEF StoreRefreshed
  <1>12. ASSUME NEW r \in Request, Finish(r) PROVE Kept
    <2>1. task[r].entry \in Known
      BY <1>t DEF TaskRecord
    <2>2. Fine /\ flight' \in FlightType /\ call' \in CallType
      BY <2>1, <1>12, DoneFits, GoFits, SettleFits DEF Finish
    <2> QED
      BY <2>2, <1>12, <1>r, <1>t DEF Finish
  <1>l. ASSUME NEW r \in Request, NEW behind, Leave(r, behind) PROVE call' \in CallType
    <2>1. NoCall \in [state : {"none", "open", "settled"}, entry : Known]
      BY DEF NoCall, Known
    <2> QED
      BY <2>1, <1>l, <1>t DEF Leave
  <1>13. ASSUME NEW r \in Request, Follow(r) PROVE Kept
    <2>1. task[r].pc = "follow"
      BY <1>13 DEF Follow
    <2>2. TaskFits([task[r] EXCEPT !.pc = "fetch", !.role = "alone"])
      BY <2>1, <1>n, AloneFits
    <2>3. Fine
      BY <2>2, <1>13, DoneFits, GoFits DEF Follow
    <2>4. Send(r, call[task[r].behind].entry, FALSE, task[r].floor) => answer' \in AnswerType
      BY SendFits
    <2>5. answer' \in AnswerType /\ hist' \in HistType
      BY <2>4, <1>13, <1>h, <1>t DEF Follow
    <2> QED
      BY <2>3, <2>5, <1>13, <1>l, <1>t DEF Follow
  <1>14. ASSUME NEW r \in Request, ClientLeaves(r) PROVE Kept
    <2>1. Fine
      BY <1>14, DoneFits, GoFits DEF ClientLeaves
    <2> QED
      BY <2>1, <1>14, <1>l, <1>t DEF ClientLeaves
  <1>15. ASSUME NEW r \in Request, ReleaseLease(r) PROVE Kept
    <2>1. hist' \in HistType
      BY <1>15, <1>h, <1>t DEF ReleaseLease
    <2> QED
      BY <2>1, <1>15, <1>f, <1>t DEF ReleaseLease
  <1>16. CASE LeaseExpires
    <2>1. hist.events + 1 \in 0..MaxEvents /\ lease \in Request
      BY <1>16, <1>t, BoundsAssumption, SMTT(60) DEF LeaseExpires, MayHappen
    <2>2. hist' \in HistType
      BY <2>1, <1>16, <1>t DEF LeaseExpires
    <2> QED
      BY <2>2, <1>16, <1>f, <1>t DEF LeaseExpires
  <1>17. CASE ContentChanges
    <2>1. origin.version + 1 \in 0..MaxVersion
      BY <1>17, <1>t, BoundsAssumption, SMTT(60) DEF ContentChanges
    <2>2. origin' \in OriginType
      BY <2>1, <1>17, SMTT(60) DEF ContentChanges
    <2>3. hist' \in HistType
      BY <1>17, <1>h DEF ContentChanges
    <2> QED
      BY <2>2, <2>3, <1>17, <1>f, <1>t DEF ContentChanges
  <1>18. CASE StartPurge
    BY <1>18, <1>f, <1>t DEF StartPurge, PurgeKeys
  <1>19. CASE PurgeBatch
    <2>0. PICK batch \in {{Primary}, Key \ {Primary}} \cap SUBSET purge.left :
            /\ store' = [k \in Key |-> IF k \in batch THEN None ELSE store[k]]
            /\ purge' = [purge EXCEPT !.left = @ \ batch,
                                     !.state = IF purge.left = batch THEN "done" ELSE @]
      BY <1>19 DEF PurgeBatch
    <2>1. store' \in StoreType
      BY <2>0, <1>t DEF Known
    <2>3. purge' \in PurgeType
      BY <2>0, <1>t
    <2>2. hist' \in HistType
      BY <1>19, <1>t DEF PurgeBatch
    <2> QED
      BY <2>1, <2>2, <2>3, <1>19, <1>f, <1>t DEF PurgeBatch
  <1>20. ASSUME NEW k \in Key, EntryAges(k) PROVE Kept
    <2>0. store[k] \in Entry
      BY <1>20, <1>t DEF EntryAges, Known
    <2>1. [store[k] EXCEPT !.fresh = FALSE] \in Known
      BY <2>0 DEF Known, Entry
    <2>2. store' \in StoreType
      BY <2>1, <1>20, <1>t DEF EntryAges, Known
    <2>3. hist' \in HistType
      BY <1>20, <1>h DEF EntryAges
    <2> QED
      BY <2>2, <2>3, <1>20, <1>f, <1>t DEF EntryAges
  <1>21. ASSUME NEW n \in Node, CooldownPasses(n) PROVE Kept
    <2>1. breaker' \in BreakerType
      BY <1>21, <1>t DEF CooldownPasses
    <2> QED
      BY <2>1, <1>21, <1>f, <1>t DEF CooldownPasses
  <1>22. ASSUME NEW n \in Node, Crash(n) PROVE Kept
    <2>1. \A r \in Request : TaskFits(task'[r])
      BY <1>22, <1>n, DoneFits DEF Crash
    <2>2. task' \in [Request -> TaskRecord]
      BY <1>22, <2>1 DEF Crash, TaskFits
    <2>3. Fine
      BY <2>1, <2>2 DEF TasksFit, TaskFits, Negotiated, StorageKey
    <2>4. call' \in CallType
      BY <1>22, <1>t DEF Crash, NoCall, Known
    <2>5. breaker' \in BreakerType
      BY <1>22, <1>t, BoundsAssumption, SMTT(60) DEF Crash
    <2>6. hist' \in HistType
      BY <1>22, <1>h DEF Crash
    <2> QED
      BY <2>3, <2>4, <2>5, <2>6, <1>22, <1>t DEF Crash
  <1> HIDE DEF Kept
  <1> QED
    BY <1>1, <1>2, <1>3, <1>4, <1>5, <1>6, <1>7, <1>8, <1>9, <1>10, <1>11, <1>12,
       <1>13, <1>14, <1>15, <1>16, <1>17, <1>18, <1>19, <1>20, <1>21, <1>22
       DEF Next, Step

----------------------------------------------------------------------------
(* What a client is sent.                                                  *)

\* Send: a negotiated response keeps the record right.
LEMMA SendRight ==
    ASSUME TypeOK, RightVariant, NEW r \in Request, NEW e, NEW own, NEW floor,
           Negotiated(e, task[r].value), Send(r, e, own, floor)
    PROVE  RightVariant'
  <1> DEFINE sent == [rightVariant |-> e.varyOn = None \/ e.value = task[r].value,
                      sincePurge |-> e.version >= floor,
                      asWished |-> own \/ task[r].allowsStored]
  <1>1. sent.rightVariant
    BY DEF Negotiated
  <1>2. DOMAIN answer = Request
    BY DEF TypeOK
  <1> HIDE DEF sent
  <1>3. answer' = [answer EXCEPT ![r] = IF answer[r] # None THEN answer[r] ELSE sent]
    BY DEF Send, sent
  <1> QED
    BY <1>1, <1>2, <1>3 DEF RightVariant

\* Serve: a hit is only sent once entryAnswers has held for it.
LEMMA ServeRight ==
    ASSUME TypeOK, RightVariant, NEW r \in Request, NEW e \in Known, NEW floor,
           Serve(r, e, floor)
    PROVE  RightVariant'
  <1>1. CASE EntryAnswers(e, r) /\ e.fresh
    BY <1>1, AnswersNegotiated, SendRight DEF Serve
  <1>2. CASE ~(EntryAnswers(e, r) /\ e.fresh)
    BY <1>2 DEF Serve, RightVariant
  <1> QED
    BY <1>1, <1>2

\* Every step gives a request only an answer of the variant it asked for.
LEMMA AnswersKept ==
    TypeOK /\ TasksFit /\ FlightInv /\ RightVariant /\ [Next]_vars => RightVariant'
  <1> SUFFICES ASSUME TypeOK, TasksFit, FlightInv, RightVariant, [Next]_vars
               PROVE  RightVariant'
    OBVIOUS
  <1>n. \A r \in Request : TaskFits(task[r])
    BY DEF TasksFit
  <1>s. store \in [Key -> Known] /\ \A r \in Request : call[r].entry \in Known
    BY DEF TypeOK, Known
  <1>u. ASSUME UNCHANGED answer PROVE RightVariant'
    BY <1>u DEF RightVariant
  <1>1. ASSUME NEW r \in Request, Lookup(r) PROVE RightVariant'
    <2>1. Get(Primary) \in Known
      BY <1>s DEF Get, Key
    <2> QED
      BY <2>1, <1>1, <1>u, ServeRight DEF Lookup
  <1>2. ASSUME NEW r \in Request, LookupVariant(r) PROVE RightVariant'
    <2>1. task[r].pc = "variant" /\ task[r].index \in Entry /\ task[r].value \in Value
      BY <1>2, <1>n DEF LookupVariant, TaskFits
    <2>2. Get(VariantKey(task[r].index.varyOn, r)) \in Known
      BY <2>1, <1>s DEF VariantKey, Key, Entry, Shape, Get
    <2> QED
      BY <2>2, <1>2, <1>u, ServeRight DEF LookupVariant
  <1>3. ASSUME NEW r \in Request, Revalidate(r) PROVE RightVariant'
    <2>1. Negotiated(task[r].entry, task[r].value)
      BY <1>3, <1>n DEF Revalidate, TaskFits
    <2> QED
      BY <2>1, <1>3, SendRight DEF Revalidate
  <1>4. ASSUME NEW r \in Request, Probe(r) PROVE RightVariant'
    <2>1. ProbeLease.entry \in Known
      BY <1>s DEF ProbeLease, Key
    <2>2. EntryAnswers(ProbeLease.entry, r) => Negotiated(ProbeLease.entry, task[r].value)
      BY <2>1, AnswersNegotiated
    <2> QED
      BY <2>2, <1>4, <1>u, SendRight DEF Probe
  <1>5. ASSUME NEW r \in Request, Forward(r) PROVE RightVariant'
    <2> DEFINE fetched == Response(origin.version, origin.varyOn, task[r].value)
    <2>1. /\ task[r].value \in Value
          /\ origin.version \in 0..MaxVersion /\ origin.varyOn \in Shape
      BY <1>5, <1>n DEF Forward, TaskFits, TypeOK
    <2>2. Negotiated(fetched, task[r].value)
      BY <2>1, ResponseFits
    <2>3. Send(r, fetched, TRUE, task[r].floor) \/ UNCHANGED answer
      BY <1>5 DEF Forward
    <2> QED
      BY <2>2, <2>3, <1>u, SendRight
  <1>6. ASSUME NEW r \in Request, Follow(r) PROVE RightVariant'
    <2>1. call[task[r].behind].entry \in Known
      BY <1>6, <1>s DEF Follow, FlightInv
    <2>2. CASE EntryAnswers(call[task[r].behind].entry, r)
      BY <2>1, <2>2, <1>6, AnswersNegotiated, SendRight DEF Follow
    <2>3. CASE ~EntryAnswers(call[task[r].behind].entry, r)
      BY <2>3, <1>6, <1>u DEF Follow
    <2> QED
      BY <2>2, <2>3
  <1>7. ASSUME NEW r \in Request,
               \/ Fetch(r) \/ AcquireLease(r) \/ WaitEnds(r) \/ StoreVariant(r)
               \/ PublishIndex(r) \/ StoreRefreshed(r) \/ Finish(r)
               \/ ClientLeaves(r) \/ ReleaseLease(r)
        PROVE  UNCHANGED answer
    BY <1>7 DEF Fetch, AcquireLease, WaitEnds, StoreVariant, PublishIndex,
                StoreRefreshed, Finish, ClientLeaves, ReleaseLease
  <1>8. ASSUME LeaseExpires \/ ContentChanges \/ StartPurge \/ PurgeBatch \/ UNCHANGED vars
        PROVE  UNCHANGED answer
    BY <1>8 DEF LeaseExpires, ContentChanges, StartPurge, PurgeBatch, vars
  <1>9. ASSUME NEW k \in Key, EntryAges(k) PROVE UNCHANGED answer
    BY <1>9 DEF EntryAges
  <1>10. ASSUME NEW n \in Node, CooldownPasses(n) \/ Crash(n) PROVE UNCHANGED answer
    BY <1>10 DEF CooldownPasses, Crash
  <1> QED
    BY <1>1, <1>2, <1>3, <1>4, <1>5, <1>6, <1>7, <1>8, <1>9, <1>10, <1>u DEF Next, Step

----------------------------------------------------------------------------
(* Calls in flight.                                                        *)

\* A task moves and the calls stay as they are.
LEMMA MoveKeepsFlight ==
    ASSUME TypeOK, FlightInv, NEW r \in Request, NEW next, Go(r, next),
           UNCHANGED <<flight, call>>, next.pc # "follow",
           task[r].pc \in Working => next.pc \in Working
    PROVE  FlightInv'
  <1>1. DOMAIN task = Request
    BY DEF TypeOK
  <1>2. task'[r] = next /\ \A q \in Request \ {r} : task'[q] = task[q]
    BY <1>1 DEF Go
  <1> QED
    BY <1>2, SMTT(60) DEF FlightInv

\* settle: whoever waits on the call is left a settled one, and the proxy has no
\* call in flight.
LEMMA SettleKeepsFlight ==
    ASSUME TypeOK, FlightInv, NEW r \in Request, NEW next, NEW e, Go(r, next),
           Settle(r, e), task[r].pc # "follow", next.pc # "follow"
    PROVE  FlightInv'
  <1>1. DOMAIN task = Request /\ DOMAIN call = Request /\ DOMAIN flight = Node
        /\ NodeOf[r] \in Node
    BY FleetAssumption DEF TypeOK
  <1>2. task'[r] = next /\ \A q \in Request \ {r} : task'[q] = task[q]
    BY <1>1 DEF Go
  <1>3. call'[r].state # "open"
    BY <1>1, SMTT(60) DEF Settle, NoCall
  <1>4. \A q \in Request \ {r} : call'[q] = call[q]
    BY <1>1 DEF Settle
  <1>5. \A n \in Node : flight'[n] = flight[n] \/ (flight[n] = r /\ flight'[n] = None)
    BY <1>1 DEF Settle
  <1>6. ASSUME NEW q \in Request, call'[q].state = "open"
        PROVE  flight'[NodeOf[q]] = q /\ task'[q].pc \in Working
    BY <1>2, <1>3, <1>4, <1>5, <1>6, FleetAssumption, SMTT(60) DEF FlightInv
  <1>7. ASSUME NEW n \in Node, flight'[n] # None
        PROVE  NodeOf[flight'[n]] = n /\ call'[flight'[n]].state = "open"
    <2>1. flight'[n] = flight[n] /\ flight[n] \in Request
      BY <1>5, <1>7 DEF TypeOK
    <2>2. NodeOf[flight[n]] = n /\ call[flight[n]].state = "open"
      BY <2>1, <1>7 DEF FlightInv
    <2>3. flight[n] # r
      BY <2>1, <2>2, <1>1, <1>7 DEF Settle
    <2> QED
      BY <2>1, <2>2, <2>3, <1>4
  <1>8. ASSUME NEW f \in Request, task'[f].pc = "follow"
        PROVE  /\ task'[f].behind \in Request
               /\ NodeOf[task'[f].behind] = NodeOf[f]
               /\ call'[task'[f].behind].state # "none"
    <2>1. f # r /\ task'[f] = task[f]
      BY <1>2, <1>8
    <2>2. /\ task[f].pc = "follow" /\ task[f].behind \in Request
          /\ NodeOf[task[f].behind] = NodeOf[f] /\ call[task[f].behind].state # "none"
      BY <2>1, <1>8, SMTT(60) DEF FlightInv
    <2>3. CASE task[f].behind = r
      <3>1. f \in Followers(r)
        BY <2>2, <2>3 DEF Followers
      <3>2. call'[r].state # "none"
        BY <3>1, <2>2, <2>3, <1>1, SMTT(60) DEF Settle
      <3> QED
        BY <3>2, <2>1, <2>2, <2>3
    <2>4. CASE task[f].behind # r
      BY <2>1, <2>2, <2>4, <1>4
    <2> QED
      BY <2>3, <2>4
  <1> QED
    BY <1>6, <1>7, <1>8 DEF FlightInv

\* fetch's two ends for a follower: it forgets its call, unless others wait.
LEMMA LeaveKeepsFlight ==
    ASSUME TypeOK, FlightInv, NEW r \in Request, NEW next, Go(r, next),
           Leave(r, task[r].behind), UNCHANGED flight,
           task[r].pc = "follow", next.pc # "follow"
    PROVE  FlightInv'
  <1> DEFINE b == task[r].behind
  <1>1. DOMAIN task = Request /\ DOMAIN call = Request /\ b \in Request
    BY DEF TypeOK, FlightInv
  <1>2. task'[r] = next /\ \A q \in Request \ {r} : task'[q] = task[q]
    BY <1>1 DEF Go
  <1>3. \A q \in Request :
           \/ call'[q] = call[q]
           \/ q = b /\ call[q].state = "settled" /\ Followers(b) = {r} /\ call'[q] = NoCall
    BY <1>1 DEF Leave
  <1>4. ASSUME NEW q \in Request, call'[q].state = "open"
        PROVE  flight'[NodeOf[q]] = q /\ task'[q].pc \in Working
    <2>1. call[q].state = "open"
      BY <1>3, <1>4, SMTT(60) DEF NoCall
    <2>2. q # r
      BY <2>1 DEF FlightInv, Working
    <2> QED
      BY <2>1, <2>2, <1>2 DEF FlightInv
  <1>5. ASSUME NEW n \in Node, flight'[n] # None
        PROVE  NodeOf[flight'[n]] = n /\ call'[flight'[n]].state = "open"
    <2>1. flight[n] \in Request /\ NodeOf[flight[n]] = n /\ call[flight[n]].state = "open"
      BY <1>5, SMTT(60) DEF FlightInv, TypeOK
    <2> QED
      BY <2>1, <1>3
  <1>6. ASSUME NEW f \in Request, task'[f].pc = "follow"
        PROVE  /\ task'[f].behind \in Request
               /\ NodeOf[task'[f].behind] = NodeOf[f]
               /\ call'[task'[f].behind].state # "none"
    <2>1. f # r /\ task'[f] = task[f]
      BY <1>2, <1>6
    <2>2. /\ task[f].pc = "follow" /\ task[f].behind \in Request
          /\ NodeOf[task[f].behind] = NodeOf[f] /\ call[task[f].behind].state # "none"
      BY <2>1, <1>6, SMTT(60) DEF FlightInv
    <2>3. f \in Followers(task[f].behind)
      BY <2>2 DEF Followers
    <2>4. call'[task[f].behind] = call[task[f].behind]
      BY <2>1, <2>2, <2>3, <1>3
    <2> QED
      BY <2>1, <2>2, <2>4
  <1> QED
    BY <1>4, <1>5, <1>6 DEF FlightInv

\* join: the first leads; the next queues behind the call it found, or is gone.
LEMMA JoinKeepsFlight ==
    ASSUME TypeOK, FlightInv, NEW r \in Request, NEW leads, NEW follows,
           Join(r, leads, follows), task[r].pc \in {"miss", "stale"},
           leads.pc = "lead", follows.pc \in {"follow", "done"},
           follows.pc = "follow" => follows.behind = flight[NodeOf[r]]
    PROVE  FlightInv'
  <1>1. DOMAIN task = Request /\ DOMAIN flight = Node /\ NodeOf[r] \in Node
        /\ DOMAIN call = Request
    BY FleetAssumption DEF TypeOK
  <1>2. CASE flight[NodeOf[r]] = None
    <2>1. task'[r] = leads /\ \A q \in Request \ {r} : task'[q] = task[q]
      BY <1>1, <1>2 DEF Join, Go
    <2>2. flight'[NodeOf[r]] = r /\ \A n \in Node \ {NodeOf[r]} : flight'[n] = flight[n]
      BY <1>1, <1>2 DEF Join
    <2>3. call'[r].state = "open" /\ \A q \in Request \ {r} : call'[q] = call[q]
      BY <1>2, SMTT(60) DEF Join, TypeOK
    <2>4. ASSUME NEW q \in Request, call'[q].state = "open"
          PROVE  flight'[NodeOf[q]] = q /\ task'[q].pc \in Working
      <3>1. CASE q = r
        BY <3>1, <2>1, <2>2 DEF Working
      <3>2. CASE q # r
        <4>1. flight[NodeOf[q]] = q /\ task[q].pc \in Working
          BY <3>2, <2>3, <2>4 DEF FlightInv
        <4>2. NodeOf[q] \in Node \ {NodeOf[r]}
          BY <4>1, <1>2, FleetAssumption
        <4> QED
          BY <3>2, <4>1, <4>2, <2>1, <2>2
      <3> QED
        BY <3>1, <3>2
    <2>5. ASSUME NEW n \in Node, flight'[n] # None
          PROVE  NodeOf[flight'[n]] = n /\ call'[flight'[n]].state = "open"
      <3>1. CASE n = NodeOf[r]
        BY <3>1, <2>2, <2>3
      <3>2. CASE n # NodeOf[r]
        <4>1. flight'[n] = flight[n] /\ flight[n] \in Request
          BY <3>2, <2>2, <2>5, SMTT(60) DEF TypeOK
        <4>2. NodeOf[flight[n]] = n /\ call[flight[n]].state = "open"
          BY <4>1, <2>5 DEF FlightInv
        <4> QED
          BY <3>2, <4>1, <4>2, <2>3
      <3> QED
        BY <3>1, <3>2
    <2>6. ASSUME NEW f \in Request, task'[f].pc = "follow"
          PROVE  /\ task'[f].behind \in Request
                 /\ NodeOf[task'[f].behind] = NodeOf[f]
                 /\ call'[task'[f].behind].state # "none"
      <3>1. task'[f] = task[f]
        BY <2>1, <2>6
      <3>2. /\ task[f].behind \in Request
            /\ NodeOf[task[f].behind] = NodeOf[f] /\ call[task[f].behind].state # "none"
        BY <3>1, <2>6, SMTT(60) DEF FlightInv
      <3> QED
        BY <3>1, <3>2, <2>3
    <2> QED
      BY <2>4, <2>5, <2>6 DEF FlightInv
  <1>3. CASE flight[NodeOf[r]] # None
    <2>1. /\ task'[r] = follows /\ \A q \in Request \ {r} : task'[q] = task[q]
          /\ call' = call /\ flight' = flight
      BY <1>1, <1>3 DEF Join, Go
    <2>2. /\ flight[NodeOf[r]] \in Request
          /\ NodeOf[flight[NodeOf[r]]] = NodeOf[r]
          /\ call[flight[NodeOf[r]]].state = "open"
      BY <1>1, <1>3, SMTT(60) DEF FlightInv, TypeOK
    <2>3. call[r].state # "open"
      BY DEF FlightInv, Working
    <2> QED
      BY <2>1, <2>2, <2>3, SMTT(60) DEF FlightInv
  <1> QED
    BY <1>2, <1>3

\* Every step leaves each follower with a call that is led or settled.
LEMMA FlightKept == TypeOK /\ FlightInv /\ [Next]_vars => FlightInv'
  <1> SUFFICES ASSUME TypeOK, FlightInv, [Next]_vars PROVE FlightInv'
    OBVIOUS
  <1>t. task \in [Request -> TaskRecord]
    BY DEF TypeOK, TaskRecord, Known
  <1>u. ASSUME UNCHANGED <<task, flight, call>> PROVE FlightInv'
    BY <1>u DEF FlightInv
  <1>m. ASSUME NEW r \in Request, NEW pc, Move(r, pc), UNCHANGED <<flight, call>>,
               pc # "follow", task[r].pc \in Working => pc \in Working
        PROVE  FlightInv'
    <2>1. [task[r] EXCEPT !.pc = pc].pc = pc
      BY <1>t DEF TaskRecord
    <2> QED
      BY <2>1, <1>m, MoveKeepsFlight DEF Move
  <1>d. Done.pc = "done" /\ [Done EXCEPT !.pc = "lost"].pc = "lost"
    BY DEF Done
  <1>1. ASSUME NEW r \in Request, Lookup(r) \/ LookupVariant(r) PROVE FlightInv'
    <2>1. /\ task[r].pc \notin Working
          /\ UNCHANGED <<flight, call>>
      BY <1>1 DEF Lookup, LookupVariant, Working
    <2>2. ASSUME NEW e, NEW floor, Serve(r, e, floor) PROVE FlightInv'
      <3>1. /\ [task[r] EXCEPT !.pc = "stale", !.entry = e, !.floor = floor].pc = "stale"
            /\ [task[r] EXCEPT !.pc = "miss", !.floor = floor].pc = "miss"
        BY <1>t DEF TaskRecord
      <3> QED
        BY <3>1, <2>1, <2>2, <1>d, MoveKeepsFlight DEF Serve
    <2>3. ASSUME NEW e, NEW floor,
                 \/ Go(r, [task[r] EXCEPT !.pc = "variant", !.index = e, !.floor = floor])
                 \/ Go(r, [task[r] EXCEPT !.pc = "miss", !.floor = floor])
          PROVE  FlightInv'
      <3>1. /\ [task[r] EXCEPT !.pc = "variant", !.index = e, !.floor = floor].pc = "variant"
            /\ [task[r] EXCEPT !.pc = "miss", !.floor = floor].pc = "miss"
        BY <1>t DEF TaskRecord
      <3> QED
        BY <3>1, <2>1, <2>3, MoveKeepsFlight
    <2>4. CASE Lookup(r)
      BY <2>4, <2>2, <2>3 DEF Lookup
    <2>5. CASE LookupVariant(r)
      BY <2>5, <2>1, <2>2, <1>m DEF LookupVariant
    <2> QED
      BY <2>4, <2>5, <1>1
  <1>2. ASSUME NEW r \in Request, Fetch(r) PROVE FlightInv'
    <2> DEFINE leads == [task[r] EXCEPT !.pc = "lead", !.role = "lead"]
               follows == [task[r] EXCEPT !.pc = "follow", !.behind = flight[NodeOf[r]]]
    <2>1. leads.pc = "lead" /\ follows.pc = "follow" /\ follows.behind = flight[NodeOf[r]]
      BY <1>t DEF TaskRecord
    <2>2. task[r].pc = "miss" /\ Join(r, leads, follows)
      BY <1>2 DEF Fetch
    <2> HIDE DEF leads, follows
    <2> QED
      BY <2>1, <2>2, JoinKeepsFlight
  <1>3. ASSUME NEW r \in Request, Revalidate(r) PROVE FlightInv'
    <2> DEFINE leads == [task[r] EXCEPT !.pc = "lead", !.role = "refresh"]
    <2>1. leads.pc = "lead"
      BY <1>t DEF TaskRecord
    <2>2. task[r].pc = "stale" /\ Join(r, leads, Done)
      BY <1>3 DEF Revalidate
    <2> HIDE DEF leads
    <2> QED
      BY <2>1, <2>2, <1>d, JoinKeepsFlight
  <1>4. ASSUME NEW r \in Request, AcquireLease(r) PROVE FlightInv'
    <2>1. [task[r] EXCEPT !.pc = "fetch", !.mine = TRUE].pc = "fetch"
      BY <1>t DEF TaskRecord
    <2>2. task[r].pc = "lead" /\ {"fetch", "wait"} \subseteq Working
      BY <1>4 DEF AcquireLease, Working
    <2>3. Move(r, "fetch") /\ UNCHANGED <<flight, call>> => FlightInv'
      BY <2>2, <1>m
    <2>4. Move(r, "wait") /\ UNCHANGED <<flight, call>> => FlightInv'
      BY <2>2, <1>m
    <2>5. Go(r, [task[r] EXCEPT !.pc = "fetch", !.mine = TRUE]) /\ UNCHANGED <<flight, call>>
            => FlightInv'
      BY <2>1, <2>2, MoveKeepsFlight
    <2>6. Go(r, Done) /\ Settle(r, None) => FlightInv'
      BY <2>2, <1>d, SettleKeepsFlight
    <2> QED
      BY <2>3, <2>4, <2>5, <2>6, <1>4 DEF AcquireLease
  <1>5. ASSUME NEW r \in Request, Probe(r) \/ WaitEnds(r) PROVE FlightInv'
    <2>1. task[r].pc = "wait" /\ "fetch" \in Working
      BY <1>5 DEF Probe, WaitEnds, Working
    <2>2. Move(r, "fetch") /\ UNCHANGED <<flight, call>> => FlightInv'
      BY <2>1, <1>m
    <2>3. Go(r, Done) /\ Settle(r, ProbeLease.entry) => FlightInv'
      BY <2>1, <1>d, SettleKeepsFlight
    <2> QED
      BY <2>2, <2>3, <1>5 DEF Probe, WaitEnds
  <1>6. ASSUME NEW r \in Request, Forward(r) PROVE FlightInv'
    <2>1. task[r].pc = "fetch" /\ {"finish", "store", "restore"} \subseteq Working
      BY <1>6 DEF Forward, Working
    <2>2. ASSUME NEW e
          PROVE  /\ [task[r] EXCEPT !.pc = "finish", !.entry = None, !.mine = FALSE].pc = "finish"
                 /\ [task[r] EXCEPT !.pc = "store", !.entry = e].pc = "store"
                 /\ [task[r] EXCEPT !.pc = "restore", !.entry = e].pc = "restore"
      BY <1>t DEF TaskRecord
    <2>3. ASSUME Go(r, [task[r] EXCEPT !.pc = "finish", !.entry = None, !.mine = FALSE]),
                 Settle(r, None)
          PROVE  FlightInv'
      BY <2>1, <2>2, <2>3, SettleKeepsFlight
    <2>4. ASSUME NEW e, UNCHANGED <<flight, call>>,
                 \/ Go(r, [task[r] EXCEPT !.pc = "store", !.entry = e])
                 \/ Go(r, [task[r] EXCEPT !.pc = "restore", !.entry = e])
          PROVE  FlightInv'
      BY <2>1, <2>2, <2>4, MoveKeepsFlight
    <2> QED
      BY <2>3, <2>4, <1>6 DEF Forward
  <1>7. ASSUME NEW r \in Request, StoreVariant(r) \/ PublishIndex(r) \/ StoreRefreshed(r)
        PROVE  FlightInv'
    <2>1. "finish" \in Working /\ "publish" \in Working
      BY DEF Working
    <2>2. UNCHANGED <<flight, call>> /\ (Move(r, "finish") \/ Move(r, "publish"))
      BY <1>7 DEF StoreVariant, PublishIndex, StoreRefreshed
    <2> QED
      BY <2>1, <2>2, <1>m
  <1>8. ASSUME NEW r \in Request, Finish(r) PROVE FlightInv'
    BY <1>8, <1>d, SettleKeepsFlight DEF Finish
  <1>9. ASSUME NEW r \in Request, Follow(r) \/ ClientLeaves(r) PROVE FlightInv'
    <2>1. [task[r] EXCEPT !.pc = "fetch", !.role = "alone"].pc = "fetch"
      BY <1>t DEF TaskRecord
    <2> QED
      BY <2>1, <1>9, <1>d, LeaveKeepsFlight DEF Follow, ClientLeaves
  <1>10. ASSUME NEW r \in Request, ReleaseLease(r) PROVE FlightInv'
    BY <1>10, <1>u DEF ReleaseLease
  <1>11. ASSUME LeaseExpires \/ ContentChanges \/ StartPurge \/ PurgeBatch \/ UNCHANGED vars
         PROVE  FlightInv'
    BY <1>11, <1>u DEF LeaseExpires, ContentChanges, StartPurge, PurgeBatch, vars
  <1>12. ASSUME NEW k \in Key, EntryAges(k) PROVE FlightInv'
    BY <1>12, <1>u DEF EntryAges
  <1>13. ASSUME NEW n \in Node, CooldownPasses(n) PROVE FlightInv'
    BY <1>13, <1>u DEF CooldownPasses
  <1>14. ASSUME NEW n \in Node, Crash(n) PROVE FlightInv'
    <2>1. \A q \in Request : NodeOf[q] # n => task'[q] = task[q] /\ call'[q] = call[q]
      BY <1>14 DEF Crash
    <2>2. \A q \in Request : NodeOf[q] = n =>
             call'[q].state = "none" /\ task'[q].pc # "follow"
      BY <1>14 DEF Crash, NoCall, Done
    <2>3. flight'[n] = None /\ \A m \in Node \ {n} : flight'[m] = flight[m]
      BY <1>14 DEF Crash, TypeOK
    <2>4. ASSUME NEW q \in Request, call'[q].state = "open"
          PROVE  flight'[NodeOf[q]] = q /\ task'[q].pc \in Working
      <3>1. NodeOf[q] \in Node \ {n}
        BY <2>2, <2>4, FleetAssumption
      <3> QED
        BY <3>1, <2>1, <2>3, <2>4 DEF FlightInv
    <2>5. ASSUME NEW m \in Node, flight'[m] # None
          PROVE  NodeOf[flight'[m]] = m /\ call'[flight'[m]].state = "open"
      <3>1. m # n /\ flight'[m] = flight[m] /\ flight[m] \in Request
        BY <2>3, <2>5, SMTT(60) DEF TypeOK
      <3>2. NodeOf[flight[m]] = m /\ call[flight[m]].state = "open"
        BY <3>1, <2>5 DEF FlightInv
      <3> QED
        BY <3>1, <3>2, <2>1
    <2>6. ASSUME NEW f \in Request, task'[f].pc = "follow"
          PROVE  /\ task'[f].behind \in Request
                 /\ NodeOf[task'[f].behind] = NodeOf[f]
                 /\ call'[task'[f].behind].state # "none"
      <3>1. NodeOf[f] # n /\ task'[f] = task[f]
        BY <2>1, <2>2, <2>6
      <3>2. /\ task[f].behind \in Request
            /\ NodeOf[task[f].behind] = NodeOf[f] /\ call[task[f].behind].state # "none"
        BY <3>1, <2>6 DEF FlightInv
      <3> QED
        BY <3>1, <3>2, <2>1
    <2> QED
      BY <2>4, <2>5, <2>6 DEF FlightInv
  <1> QED
    BY <1>1, <1>2, <1>3, <1>4, <1>5, <1>6, <1>7, <1>8, <1>9, <1>10, <1>11, <1>12,
       <1>13, <1>14 DEF Next, Step

----------------------------------------------------------------------------
(* The lease.                                                              *)

\* No lease runs out, and what has happened stays so.
Quiet == hist'.expired = hist.expired /\ (hist.disturbed => hist'.disturbed)

\* Noting an event expires no lease, and a disturbance is remembered.
LEMMA HistQuiet ==
    ASSUME TypeOK
    PROVE  /\ UNCHANGED hist => Quiet
           /\ Happens(FALSE) => Quiet
           /\ Happens(TRUE) => Quiet /\ hist'.disturbed
           /\ Disturbed => Quiet /\ hist'.disturbed
  <1>1. hist \in [events : 0..MaxEvents, expired : SUBSET Request,
                  disturbed : BOOLEAN, overtaken : BOOLEAN]
    BY DEF TypeOK
  <1>2. UNCHANGED hist => Quiet
    BY DEF Quiet
  <1>3. ASSUME NEW b \in BOOLEAN, Happens(b)
        PROVE  Quiet /\ (b => hist'.disturbed)
    <2>1. hist'.expired = hist.expired /\ hist'.disturbed = (hist.disturbed \/ b)
      BY <1>1, <1>3 DEF Happens
    <2> QED
      BY <2>1 DEF Quiet
  <1>4. Disturbed => Quiet /\ hist'.disturbed
    BY <1>1 DEF Disturbed, Quiet
  <1> QED
    BY <1>2, <1>3, <1>4

\* A task moves without acquiring or releasing the lease, or gives it up.
LEMMA MoveKeepsLease ==
    ASSUME TypeOK, LeaseInv, NEW r \in Request, NEW next, Go(r, next), Quiet,
           UNCHANGED lease, dropping' \subseteq dropping \cup {r},
           next.mine => task[r].mine,
           r \in dropping' => ~next.mine /\ next.pc \in {"finish", "done", "lost"},
           next.pc = "fetch" => hist'.disturbed
    PROVE  LeaseInv'
  <1>1. DOMAIN task = Request /\ dropping \subseteq Request
    BY DEF TypeOK
  <1>2. task'[r] = next /\ \A q \in Request \ {r} : task'[q] = task[q]
    BY <1>1 DEF Go
  <1>3. \A q \in Request : task'[q].mine /\ q \notin hist'.expired => lease' = q
    BY <1>2 DEF LeaseInv, Quiet
  <1>4. \A q \in dropping' : ~task'[q].mine /\ task'[q].pc \in {"finish", "done", "lost"}
    BY <1>1, <1>2 DEF LeaseInv
  <1>5. ~hist'.disturbed => hist'.expired = {} /\ ~hist.disturbed
    BY DEF LeaseInv, Quiet
  <1>6. ~hist'.disturbed => \A q \in Request : task'[q].pc = "fetch" => task'[q].mine
    BY <1>2, <1>5 DEF LeaseInv
  <1> QED
    BY <1>3, <1>4, <1>5, <1>6 DEF LeaseInv

\* Every step leaves a lease to at most one fetch while nothing disturbs the fleet.
LEMMA LeaseKept == TypeOK /\ LeaseInv /\ [Next]_vars => LeaseInv'
  <1> SUFFICES ASSUME TypeOK, LeaseInv, [Next]_vars PROVE LeaseInv'
    OBVIOUS
  <1>t. task \in [Request -> TaskRecord] /\ dropping \subseteq Request
    BY DEF TypeOK, TaskRecord, Known
  <1>q. /\ UNCHANGED hist => Quiet
        /\ Happens(FALSE) => Quiet
        /\ Happens(TRUE) => Quiet /\ hist'.disturbed
        /\ Disturbed => Quiet /\ hist'.disturbed
    BY HistQuiet
  <1>o. \A r \in dropping : task[r].pc \in {"finish", "done", "lost"}
    BY DEF LeaseInv
  <1>u. ASSUME UNCHANGED <<task, lease, dropping>>, Quiet PROVE LeaseInv'
    BY <1>u DEF LeaseInv, Quiet
  \* A task that is not done with the lease goes on as it holds it.
  <1>m. ASSUME NEW r \in Request, NEW next, Go(r, next), Quiet,
               UNCHANGED <<lease, dropping>>, r \notin dropping,
               next.mine => task[r].mine, next.pc = "fetch" => hist'.disturbed
        PROVE  LeaseInv'
    BY <1>m, MoveKeepsLease
  <1>p. ASSUME NEW r \in Request, NEW pc
        PROVE  /\ [task[r] EXCEPT !.pc = pc].pc = pc
               /\ [task[r] EXCEPT !.pc = pc].mine = task[r].mine
    BY <1>t DEF TaskRecord
  <1>d. /\ Done.pc = "done" /\ Done.mine = FALSE
        /\ [Done EXCEPT !.pc = "lost"].pc = "lost" /\ [Done EXCEPT !.pc = "lost"].mine = FALSE
    BY DEF Done
  <1>1. ASSUME NEW r \in Request, Lookup(r) \/ LookupVariant(r) PROVE LeaseInv'
    <2>1. r \notin dropping /\ UNCHANGED <<lease, dropping>> /\ Quiet
      BY <1>1, <1>o, <1>q DEF Lookup, LookupVariant
    <2>2. ASSUME NEW e, NEW floor
          PROVE  LET stale == [task[r] EXCEPT !.pc = "stale", !.entry = e, !.floor = floor]
                     miss == [task[r] EXCEPT !.pc = "miss", !.floor = floor]
                     variant == [task[r] EXCEPT !.pc = "variant", !.index = e, !.floor = floor]
                 IN  /\ stale.pc = "stale" /\ stale.mine = task[r].mine
                     /\ miss.pc = "miss" /\ miss.mine = task[r].mine
                     /\ variant.pc = "variant" /\ variant.mine = task[r].mine
      BY <1>t DEF TaskRecord
    <2>3. ASSUME NEW e, NEW floor,
                 \/ Serve(r, e, floor)
                 \/ Go(r, [task[r] EXCEPT !.pc = "variant", !.index = e, !.floor = floor])
                 \/ Go(r, [task[r] EXCEPT !.pc = "miss", !.floor = floor])
          PROVE  LeaseInv'
      <3>1. CASE Go(r, Done)
        BY <3>1, <2>1, <1>d, <1>m
      <3>2. CASE Go(r, [task[r] EXCEPT !.pc = "stale", !.entry = e, !.floor = floor])
        <4> DEFINE next == [task[r] EXCEPT !.pc = "stale", !.entry = e, !.floor = floor]
        <4>1. next.pc = "stale" /\ next.mine = task[r].mine
          BY <2>2, SMTT(60)
        <4> HIDE DEF next
        <4> QED
          BY <4>1, <3>2, <2>1, <1>m DEF next
      <3>3. CASE Go(r, [task[r] EXCEPT !.pc = "variant", !.index = e, !.floor = floor])
        <4> DEFINE next == [task[r] EXCEPT !.pc = "variant", !.index = e, !.floor = floor]
        <4>1. next.pc = "variant" /\ next.mine = task[r].mine
          BY <2>2, SMTT(60)
        <4> HIDE DEF next
        <4> QED
          BY <4>1, <3>3, <2>1, <1>m DEF next
      <3>4. CASE Go(r, [task[r] EXCEPT !.pc = "miss", !.floor = floor])
        <4> DEFINE next == [task[r] EXCEPT !.pc = "miss", !.floor = floor]
        <4>1. next.pc = "miss" /\ next.mine = task[r].mine
          BY <2>2
        <4> HIDE DEF next
        <4> QED
          BY <4>1, <3>4, <2>1, <1>m DEF next
      <3> QED
        BY <3>1, <3>2, <3>3, <3>4, <2>3 DEF Serve
    <2>4. CASE Lookup(r)
      BY <2>4, <2>3 DEF Lookup
    <2>5. CASE LookupVariant(r)
      <3>1. Move(r, "miss") => LeaseInv'
        BY <2>1, <1>m, <1>p DEF Move
      <3> QED
        BY <3>1, <2>5, <2>3 DEF LookupVariant
    <2> QED
      BY <2>4, <2>5, <1>1
  <1>2. ASSUME NEW r \in Request, Fetch(r) \/ Revalidate(r) PROVE LeaseInv'
    <2>1. r \notin dropping /\ UNCHANGED <<lease, dropping>> /\ Quiet
      BY <1>2, <1>o, <1>q DEF Fetch, Revalidate
    <2>2. ASSUME NEW x
          PROVE  LET lead == [task[r] EXCEPT !.pc = "lead", !.role = x]
                     follow == [task[r] EXCEPT !.pc = "follow", !.behind = x]
                 IN  /\ lead.pc = "lead" /\ lead.mine = task[r].mine
                     /\ follow.pc = "follow" /\ follow.mine = task[r].mine
      BY <1>t DEF TaskRecord
    <2>3. \/ Go(r, [task[r] EXCEPT !.pc = "lead", !.role = "lead"])
          \/ Go(r, [task[r] EXCEPT !.pc = "lead", !.role = "refresh"])
          \/ Go(r, [task[r] EXCEPT !.pc = "follow", !.behind = flight[NodeOf[r]]])
          \/ Go(r, Done)
      BY <1>2 DEF Fetch, Revalidate, Join
    <2> QED
      BY <2>1, <2>2, <2>3, <1>d, <1>m
  <1>3. ASSUME NEW r \in Request, AcquireLease(r) PROVE LeaseInv'
    <2>1. r \notin dropping /\ UNCHANGED dropping /\ task[r].pc = "lead"
      BY <1>3, <1>o DEF AcquireLease
    <2>2. CASE /\ lease = None /\ lease' = r /\ hist' = hist
               /\ Go(r, [task[r] EXCEPT !.pc = "fetch", !.mine = TRUE])
      <3> DEFINE next == [task[r] EXCEPT !.pc = "fetch", !.mine = TRUE]
      <3>1. next.pc = "fetch" /\ next.mine
        BY <1>t DEF TaskRecord
      <3>2. task'[r] = next /\ \A q \in Request \ {r} : task'[q] = task[q]
        BY <2>2, <1>t DEF Go
      <3> HIDE DEF next
      <3>3. \A q \in Request : task[q].mine => q \in hist.expired
        BY <2>2, FleetAssumption DEF LeaseInv
      <3> QED
        BY <3>1, <3>2, <3>3, <2>1, <2>2, <1>t DEF LeaseInv
    <2>3. CASE Move(r, "fetch") /\ Happens(TRUE) /\ lease' \in {lease, IF SetNX THEN r ELSE lease}
      <3>1. CASE lease' = lease
        BY <3>1, <2>1, <2>3, <1>m, <1>p, <1>q DEF Move
      <3>2. CASE lease = None
        <4>1. \A q \in Request : task[q].mine => q \in hist.expired
          BY <3>2, FleetAssumption DEF LeaseInv
        <4> DEFINE next == [task[r] EXCEPT !.pc = "fetch"]
        <4>2. task'[r] = next /\ \A q \in Request \ {r} : task'[q] = task[q]
          BY <2>3, <1>t DEF Go, Move
        <4>3. next.mine = task[r].mine /\ hist'.expired = hist.expired /\ hist'.disturbed
          BY <2>3, <1>p, <1>q DEF Quiet
        <4> HIDE DEF next
        <4> QED
          BY <4>1, <4>2, <4>3, <2>1, <1>t DEF LeaseInv
      <3> QED
        BY <3>1, <3>2, <2>3 DEF SetNX
    <2>4. CASE UNCHANGED lease /\ Disturbed /\ Move(r, "fetch")
      BY <2>1, <2>4, <1>m, <1>p, <1>q DEF Move
    <2>5. CASE UNCHANGED <<lease, hist>> /\ (Go(r, Done) \/ Move(r, "wait"))
      <3>1. Quiet
        BY <2>5, <1>q
      <3>2. CASE Go(r, Done)
        BY <3>1, <3>2, <2>1, <2>5, <1>d, <1>m
      <3>3. CASE Move(r, "wait")
        BY <3>1, <3>3, <2>1, <2>5, <1>p, <1>m DEF Move
      <3> QED
        BY <3>2, <3>3, <2>5
    <2> QED
      BY <2>2, <2>3, <2>4, <2>5, <1>3 DEF AcquireLease, SetNX
  <1>4. ASSUME NEW r \in Request, Probe(r) \/ WaitEnds(r) PROVE LeaseInv'
    <2>1. r \notin dropping /\ UNCHANGED <<lease, dropping>>
      BY <1>4, <1>o DEF Probe, WaitEnds
    <2>2. \/ Go(r, Done) /\ UNCHANGED hist
          \/ Move(r, "fetch") /\ (Disturbed \/ Happens(TRUE))
      BY <1>4 DEF Probe, WaitEnds
    <2>3. CASE Go(r, Done) /\ UNCHANGED hist
      BY <2>1, <2>3, <1>d, <1>m, <1>q
    <2>4. CASE Move(r, "fetch") /\ (Disturbed \/ Happens(TRUE))
      BY <2>1, <2>4, <1>m, <1>p, <1>q DEF Move
    <2> QED
      BY <2>2, <2>3, <2>4
  <1>5. ASSUME NEW r \in Request, Forward(r) PROVE LeaseInv'
    <2>1. r \notin dropping /\ UNCHANGED lease
      BY <1>5, <1>o DEF Forward
    <2>2. ASSUME NEW e
          PROVE  LET finish == [task[r] EXCEPT !.pc = "finish", !.entry = None, !.mine = FALSE]
                     store1 == [task[r] EXCEPT !.pc = "store", !.entry = e]
                     restore == [task[r] EXCEPT !.pc = "restore", !.entry = e]
                 IN  /\ finish.pc = "finish" /\ finish.mine = FALSE
                     /\ store1.pc = "store" /\ store1.mine = task[r].mine
                     /\ restore.pc = "restore" /\ restore.mine = task[r].mine
      BY <1>t DEF TaskRecord
    <2>3. ASSUME Go(r, [task[r] EXCEPT !.pc = "finish", !.entry = None, !.mine = FALSE]),
                 Release(r), Disturbed
          PROVE  LeaseInv'
      <3>1. dropping' \subseteq dropping \cup {r}
        BY <2>3 DEF Release
      <3> QED
        BY <3>1, <2>1, <2>2, <2>3, <1>q, MoveKeepsLease
    <2>4. ASSUME NEW e, UNCHANGED <<dropping, hist>>,
                 \/ Go(r, [task[r] EXCEPT !.pc = "store", !.entry = e])
                 \/ Go(r, [task[r] EXCEPT !.pc = "restore", !.entry = e])
          PROVE  LeaseInv'
      <3>1. Quiet
        BY <2>4, <1>q
      <3>2. CASE Go(r, [task[r] EXCEPT !.pc = "store", !.entry = e])
        BY <3>1, <3>2, <2>1, <2>2, <2>4, <1>m
      <3>3. CASE Go(r, [task[r] EXCEPT !.pc = "restore", !.entry = e])
        BY <3>1, <3>3, <2>1, <2>2, <2>4, <1>m
      <3> QED
        BY <3>2, <3>3, <2>4
    <2> QED
      BY <2>3, <2>4, <1>5 DEF Forward
  <1>6. ASSUME NEW r \in Request, StoreVariant(r) \/ PublishIndex(r) \/ StoreRefreshed(r)
        PROVE  LeaseInv'
    <2>1. r \notin dropping /\ UNCHANGED <<lease, dropping>>
      BY <1>6, <1>o DEF StoreVariant, PublishIndex, StoreRefreshed
    <2>2. UNCHANGED hist \/ Happens(FALSE)
      BY <1>6 DEF StoreVariant, PublishIndex, StoreRefreshed, Set
    <2>3. Move(r, "finish") \/ Move(r, "publish")
      BY <1>6 DEF StoreVariant, PublishIndex, StoreRefreshed
    <2> QED
      BY <2>1, <2>2, <2>3, <1>m, <1>p, <1>q DEF Move
  <1>7. ASSUME NEW r \in Request, Finish(r) PROVE LeaseInv'
    <2>1. dropping' \subseteq dropping \cup {r} /\ UNCHANGED <<lease, hist>> /\ Go(r, Done)
      BY <1>7 DEF Finish, Release
    <2> QED
      BY <2>1, <1>d, <1>q, MoveKeepsLease
  <1>8. ASSUME NEW r \in Request, Follow(r) \/ ClientLeaves(r) PROVE LeaseInv'
    <2>1. r \notin dropping /\ UNCHANGED <<lease, dropping>>
      BY <1>8, <1>o DEF Follow, ClientLeaves
    <2>2. LET next == [task[r] EXCEPT !.pc = "fetch", !.role = "alone"]
          IN  next.pc = "fetch" /\ next.mine = task[r].mine
      BY <1>t DEF TaskRecord
    <2>3. \/ (Go(r, Done) \/ Go(r, [Done EXCEPT !.pc = "lost"])) /\ UNCHANGED hist
          \/ Go(r, [task[r] EXCEPT !.pc = "fetch", !.role = "alone"]) /\ Disturbed
      BY <1>8 DEF Follow, ClientLeaves
    <2> QED
      BY <2>1, <2>2, <2>3, <1>d, <1>m, <1>q
  <1>9. ASSUME NEW r \in Request, ReleaseLease(r) PROVE LeaseInv'
    <2>1. ~task[r].mine /\ UNCHANGED task /\ dropping' \subseteq dropping /\ Quiet
      BY <1>9, <1>q DEF ReleaseLease, LeaseInv
    <2>2. lease' = lease \/ lease = r
      BY <1>9 DEF ReleaseLease
    <2> QED
      BY <2>1, <2>2 DEF LeaseInv, Quiet
  <1>10. CASE LeaseExpires
    <2>1. hist'.expired = hist.expired \cup {lease} /\ hist'.disturbed
      BY <1>10 DEF LeaseExpires, TypeOK
    <2> QED
      BY <2>1, <1>10 DEF LeaseExpires, LeaseInv
  <1>11. ASSUME ContentChanges \/ StartPurge \/ UNCHANGED vars PROVE LeaseInv'
    BY <1>11, <1>u, <1>q DEF ContentChanges, StartPurge, vars
  <1>12. CASE PurgeBatch
    <2>1. Quiet
      BY <1>12 DEF PurgeBatch, TypeOK, Quiet
    <2> QED
      BY <2>1, <1>12, <1>u DEF PurgeBatch
  <1>13. ASSUME NEW k \in Key, EntryAges(k) PROVE LeaseInv'
    BY <1>13, <1>u, <1>q DEF EntryAges
  <1>14. ASSUME NEW n \in Node, CooldownPasses(n) PROVE LeaseInv'
    BY <1>14, <1>u, <1>q DEF CooldownPasses
  <1>15. ASSUME NEW n \in Node, Crash(n) PROVE LeaseInv'
    <2>1. Quiet /\ hist'.disturbed /\ UNCHANGED lease /\ dropping' \subseteq dropping
      BY <1>15, <1>q DEF Crash
    <2>2. \A q \in Request : task'[q] = task[q] \/ (task'[q].pc = "lost" /\ ~task'[q].mine)
      BY <1>15, <1>d DEF Crash
    <2> QED
      BY <2>1, <2>2, <1>t DEF LeaseInv, Quiet
  <1> QED
    BY <1>1, <1>2, <1>3, <1>4, <1>5, <1>6, <1>7, <1>8, <1>9, <1>10, <1>11, <1>12,
       <1>13, <1>14, <1>15 DEF Next, Step

----------------------------------------------------------------------------
(* The purge.                                                              *)

\* Events and disturbances leave the note that a purge was overtaken alone.
LEMMA NotOvertakenBy ==
    ASSUME TypeOK
    PROVE  /\ \A b \in BOOLEAN : Happens(b) => hist'.overtaken = hist.overtaken
           /\ Disturbed => hist'.overtaken = hist.overtaken
           /\ UNCHANGED hist => hist'.overtaken = hist.overtaken
  <1>1. hist \in [events : 0..MaxEvents, expired : SUBSET Request,
                  disturbed : BOOLEAN, overtaken : BOOLEAN]
    BY DEF TypeOK
  <1> QED
    BY <1>1 DEF Happens, Disturbed

\* Only the version that was there when the purge began is served after it.
LEMMA CurrentIsEnough ==
    ASSUME NEW e \in Entry, NEW floor \in 0..MaxVersion,
           floor > 0 => e.version = MaxVersion
    PROVE  e.version >= floor
  BY BoundsAssumption, SMTT(60) DEF Entry

\* What Send records when the response is no older than the purge.
LEMMA SendFresh ==
    ASSUME TypeOK, NEW r \in Request, NEW e, NEW own, NEW floor,
           e.version >= floor, Send(r, e, own, floor)
    PROVE  \A q \in Request : answer'[q] = answer[q] \/ answer'[q].sincePurge
  <1> DEFINE sent == [rightVariant |-> e.varyOn = None \/ e.value = task[r].value,
                      sincePurge |-> e.version >= floor,
                      asWished |-> own \/ task[r].allowsStored]
  <1>1. sent.sincePurge
    OBVIOUS
  <1>2. DOMAIN answer = Request
    BY DEF TypeOK
  <1> HIDE DEF sent
  <1>3. answer' = [answer EXCEPT ![r] = IF answer[r] # None THEN answer[r] ELSE sent]
    BY DEF Send, sent
  <1> QED
    BY <1>1, <1>2, <1>3

\* A task's step, by what it may bring about: a response stored under a key, one
\* in its hands, one it shares with its followers, one it sends.
LEMMA StepKeepsPurge ==
    ASSUME TypeOK, PurgeInv, NEW r \in Request, NEW next, Go(r, next),
           UNCHANGED <<origin, purge>>, hist'.overtaken = hist.overtaken,
           next.floor > 0 => purge.state = "done",
           PurgeClean =>
             /\ \A k \in Key : \/ store'[k] = store[k]
                               \/ purge.state # "idle" /\ k \notin purge.left
                                    => Current(store'[k])
             /\ next.pc \in InHand /\ purge.state # "idle" /\ purge.left # Key
                  => Current(next.entry)
             /\ next.floor > 0 /\ next.pc = "stale" => Current(next.entry)
             /\ next.pc = "follow" => call'[next.behind].state # "settled"
             /\ \A q \in Request : call'[q].state = "settled" =>
                   call'[q] = call[q] \/ (purge.state = "done" => Current(call'[q].entry))
             /\ \A q \in Request : answer'[q] = answer[q] \/ answer'[q].sincePurge,
           FlightInv'
    PROVE  PurgeInv'
  <1>1. task'[r] = next /\ \A q \in Request \ {r} : task'[q] = task[q]
    BY DEF Go, TypeOK
  <1>2. PurgeStarted'
    BY <1>1 DEF PurgeInv, PurgeStarted
  <1>3. ASSUME ~hist'.overtaken PROVE PurgeClean'
    <2>0. PurgeClean /\ PurgeStarted /\ PurgeStarted'
      BY <1>2, <1>3 DEF PurgeInv
    <2>1. purge.state # "idle" => \A k \in Key \ purge.left : Current(store[k])'
      BY <2>0 DEF PurgeClean, Current
    <2>2. purge.state # "idle" /\ purge.left # Key =>
             \A q \in Request : task'[q].pc \in InHand => Current(task'[q].entry)
      BY <2>0, <1>1 DEF PurgeClean
    <2>3. ASSUME NEW q \in Request, task'[q].floor > 0, task'[q].pc = "stale"
          PROVE  Current(task'[q].entry)
      BY <2>0, <2>3, <1>1 DEF PurgeClean
    <2>4. ASSUME NEW q \in Request, task'[q].floor > 0, task'[q].pc = "follow",
                 call'[task'[q].behind].state = "settled"
          PROVE  Current(call'[task'[q].behind].entry)
      <3>1. q # r /\ task'[q] = task[q]
        BY <2>0, <2>4, <1>1
      <3>2. task[q].behind \in Request /\ purge.state = "done"
        BY <2>0, <2>4, <3>1 DEF FlightInv, PurgeStarted
      <3> QED
        BY <2>0, <2>4, <3>1, <3>2 DEF PurgeClean
    <2>5. \A q \in Request : answer'[q] # None => answer'[q].sincePurge
      BY <2>0 DEF PurgeClean
    <2> QED
      BY <2>1, <2>2, <2>3, <2>4, <2>5 DEF PurgeClean, Current
  <1> QED
    BY <1>2, <1>3 DEF PurgeInv

\* Every step keeps what was fetched before a purge out of what may be served after it.
LEMMA PurgeKept ==
    TypeOK /\ TasksFit /\ FlightInv /\ FlightInv' /\ PurgeInv /\ [Next]_vars => PurgeInv'
  <1> SUFFICES ASSUME TypeOK, TasksFit, FlightInv, FlightInv', PurgeInv, [Next]_vars
               PROVE  PurgeInv'
    OBVIOUS
  <1>t. /\ task \in [Request -> TaskRecord] /\ store \in [Key -> Known]
        /\ origin.version \in 0..MaxVersion /\ origin.varyOn \in Shape
        /\ purge.version \in 0..MaxVersion /\ purge.left \subseteq Key
        /\ \A r \in Request : call[r].entry \in Known
        /\ Primary \in Key
    BY DEF TypeOK, TaskRecord, Known, Key
  <1>n. \A r \in Request : TaskFits(task[r])
    BY DEF TasksFit
  <1>o. /\ \A b \in BOOLEAN : Happens(b) => hist'.overtaken = hist.overtaken
        /\ Disturbed => hist'.overtaken = hist.overtaken
        /\ UNCHANGED hist => hist'.overtaken = hist.overtaken
    BY NotOvertakenBy
  <1>k. /\ PurgeStarted
        /\ \A r \in Request : task[r].floor > 0 => purge.state = "done"
        /\ purge.state = "done" => purge.left = {} /\ purge.left # Key
    BY <1>t DEF PurgeInv, PurgeStarted
  <1>c. ASSUME PurgeClean, purge.state = "done", NEW k \in Key PROVE Current(store[k])
    BY <1>c, <1>k DEF PurgeClean
  <1>d. Done.pc = "done" /\ Done.floor = 0 /\ [Done EXCEPT !.pc = "lost"].pc = "lost"
        /\ [Done EXCEPT !.pc = "lost"].floor = 0 /\ ~(0 > 0)
    BY SMTT(60) DEF Done
  <1>p. ASSUME NEW r \in Request, NEW pc
        PROVE  LET next == [task[r] EXCEPT !.pc = pc]
               IN  next.pc = pc /\ next.floor = task[r].floor /\ next.entry = task[r].entry
    BY <1>t DEF TaskRecord
  \* The new task neither holds nor awaits anything, and nothing else matters changes.
  <1>e. ASSUME NEW r \in Request, NEW next, Go(r, next), UNCHANGED <<origin, purge, store, call>>,
               hist'.overtaken = hist.overtaken,
               next.pc \notin InHand \cup {"stale", "follow"},
               next.floor > 0 => purge.state = "done",
               PurgeClean => \A q \in Request : answer'[q] = answer[q] \/ answer'[q].sincePurge
        PROVE  PurgeInv'
    BY <1>e, StepKeepsPurge
  <1>u. ASSUME UNCHANGED <<origin, purge, store, call, task, answer>>,
               hist'.overtaken = hist.overtaken
        PROVE  PurgeInv'
    BY <1>u DEF PurgeInv, PurgeStarted, PurgeClean, Current
  \* An entry that answers and is current is no older than what the request asks.
  <1>a. ASSUME NEW r \in Request, NEW e \in Known, EntryAnswers(e, r),
               NEW floor \in 0..MaxVersion, floor > 0 => Current(e), NEW own,
               Send(r, e, own, floor)
        PROVE  \A q \in Request : answer'[q] = answer[q] \/ answer'[q].sincePurge
    <2>1. e \in Entry /\ (floor > 0 => e.version = MaxVersion)
      BY <1>a DEF EntryAnswers, Known, Current
    <2>2. e.version >= floor
      BY <2>1, CurrentIsEnough
    <2> QED
      BY <2>2, <1>a, SendFresh
  <1>s. ASSUME NEW r \in Request, NEW k \in Key, NEW floor \in 0..MaxVersion,
               floor > 0 => purge.state = "done",
               Serve(r, store[k], floor), UNCHANGED <<origin, purge, store, call>>,
               hist'.overtaken = hist.overtaken
        PROVE  PurgeInv'
    <2>0. store[k] \in Known
      BY <1>t
    <2>1. CASE EntryAnswers(store[k], r) /\ store[k].fresh
      <3>1. Go(r, Done) /\ Send(r, store[k], FALSE, floor)
        BY <2>1, <1>s DEF Serve
      <3>2. PurgeClean => (floor > 0 => Current(store[k]))
        BY <1>c, <1>s
      <3>3. PurgeClean => \A q \in Request : answer'[q] = answer[q] \/ answer'[q].sincePurge
        BY <3>1, <3>2, <2>0, <2>1, <1>a
      <3> QED
        BY <3>1, <3>3, <1>d, <1>e, <1>s DEF InHand
    <2>2. CASE EntryAnswers(store[k], r) /\ ~store[k].fresh
      <3> DEFINE next == [task[r] EXCEPT !.pc = "stale", !.entry = store[k], !.floor = floor]
      <3>1. next.pc = "stale" /\ next.entry = store[k] /\ next.floor = floor
        BY <1>t DEF TaskRecord
      <3>2. Go(r, next) /\ UNCHANGED answer
        BY <2>2, <1>s DEF Serve
      <3>3. PurgeClean /\ floor > 0 => Current(store[k])
        BY <1>c, <1>s
      <3> HIDE DEF next
      <3> QED
        BY <3>1, <3>2, <3>3, <1>s, StepKeepsPurge DEF InHand
    <2>3. CASE ~EntryAnswers(store[k], r)
      <3> DEFINE next == [task[r] EXCEPT !.pc = "miss", !.floor = floor]
      <3>1. next.pc = "miss" /\ next.floor = floor
        BY <1>t DEF TaskRecord
      <3>2. Go(r, next) /\ UNCHANGED answer
        BY <2>3, <1>s DEF Serve
      <3> HIDE DEF next
      <3> QED
        BY <3>1, <3>2, <1>s, <1>e DEF InHand
    <2> QED
      BY <2>1, <2>2, <2>3
  <1>1. ASSUME NEW r \in Request, Lookup(r) PROVE PurgeInv'
    <2> DEFINE floor == IF purge.state = "done" THEN purge.version ELSE 0
    <2>1. floor \in 0..MaxVersion /\ (floor > 0 => purge.state = "done")
      BY <1>t, BoundsAssumption, SMTT(60)
    <2>2. UNCHANGED <<origin, purge, store, call>> /\ hist'.overtaken = hist.overtaken
      BY <1>1, <1>o DEF Lookup
    <2> HIDE DEF floor
    <2>3. ASSUME Serve(r, Get(Primary), floor) PROVE PurgeInv'
      BY <2>1, <2>2, <2>3, <1>s, <1>t DEF Get
    <2>4. ASSUME NEW e, UNCHANGED answer,
                 Go(r, [task[r] EXCEPT !.pc = "variant", !.index = e, !.floor = floor])
          PROVE  PurgeInv'
      <3> DEFINE next == [task[r] EXCEPT !.pc = "variant", !.index = e, !.floor = floor]
      <3>1. next.pc = "variant" /\ next.floor = floor
        BY <1>t DEF TaskRecord
      <3>2. Go(r, next)
        BY <2>4
      <3> HIDE DEF next
      <3> QED
        BY <3>1, <3>2, <2>1, <2>2, <2>4, <1>e DEF InHand
    <2>5. ASSUME UNCHANGED answer, Go(r, [task[r] EXCEPT !.pc = "miss", !.floor = floor])
          PROVE  PurgeInv'
      <3> DEFINE next == [task[r] EXCEPT !.pc = "miss", !.floor = floor]
      <3>1. next.pc = "miss" /\ next.floor = floor
        BY <1>t DEF TaskRecord
      <3>2. Go(r, next)
        BY <2>5
      <3> HIDE DEF next
      <3> QED
        BY <3>1, <3>2, <2>1, <2>2, <2>5, <1>e DEF InHand
    <2> QED
      BY <2>3, <2>4, <2>5, <1>1 DEF Lookup, floor
  <1>m. ASSUME NEW r \in Request, NEW pc, Move(r, pc), UNCHANGED <<origin, purge, store, call, answer>>,
               hist'.overtaken = hist.overtaken, pc \notin InHand \cup {"stale", "follow"}
        PROVE  PurgeInv'
    <2> DEFINE next == [task[r] EXCEPT !.pc = pc]
    <2>1. Go(r, next) /\ next.pc = pc /\ next.floor = task[r].floor
      BY <1>m, <1>p DEF Move
    <2> HIDE DEF next
    <2> QED
      BY <2>1, <1>e, <1>k, <1>m
  <1>2. ASSUME NEW r \in Request, LookupVariant(r) PROVE PurgeInv'
    <2> DEFINE key == VariantKey(task[r].index.varyOn, r)
    <2>1. task[r].pc = "variant" /\ task[r].index \in Entry /\ task[r].value \in Value
      BY <1>2, <1>n DEF LookupVariant, TaskFits
    <2>2. key \in Key
      BY <2>1 DEF VariantKey, Key, Entry, Shape
    <2>3. task[r].floor \in 0..MaxVersion
      BY <1>t DEF TaskRecord
    <2>4. UNCHANGED <<origin, purge, store, call>> /\ hist'.overtaken = hist.overtaken
      BY <1>2, <1>o DEF LookupVariant
    <2>5. CASE Serve(r, store[key], task[r].floor)
      BY <2>2, <2>3, <2>4, <2>5, <1>k, <1>s
    <2>6. CASE Move(r, "miss") /\ UNCHANGED answer
      BY <2>4, <2>6, <1>m DEF InHand
    <2> QED
      BY <2>5, <2>6, <1>2 DEF LookupVariant, Get
  <1>w. ASSUME NEW r \in Request, NEW e, Settle(r, e)
        PROVE  \A q \in Request : call'[q].state = "settled" =>
                   call'[q] = call[q] \/ call'[q].entry = e
    BY <1>w, SMTT(60) DEF Settle, NoCall, TypeOK
  \* join: a new leader's call is open, and a follower joins an open one.
  <1>j. ASSUME NEW r \in Request, NEW leads, NEW follows, Join(r, leads, follows),
               UNCHANGED <<origin, purge, store>>, hist'.overtaken = hist.overtaken,
               leads.pc = "lead", follows.pc \in {"follow", "done"},
               leads.floor > 0 \/ follows.floor > 0 => purge.state = "done",
               follows.pc = "follow" => follows.behind = flight[NodeOf[r]],
               PurgeClean => \A q \in Request : answer'[q] = answer[q] \/ answer'[q].sincePurge
        PROVE  PurgeInv'
    <2>1. CASE flight[NodeOf[r]] = None
      <3>1. Go(r, leads) /\ \A q \in Request : call'[q].state = "settled" => call'[q] = call[q]
        BY <2>1, <1>j, SMTT(60) DEF Join, TypeOK
      <3> QED
        BY <3>1, <1>j, StepKeepsPurge DEF InHand
    <2>2. CASE flight[NodeOf[r]] # None
      <3>1. Go(r, follows) /\ call' = call
        BY <2>2, <1>j DEF Join
      <3>2. call[flight[NodeOf[r]]].state = "open"
        BY <2>2, FleetAssumption DEF FlightInv
      <3> QED
        BY <3>1, <3>2, <1>j, StepKeepsPurge DEF InHand
    <2> QED
      BY <2>1, <2>2
  <1>3. ASSUME NEW r \in Request, Fetch(r) PROVE PurgeInv'
    <2> DEFINE leads == [task[r] EXCEPT !.pc = "lead", !.role = "lead"]
               follows == [task[r] EXCEPT !.pc = "follow", !.behind = flight[NodeOf[r]]]
    <2>1. /\ leads.pc = "lead" /\ follows.pc = "follow" /\ follows.behind = flight[NodeOf[r]]
          /\ leads.floor = task[r].floor /\ follows.floor = task[r].floor
      BY <1>t DEF TaskRecord
    <2>2. /\ Join(r, leads, follows) /\ UNCHANGED <<origin, purge, store, answer>>
          /\ hist'.overtaken = hist.overtaken
      BY <1>3, <1>o DEF Fetch
    <2> HIDE DEF leads, follows
    <2> QED
      BY <2>1, <2>2, <1>j, <1>k
  <1>4. ASSUME NEW r \in Request, Revalidate(r) PROVE PurgeInv'
    <2> DEFINE leads == [task[r] EXCEPT !.pc = "lead", !.role = "refresh"]
    <2>1. leads.pc = "lead" /\ leads.floor = task[r].floor
      BY <1>t DEF TaskRecord
    <2>2. /\ Join(r, leads, Done) /\ UNCHANGED <<origin, purge, store>>
          /\ hist'.overtaken = hist.overtaken /\ task[r].pc = "stale"
          /\ Send(r, task[r].entry, FALSE, task[r].floor)
      BY <1>4, <1>o DEF Revalidate
    <2>3. /\ task[r].entry \in Entry \ {None} /\ ~task[r].entry.index
          /\ task[r].floor \in 0..MaxVersion
      BY <2>2, <1>n DEF TaskFits, TaskRecord
    <2>4. ASSUME PurgeClean
          PROVE  \A q \in Request : answer'[q] = answer[q] \/ answer'[q].sincePurge
      <3>1. task[r].floor > 0 => task[r].entry.version = MaxVersion
        BY <2>2, <2>3, <2>4 DEF PurgeClean, Current
      <3>2. task[r].entry.version >= task[r].floor
        BY <3>1, <2>3, CurrentIsEnough
      <3> QED
        BY <3>2, <2>2, SendFresh
    <2> HIDE DEF leads
    <2> QED
      BY <2>1, <2>2, <2>4, <1>d, <1>j, <1>k
  <1>5. ASSUME NEW r \in Request, AcquireLease(r) PROVE PurgeInv'
    <2>1. UNCHANGED <<origin, purge, store, answer>> /\ hist'.overtaken = hist.overtaken
      BY <1>5, <1>o DEF AcquireLease
    <2>2. CASE (Move(r, "fetch") \/ Move(r, "wait")) /\ UNCHANGED call
      BY <2>1, <2>2, <1>m DEF InHand
    <2>3. CASE Go(r, [task[r] EXCEPT !.pc = "fetch", !.mine = TRUE]) /\ UNCHANGED call
      <3> DEFINE next == [task[r] EXCEPT !.pc = "fetch", !.mine = TRUE]
      <3>1. Go(r, next) /\ next.pc = "fetch" /\ next.floor = task[r].floor
        BY <2>3, <1>t DEF TaskRecord
      <3> HIDE DEF next
      <3> QED
        BY <3>1, <2>1, <2>3, <1>e, <1>k DEF InHand
    <2>4. CASE Go(r, Done) /\ Settle(r, None)
      <3>1. \A q \in Request : call'[q].state = "settled" =>
                call'[q] = call[q] \/ Current(call'[q].entry)
        BY <2>4, <1>w DEF Current
      <3> QED
        BY <3>1, <2>1, <2>4, <1>d, StepKeepsPurge DEF InHand
    <2> QED
      BY <2>2, <2>3, <2>4, <1>5 DEF AcquireLease
  <1>6. ASSUME NEW r \in Request, Probe(r) \/ WaitEnds(r) PROVE PurgeInv'
    <2> DEFINE e == ProbeLease.entry
    <2>1. UNCHANGED <<origin, purge, store>> /\ hist'.overtaken = hist.overtaken
      BY <1>6, <1>o DEF Probe, WaitEnds
    <2>2. e \in Known /\ e = store[Primary] /\ task[r].floor \in 0..MaxVersion
      BY <1>t DEF ProbeLease, TaskRecord
    <2>3. CASE Move(r, "fetch") /\ UNCHANGED <<answer, call>>
      BY <2>1, <2>3, <1>m DEF InHand
    <2>4. CASE /\ EntryAnswers(e, r) /\ Go(r, Done)
               /\ Send(r, e, FALSE, task[r].floor) /\ Settle(r, e)
      <3> HIDE DEF e
      <3>1. PurgeClean /\ purge.state = "done" => Current(e)
        BY <2>2, <1>c, <1>t
      <3>2. \A q \in Request : call'[q].state = "settled" =>
                call'[q] = call[q] \/ call'[q].entry = e
        BY <2>4, <1>w
      <3>3. PurgeClean => \A q \in Request : answer'[q] = answer[q] \/ answer'[q].sincePurge
        BY <3>1, <2>2, <2>4, <1>a, <1>k
      <3> QED
        BY <3>1, <3>2, <3>3, <2>1, <2>4, <1>d, StepKeepsPurge DEF InHand
    <2> QED
      BY <2>3, <2>4, <1>6 DEF Probe, WaitEnds
  <1>7. ASSUME NEW r \in Request, Forward(r) PROVE PurgeInv'
    <2> DEFINE fetched == Response(origin.version, origin.varyOn, task[r].value)
               again == [task[r].entry EXCEPT !.fresh = TRUE]
               finish == [task[r] EXCEPT !.pc = "finish", !.entry = None, !.mine = FALSE]
               keep == [task[r] EXCEPT !.pc = "store", !.entry = fetched]
               restore == [task[r] EXCEPT !.pc = "restore", !.entry = again]
    <2>1. /\ UNCHANGED <<origin, purge, store>> /\ hist'.overtaken = hist.overtaken
          /\ task[r].pc = "fetch" /\ task[r].value \in Value
          /\ task[r].floor \in 0..MaxVersion
      BY <1>7, <1>o, <1>n DEF Forward, TaskFits, TaskRecord
    <2>2. fetched \in Entry /\ fetched.version = origin.version /\ ~fetched.index
      BY <2>1, <1>t, ResponseFits DEF Response
    <2>3. purge.state # "idle" => Current(fetched)
      BY <2>2, <1>k DEF PurgeStarted, Current
    <2>4. Send(r, fetched, TRUE, task[r].floor) =>
             \A q \in Request : answer'[q] = answer[q] \/ answer'[q].sincePurge
      <3>1. task[r].floor > 0 => fetched.version = MaxVersion
        BY <2>2, <1>k DEF PurgeStarted
      <3>2. fetched.version >= task[r].floor
        BY <2>1, <2>2, <3>1, CurrentIsEnough
      <3> QED
        BY <3>2, SendFresh
    <2>5. /\ finish.pc = "finish" /\ finish.floor = task[r].floor /\ finish.entry = None
          /\ keep.pc = "store" /\ keep.floor = task[r].floor /\ keep.entry = fetched
          /\ restore.pc = "restore" /\ restore.floor = task[r].floor /\ restore.entry = again
      BY <1>t DEF TaskRecord
    <2>6. ASSUME Go(r, finish), Send(r, fetched, TRUE, task[r].floor), Settle(r, None)
          PROVE  PurgeInv'
      <3>1. \A q \in Request : call'[q].state = "settled" =>
                call'[q] = call[q] \/ Current(call'[q].entry)
        BY <2>6, <1>w DEF Current
      <3>2. Current(finish.entry)
        BY <2>5 DEF Current
      <3> HIDE DEF finish, fetched
      <3> QED
        BY <3>1, <3>2, <2>1, <2>4, <2>5, <2>6, <1>k, StepKeepsPurge
    <2>7. ASSUME Go(r, keep), Send(r, fetched, TRUE, task[r].floor), UNCHANGED call
          PROVE  PurgeInv'
      <3> HIDE DEF keep, fetched
      <3> QED
        BY <2>1, <2>3, <2>4, <2>5, <2>7, <1>k, StepKeepsPurge
    <2>8. ASSUME Go(r, restore), UNCHANGED <<answer, call>>, task[r].role = "refresh",
                 task[r].entry.version = origin.version
          PROVE  PurgeInv'
      <3>1. again.version = origin.version
        BY <2>1, <2>8, <1>n DEF TaskFits, Entry
      <3>2. purge.state # "idle" => Current(again)
        BY <3>1, <1>k DEF PurgeStarted, Current
      <3> HIDE DEF restore, again
      <3> QED
        BY <3>2, <2>1, <2>5, <2>8, <1>k, StepKeepsPurge
    <2> QED
      BY <2>6, <2>7, <2>8, <1>7 DEF Forward
  \* Set: nothing is stored under a key the purge has emptied but what is current.
  <1>x. ASSUME NEW r \in Request, NEW pc \in {"publish", "finish"}, Move(r, pc),
               task[r].pc \in InHand, NEW key, NEW e, Set(key, e),
               e = task[r].entry \/ Current(e),
               UNCHANGED <<origin, purge, call, answer>>
        PROVE  PurgeInv'
    <2> DEFINE next == [task[r] EXCEPT !.pc = pc]
    <2>1. Go(r, next) /\ next.pc = pc /\ next.floor = task[r].floor /\ next.entry = task[r].entry
      BY <1>x, <1>p DEF Move
    <2>2. hist'.overtaken = hist.overtaken
      BY <1>x, <1>o DEF Set
    <2>3. \A k \in Key : store'[k] = store[k] \/ (k = key /\ store'[k] = e)
      BY <1>x, <1>t DEF Set
    <2>4. PurgeClean /\ purge.state # "idle" /\ purge.left # Key => Current(task[r].entry)
      BY <1>x DEF PurgeClean
    <2>5. PurgeClean => \A k \in Key : \/ store'[k] = store[k]
                                       \/ purge.state # "idle" /\ k \notin purge.left
                                             => Current(store'[k])
      BY <2>3, <2>4, <1>x
    <2> HIDE DEF next
    <2> QED
      BY <2>1, <2>2, <2>4, <2>5, <1>k, <1>x, StepKeepsPurge
  <1>8. ASSUME NEW r \in Request, StoreVariant(r) PROVE PurgeInv'
    <2>1. UNCHANGED <<origin, purge, call, answer>> /\ task[r].pc \in InHand
      BY <1>8 DEF StoreVariant, InHand
    <2>2. CASE Move(r, "finish") /\ UNCHANGED <<store, hist>>
      <3> DEFINE next == [task[r] EXCEPT !.pc = "finish"]
      <3>1. /\ Go(r, next) /\ next.pc = "finish" /\ next.floor = task[r].floor
            /\ next.entry = task[r].entry
        BY <2>2, <1>p DEF Move
      <3>2. PurgeClean /\ purge.state # "idle" /\ purge.left # Key => Current(task[r].entry)
        BY <2>1 DEF PurgeClean
      <3> HIDE DEF next
      <3> QED
        BY <3>1, <3>2, <2>1, <2>2, <1>k, <1>o, StepKeepsPurge
    <2>3. CASE /\ Set(StorageKey(task[r].entry), task[r].entry)
               /\ Move(r, "publish") \/ Move(r, "finish")
      BY <2>1, <2>3, <1>x
    <2> QED
      BY <2>2, <2>3, <1>8 DEF StoreVariant
  <1>9. ASSUME NEW r \in Request, PublishIndex(r) PROVE PurgeInv'
    <2>1. /\ UNCHANGED <<origin, purge, call, answer>> /\ task[r].pc \in InHand
          /\ Move(r, "finish")
      BY <1>9 DEF PublishIndex, InHand
    <2>2. PICK index \in AdmitVariant(task[r].index, task[r].entry) : Set(Primary, index)
      BY <1>9 DEF PublishIndex
    <2>3. Current(index)
      <3>1. PICK held : index = VariantIndex(task[r].entry.varyOn, held)
        BY <2>2 DEF AdmitVariant
      <3> QED
        BY <3>1 DEF VariantIndex, Current
    <2> QED
      BY <2>1, <2>2, <2>3, <1>x
  <1>10. ASSUME NEW r \in Request, StoreRefreshed(r) PROVE PurgeInv'
    <2>1. /\ UNCHANGED <<origin, purge, call, answer>> /\ task[r].pc \in InHand
          /\ Move(r, "finish") /\ Set(StorageKey(task[r].entry), task[r].entry)
      BY <1>10 DEF StoreRefreshed, InHand
    <2> QED
      BY <2>1, <1>x
  <1>11. ASSUME NEW r \in Request, Finish(r) PROVE PurgeInv'
    <2>1. /\ UNCHANGED <<origin, purge, store, answer>> /\ hist'.overtaken = hist.overtaken
          /\ task[r].pc \in InHand /\ Go(r, Done)
      BY <1>11, <1>o DEF Finish, InHand
    <2>2. \A q \in Request : call'[q].state = "settled" =>
              call'[q] = call[q] \/ call'[q].entry = task[r].entry
      BY <1>11, <1>w DEF Finish
    <2>3. PurgeClean /\ purge.state = "done" => Current(task[r].entry)
      BY <2>1, <1>k DEF PurgeClean
    <2> QED
      BY <2>1, <2>2, <2>3, <1>d, StepKeepsPurge DEF InHand
  <1>l. ASSUME NEW r \in Request, NEW b, Leave(r, b)
        PROVE  \A q \in Request : call'[q].state = "settled" => call'[q] = call[q]
    BY <1>l DEF Leave, NoCall, TypeOK
  <1>12. ASSUME NEW r \in Request, Follow(r) PROVE PurgeInv'
    <2> DEFINE shared == call[task[r].behind].entry
               next == [task[r] EXCEPT !.pc = "fetch", !.role = "alone"]
    <2>1. /\ UNCHANGED <<origin, purge, store>> /\ hist'.overtaken = hist.overtaken
          /\ task[r].pc = "follow" /\ call[task[r].behind].state = "settled"
          /\ task[r].floor \in 0..MaxVersion /\ task[r].behind \in Request
      BY <1>12, <1>o, <1>t DEF Follow, FlightInv, TaskRecord
    <2>2. \A q \in Request : call'[q].state = "settled" => call'[q] = call[q]
      BY <1>12, <1>l DEF Follow
    <2>3. next.pc = "fetch" /\ next.floor = task[r].floor
      BY <1>t DEF TaskRecord
    <2>4. CASE EntryAnswers(shared, r)
      <3>1. Go(r, Done) /\ Send(r, shared, FALSE, task[r].floor)
        BY <2>4, <1>12 DEF Follow
      <3>2. PurgeClean /\ task[r].floor > 0 => Current(shared)
        BY <2>1 DEF PurgeClean
      <3>3. PurgeClean => \A q \in Request : answer'[q] = answer[q] \/ answer'[q].sincePurge
        BY <3>1, <3>2, <2>1, <2>4, <1>a, <1>t
      <3> QED
        BY <3>1, <3>3, <2>1, <2>2, <1>d, StepKeepsPurge DEF InHand
    <2>5. CASE ~EntryAnswers(shared, r)
      <3>1. Go(r, next) /\ UNCHANGED answer
        BY <2>5, <1>12 DEF Follow
      <3> HIDE DEF next
      <3> QED
        BY <3>1, <2>1, <2>2, <2>3, <1>k, StepKeepsPurge DEF InHand
    <2> QED
      BY <2>4, <2>5
  <1>13. ASSUME NEW r \in Request, ClientLeaves(r) PROVE PurgeInv'
    <2>1. /\ UNCHANGED <<origin, purge, store, answer>> /\ hist'.overtaken = hist.overtaken
          /\ Go(r, [Done EXCEPT !.pc = "lost"])
      BY <1>13, <1>o DEF ClientLeaves
    <2>2. \A q \in Request : call'[q].state = "settled" => call'[q] = call[q]
      BY <1>13, <1>l DEF ClientLeaves
    <2> QED
      BY <2>1, <2>2, <1>d, StepKeepsPurge DEF InHand
  <1>14. ASSUME NEW r \in Request, ReleaseLease(r) PROVE PurgeInv'
    <2>1. UNCHANGED <<origin, purge, store, call, task, answer>>
      BY <1>14 DEF ReleaseLease
    <2>2. hist'.overtaken = hist.overtaken
      BY <1>14, <1>o DEF ReleaseLease
    <2> QED
      BY <2>1, <2>2, <1>u
  <1>15. CASE LeaseExpires
    <2>1. hist'.overtaken = hist.overtaken
      BY <1>15 DEF LeaseExpires, TypeOK
    <2>2. UNCHANGED <<origin, purge, store, call, task, answer>>
      BY <1>15 DEF LeaseExpires
    <2> QED
      BY <2>1, <2>2, <1>u
  <1>16. CASE ContentChanges
    <2>0. origin.version # MaxVersion
      BY <1>16, <1>t, BoundsAssumption, SMTT(60) DEF ContentChanges
    <2>1. purge.state = "idle" /\ hist'.overtaken = hist.overtaken
      BY <2>0, <1>16, <1>k, <1>o DEF ContentChanges, PurgeStarted
    <2> QED
      BY <2>1, <1>16 DEF ContentChanges, PurgeInv, PurgeStarted, PurgeClean, Current
  <1>17. CASE StartPurge
    <2>1. /\ purge.state = "idle" /\ purge'.version = MaxVersion /\ origin'.version = MaxVersion
          /\ purge'.left = Key /\ purge'.state = "running"
          /\ UNCHANGED <<store, call, task, answer, hist>>
      BY <1>17 DEF StartPurge, PurgeKeys
    <2>2. \A r \in Request : ~(task[r].floor > 0)
      BY <2>1, <1>k
    <2> QED
      BY <2>1, <2>2 DEF PurgeInv, PurgeStarted, PurgeClean
  <1>18. CASE PurgeBatch
    <2>0. PICK batch \in {{Primary}, Key \ {Primary}} \cap SUBSET purge.left :
            /\ store' = [k \in Key |-> IF k \in batch THEN None ELSE store[k]]
            /\ purge' = [purge EXCEPT !.left = @ \ batch,
                                     !.state = IF purge.left = batch THEN "done" ELSE @]
      BY <1>18 DEF PurgeBatch
    <2>1. /\ purge'.left = purge.left \ batch /\ purge'.version = purge.version
          /\ purge'.state = IF purge.left = batch THEN "done" ELSE "running"
          /\ purge.state = "running"
      BY <2>0, <1>18 DEF PurgeBatch, TypeOK
    <2>2. hist'.overtaken = (hist.overtaken \/ \E r \in Request : Holds(r))
      BY <1>18 DEF PurgeBatch, TypeOK
    <2>3. UNCHANGED <<origin, call, task, answer>>
      BY <1>18 DEF PurgeBatch
    <2>4. PurgeStarted' /\ \A r \in Request : ~(task[r].floor > 0)
      BY <2>1, <2>3, <1>k DEF PurgeStarted
    <2>5. ASSUME ~hist'.overtaken PROVE PurgeClean'
      <3>1. PurgeClean /\ \A r \in Request : ~Holds(r)
        BY <2>2, <2>5 DEF PurgeInv
      <3>2. ASSUME NEW k \in Key \ purge'.left PROVE Current(store'[k])
        <4>1. store'[k] = None \/ (k \notin purge.left /\ store'[k] = store[k])
          BY <2>0, <2>1, <3>2
        <4> QED
          BY <4>1, <3>1, <2>1 DEF PurgeClean, Current
      <3>3. ASSUME NEW r \in Request, task[r].pc \in InHand PROVE Current(task[r].entry)
        <4>1. purge.version = MaxVersion /\ task[r].entry \in Known
          BY <2>1, <1>k, <1>t DEF PurgeStarted, TaskRecord
        <4>2. task[r].entry = None \/ ~(task[r].entry.version < MaxVersion)
          BY <4>1, <3>1, <3>3 DEF Holds, InHand
        <4> QED
          BY <4>1, <4>2, BoundsAssumption, SMTT(60) DEF Current, Known, Entry
      <3> QED
        BY <3>1, <3>2, <3>3, <2>3, <2>4 DEF PurgeClean, Current
    <2> QED
      BY <2>4, <2>5 DEF PurgeInv
  <1>19. ASSUME NEW k \in Key, EntryAges(k) PROVE PurgeInv'
    <2>1. UNCHANGED <<origin, purge, call, task, answer>> /\ hist'.overtaken = hist.overtaken
      BY <1>19, <1>o DEF EntryAges
    <2>2. \A j \in Key : \/ store'[j] = store[j] \/ store'[j] = None
                         \/ /\ store[j] # None
                            /\ store'[j].version = store[j].version
                            /\ store'[j].index = store[j].index
      <3>1. store[k] \in Entry
        BY <1>19, <1>t DEF EntryAges, Known
      <3>2. /\ [store[k] EXCEPT !.fresh = FALSE].version = store[k].version
            /\ [store[k] EXCEPT !.fresh = FALSE].index = store[k].index
        BY <3>1 DEF Entry
      <3>3. \/ store' = [store EXCEPT ![k] = None]
            \/ store' = [store EXCEPT ![k] = [store[k] EXCEPT !.fresh = FALSE]]
        BY <1>19, <1>t DEF EntryAges
      <3> QED
        BY <3>2, <3>3, <1>19, <1>t DEF EntryAges
    <2>3. \A j \in Key : Current(store[j]) => Current(store'[j])
      BY <2>2 DEF Current
    <2> QED
      BY <2>1, <2>3 DEF PurgeInv, PurgeStarted, PurgeClean, Current
  <1>20. ASSUME NEW n \in Node, CooldownPasses(n) PROVE PurgeInv'
    BY <1>20, <1>o, <1>u DEF CooldownPasses
  <1>21. ASSUME NEW n \in Node, Crash(n) PROVE PurgeInv'
    <2>1. UNCHANGED <<origin, purge, store, answer>> /\ hist'.overtaken = hist.overtaken
      BY <1>21, <1>o DEF Crash
    <2>2. \A q \in Request : \/ task'[q] = task[q]
                             \/ task'[q].pc = "lost" /\ ~(task'[q].floor > 0)
      BY <1>21, <1>d DEF Crash
    <2>3. \A q \in Request : call'[q] = call[q] \/ call'[q].state = "none"
      BY <1>21 DEF Crash, NoCall
    <2>4. PurgeStarted'
      BY <2>1, <2>2 DEF PurgeInv, PurgeStarted
    <2>5. ASSUME ~hist'.overtaken PROVE PurgeClean'
      <3>1. PurgeClean
        BY <2>1, <2>5 DEF PurgeInv
      <3>2. \A q \in Request : task'[q].pc = "follow" => task'[q].behind \in Request
        BY DEF FlightInv
      <3> QED
        <4>1. purge'.state # "idle" => \A k \in Key \ purge'.left : Current(store'[k])
          BY <3>1, <2>1 DEF PurgeClean
        <4>2. purge'.state # "idle" /\ purge'.left # Key =>
                 \A q \in Request : task'[q].pc \in InHand => Current(task'[q].entry)
          BY <3>1, <2>1, <2>2 DEF PurgeClean, InHand
        <4>3. ASSUME NEW q \in Request, task'[q].floor > 0
              PROVE  /\ task'[q].pc = "stale" => Current(task'[q].entry)
                     /\ task'[q].pc = "follow" /\ call'[task'[q].behind].state = "settled"
                          => Current(call'[task'[q].behind].entry)
          BY <4>3, <3>1, <3>2, <2>2, <2>3 DEF PurgeClean
        <4>4. \A q \in Request : answer'[q] # None => answer'[q].sincePurge
          BY <3>1, <2>1 DEF PurgeClean
        <4> QED
          BY <4>1, <4>2, <4>3, <4>4 DEF PurgeClean, Current
    <2> QED
      BY <2>4, <2>5 DEF PurgeInv
  <1>22. CASE UNCHANGED vars
    BY <1>22, <1>o, <1>u DEF vars
  <1> QED
    BY <1>1, <1>2, <1>3, <1>4, <1>5, <1>6, <1>7, <1>8, <1>9, <1>10, <1>11, <1>12, <1>13,
       <1>14, <1>15, <1>16, <1>17, <1>18, <1>19, <1>20, <1>21, <1>22 DEF Next, Step

----------------------------------------------------------------------------
(* Theorems.                                                               *)

\* An empty cache without requests satisfies the inductive invariant.
LEMMA InitInv == Init => CacheInv
  <1> SUFFICES ASSUME Init PROVE CacheInv
    OBVIOUS
  <1>1. TypeOK /\ TasksFit
    BY InitFits
  <1>2. RightVariant
    BY DEF Init, RightVariant
  <1>3. \A r \in Request : task[r].pc = "start" /\ task[r].mine = FALSE
    BY DEF Init
  <1>4. FlightInv
    BY <1>3 DEF Init, FlightInv, NoCall
  <1>5. LeaseInv
    BY <1>3 DEF Init, LeaseInv
  <1>6. PurgeInv
    <2>0. \A r \in Request : task[r].floor = 0
      BY DEF Init
    <2>1. \A r \in Request : ~(task[r].floor > 0)
      BY <2>0, SMTT(60)
    <2> QED
      BY <1>3, <2>1 DEF Init, PurgeInv, PurgeStarted, PurgeClean
  <1> QED
    BY <1>1, <1>2, <1>4, <1>5, <1>6 DEF CacheInv

\* Every step of the fleet preserves the inductive invariant.
LEMMA InvKept == CacheInv /\ [Next]_vars => CacheInv'
  BY TypesKept, AnswersKept, FlightKept, LeaseKept, PurgeKept DEF CacheInv

\* The whole invariant holds in every reachable state of the fleet.
THEOREM CacheInvariant == Spec => []CacheInv
  BY InitInv, InvKept, PTL DEF Spec

\* Whatever the fleet, the headers and the interleaving, no client is ever sent
\* a representation negotiated for other header values than its own
\* (entryAnswers, revalidate, forwardRecording).
THEOREM AlwaysRightVariant == Spec => []RightVariant
  <1>1. CacheInv => RightVariant
    BY DEF CacheInv
  <1> QED
    BY <1>1, CacheInvariant, PTL

\* A follower that is not woken yet always waits on the call its own proxy has in
\* flight, whose leader is still at work (inflightGroup.join and settle).
THEOREM FollowersAreLed == Spec => []NoOrphanFollower
  <1>1. CacheInv => NoOrphanFollower
    <2> SUFFICES ASSUME CacheInv, NEW r \in Request, task[r].pc = "follow",
                        call[task[r].behind].state # "settled"
                 PROVE  /\ flight[NodeOf[r]] = task[r].behind
                        /\ task[task[r].behind].pc \in Working
      BY DEF NoOrphanFollower, Working
    <2>1. /\ task[r].behind \in Request
          /\ NodeOf[task[r].behind] = NodeOf[r]
          /\ call[task[r].behind].state # "none"
      BY DEF CacheInv, FlightInv
    <2>2. call[task[r].behind].state = "open"
      BY <2>1 DEF CacheInv, TypeOK
    <2> QED
      BY <2>1, <2>2 DEF CacheInv, FlightInv
  <1> QED
    BY <1>1, CacheInvariant, PTL

\* Unless a response fetched before the purge was still being stored while it
\* ran, no request that arrives after the purge is sent older content (Purge).
THEOREM PurgeAlwaysHolds == Spec => []PurgeHolds
  <1>1. CacheInv => PurgeHolds
    BY DEF CacheInv, PurgeInv, PurgeClean, PurgeHolds
  <1> QED
    BY <1>1, CacheInvariant, PTL

\* The holder of the lease is never robbed of it, and while nothing disturbs the
\* fleet at most one of its requests is at the target (acquireLease,
\* releaseCacheLease).
THEOREM LeaseAlwaysExcludes == Spec => []LeaseExcludes
  <1>1. CacheInv => HolderKeepsLease
    BY DEF CacheInv, LeaseInv, HolderKeepsLease
  <1>2. CacheInv => FleetSingleFlight
    BY DEF CacheInv, LeaseInv, FleetSingleFlight
  <1> QED
    BY <1>1, <1>2, CacheInvariant, PTL DEF LeaseExcludes

============================================================================
