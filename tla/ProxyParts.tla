------------------------------ MODULE ProxyParts ------------------------------
(***************************************************************************)
(* The parts of the proxy a request meets one after the other, and the two *)
(* small protocols beside them, side by side: routing, the pause gate, the *)
(* request gates, the choice of a target and its queue times, the exchange *)
(* with it, the cache's rules, the encoding of the answer, and the state   *)
(* file.  They meet only at their interfaces, a host and path in and a     *)
(* verdict, a service, a target or a response out, so a behaviour runs one *)
(* of them, `part`, and the variables of the others stand still.           *)
(***************************************************************************)
EXTENDS RequestGates, StateFile

CONSTANTS
    Client, Deployment, SelectTime,                             \* TargetSelection
    WindowSeconds, Buckets, MaxSecond, MaxSeen,                 \* QueueWindow
    Option, MaxBody, MaxChunk,                                  \* ProxyExchange
    Name, Host, AnyHost, Wildcard, Path, Options,               \* Routing
    Setting, AcceptEncoding, Everything, Unkeyable, Keyable,    \* CacheRules
    Identity, MaxVaryFields, Second, Width,
    Exchange,                                                   \* Compression
    Requests, MaxPauses, Restarts                               \* PauseController

VARIABLES
    part,
    lb, healthy, credit, index, jar, flight, clock, turns, stable, home, wrote,
    second, slots, seen, back,
    opt, stage, in, out, sentIn, got, target, writer, timer, dated, client,
    services, bindings, defaultTLS,
    setting, store, ticks, fetched, reply,
    x, coding, scheduled, body, w, encoder, reader,
    pstate, channel, made, closed, gate, saved, dead

Select == INSTANCE TargetSelection WITH now <- clock, MaxTime <- SelectTime
Queue  == INSTANCE QueueWindow
Proxy  == INSTANCE ProxyExchange WITH phase <- stage
Route  == INSTANCE Routing WITH Nobody <- None
Rules  == INSTANCE CacheRules WITH now <- ticks
Codec  == INSTANCE Compression WITH phase <- coding, client <- reader
Pauses == INSTANCE PauseController

Part == {"gates", "state", "select", "queue", "proxy", "route", "rules", "codec", "pause"}

(* The variables of the instances. *)
selecting == <<lb, healthy, credit, index, jar, flight, clock, turns, stable, home, wrote>>
queueing  == <<second, slots, seen, back>>
proxying  == <<opt, stage, in, out, sentIn, got, target, writer, timer, dated, client>>
routing   == <<services, bindings, defaultTLS>>
caching   == <<setting, store, ticks, fetched, reply>>
encoding  == <<x, coding, scheduled, body, w, encoder, reader>>
pausing   == <<pstate, channel, made, closed, gate, saved, dead>>

partVars ==
    <<part, gateVars, vars, selecting, queueing, proxying, routing, caching, encoding, pausing>>

(* A part that stands still does so in one of its initial states. *)
PartsInit ==
    /\ part \in Part
    /\ GatesInit /\ (part # "gates" => service = CHOOSE s \in Service : TRUE)
    /\ part # "gates" => from = CHOOSE i \in Window : TRUE
    /\ Init /\ (part # "state" => file = Missing /\ tmp = Missing)
    /\ Select!SelectInit /\ (part # "select" => lb = CHOOSE d \in Deployment : TRUE)
    /\ Queue!QueueInit
    /\ Proxy!ExchangeInit /\ (part # "proxy" => opt = CHOOSE o \in Option : ~o.deadline)
    /\ Route!RouteInit
    /\ Rules!RulesInit /\ (part # "rules" => setting = CHOOSE s \in Setting : TRUE)
    /\ Codec!CompressInit /\ (part # "codec" => x = CHOOSE e \in Exchange : TRUE)
    /\ Pauses!PauseInit

(* The parts other than p take no step. *)
Still(p) ==
    /\ part = p /\ part' = part
    /\ p # "gates" => UNCHANGED gateVars
    /\ p # "state" => UNCHANGED vars
    /\ p # "select" => UNCHANGED selecting
    /\ p # "queue" => UNCHANGED queueing
    /\ p # "proxy" => UNCHANGED proxying
    /\ p # "route" => UNCHANGED routing
    /\ p # "rules" => UNCHANGED caching
    /\ p # "codec" => UNCHANGED encoding
    /\ p # "pause" => UNCHANGED pausing

PartsNext ==
    \/ Still("gates") /\ GatesNext
    \/ Still("state") /\ Next
    \/ Still("select") /\ Select!SelectNext
    \/ Still("queue") /\ Queue!QueueNext
    \/ Still("proxy") /\ Proxy!ExchangeNext
    \/ Still("route") /\ Route!RouteNext
    \/ Still("rules") /\ Rules!RulesNext
    \/ Still("codec") /\ Codec!CompressNext
    \/ Still("pause") /\ Pauses!PauseNext

(* A waiter whose channel is closed is scheduled, a deadline passes and a   *)
(* cancelled exchange returns.  Nothing is assumed of clients, targets or   *)
(* operators.                                                              *)
PartsFairness ==
    /\ Proxy!ExchangeFairness
    /\ \A r \in Requests : WF_pausing(Pauses!WaitReleased(r))

PartsSpec == PartsInit /\ [][PartsNext]_partVars /\ PartsFairness

-----------------------------------------------------------------------------
(* The parts' own properties, under the names their modules give them, for *)
(* the part that runs; those of the request gates and of the state file    *)
(* hold throughout.                                                        *)

(* Every variable of the part that runs holds a value of its type. *)
PartsTypeOK ==
    CASE part = "gates"  -> GatesTypeOK
      [] part = "state"  -> TypeOK
      [] part = "select" -> Select!SelectTypeOK
      [] part = "queue"  -> Queue!QueueTypeOK
      [] part = "proxy"  -> Proxy!ExchangeTypeOK
      [] part = "route"  -> Route!RouteTypeOK
      [] part = "rules"  -> Rules!RulesTypeOK
      [] part = "codec"  -> Codec!CompressTypeOK
      [] part = "pause"  -> Pauses!PauseTypeOK

(* Targets get their shares, however the pool changes (nextTarget). *)
RotationFair == part = "select" => Select!RotationFair

(* Write cookies and session pins are honoured (claimTarget). *)
CookiesHonoured == Select!CookiesHonoured

(* A snapshot is of the last window exactly (queueWindow.Snapshot). *)
SnapshotHonest == part = "queue" => Queue!SnapshotHonest

(* An answer is whole or an error, within its limits, and a stream flows   *)
(* (Buffer, bufferedResponseWriter, deadlineResponseWriter).               *)
BufferingInvisible == part = "proxy" => Proxy!BufferingInvisible

(* A stalled exchange is ended by its deadline (deadlineResponseWriter). *)
DeadlineEnds == Proxy!DeadlineEnds

(* A host and prefix have one owner, a host one TLS setting (ServiceMap). *)
OwnersAgree == part = "route" => Route!OwnersAgree

(* A deploy or removal moves no other service's requests (ServiceMap). *)
OthersKeepTheirs == Route!OthersKeepTheirs

(* A stored answer is one its target negotiated with this client, agreed   *)
(* to share and still allows (entryAnswers, responseIsStorable, servable). *)
CacheAnswersRightly == part = "rules" => Rules!CacheAnswersRightly

(* The client decodes what the target sent, as soon as it is sent, and     *)
(* under a coding no race decides (compressingResponseWriter).             *)
EncodingTransparent == part = "codec" => Codec!EncodingTransparent

(* Resuming releases whom the pause held (PauseController.Wait). *)
ReleasedByResume == Pauses!ReleasedByResume
=============================================================================
