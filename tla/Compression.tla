----------------------------- MODULE Compression -----------------------------
(***************************************************************************)
(* The response writer that encodes what a target answers on its way to    *)
(* the client (internal/server/compression_middleware.go, compression.go). *)
(* It holds the headers back until it knows whether it will compress, and  *)
(* the reverse proxy's writes race the flush it schedules after the header.*)
(*                                                                         *)
(* Bytes are numbered as the target sends them; an encoder turns them into *)
(* an encoded stream that decodes to them, and keeps what it is given to   *)
(* itself until it is flushed or closed.  The reverse proxy is external:   *)
(* when it does not know the length it flushes after every write, and once *)
(* more, whenever it gets round to it, after the header.                   *)
(***************************************************************************)
EXTENDS Integers, Sequences, SequencesExt, FiniteSets

CONSTANTS
    Exchange,   \* the requests and answers: [codings, min, head, qualities,
                \*  star, hints, status, type, sniffed, length, coded, ranged,
                \*  etag], length -1 for none and qualities a partial function
    Identity,   \* no coding
    MaxBody,    \* bound on a body of undeclared length
    MaxChunk    \* bound on a write

VARIABLES
    x,          \* the exchange
    phase,      \* "waiting", "body", "over"
    scheduled,  \* whether the flush after the header is still to come
    body,       \* what the target has sent, write by write
    w,          \* the writer: [headerSeen, statusCode, decided, compressing, buffer]
    encoder,    \* bytes the encoder has not let go of
    client      \* [status, coding, length, etag, type, vary, bytes, end]

compressVars == <<x, phase, scheduled, body, w, encoder, client>>

Early == 103
Sent == FlattenSeq(body)

CompressInit ==
    /\ x \in Exchange
    /\ phase = "waiting" /\ scheduled = FALSE /\ body = <<>>
    /\ w = [headerSeen |-> FALSE, statusCode |-> 200, decided |-> FALSE,
            compressing |-> FALSE, buffer |-> <<>>]
    /\ encoder = <<>>
    /\ client = [status |-> 0, coding |-> Identity, length |-> -1, etag |-> "none",
                 type |-> "none", vary |-> FALSE, bytes |-> <<>>, end |-> "open"]

-----------------------------------------------------------------------------
(* What the client and the service agree on. *)
Quality(c) == IF c \in DOMAIN x.qualities THEN x.qualities[c] ELSE x.star

(* The highest quality wins, ties go to the coding listed first. *)
negotiate ==
    LET wanted == {i \in DOMAIN x.codings : Quality(x.codings[i]) > 0}
        best == {i \in wanted : \A j \in wanted : Quality(x.codings[j]) <= Quality(x.codings[i])}
    IN  IF wanted = {} THEN Identity
        ELSE x.codings[CHOOSE i \in best : \A j \in best : i <= j]

compressibleContentType(type) == type = "text"

statusAllowsBody(status) == status >= 200 /\ status \notin {204, 304}

(* The header of an informational response has none of the fields. *)
mayCompress(status) ==
    ~x.head /\ statusAllowsBody(status) /\ ~x.coded /\ ~x.ranged

-----------------------------------------------------------------------------
(* The client's end.  An informational status is not the answer's.  In the *)
(* steps below v and c are the writer and the client as a call finds them. *)
Reaches(c, status) ==
    IF status = Early \/ c.status # 0 THEN c ELSE [c EXCEPT !.status = status]

(* net/http sends a header of its own with the first byte. *)
Receives(c, p) ==
    IF p = <<>> THEN c ELSE [Reaches(c, 200) EXCEPT !.bytes = @ \o p]

(* The target's headers are in the map before WriteHeader is called. *)
Answered(c) ==
    [c EXCEPT !.length = x.length, !.etag = x.etag, !.type = x.type,
              !.coding = IF x.coded THEN "target's" ELSE Identity]

Encoded(c) ==
    [c EXCEPT !.coding = negotiate, !.length = -1,
              !.etag = IF @ = "none" THEN "none" ELSE "weak"]

TypeOf(v) == IF x.type = "none" /\ v.buffer # <<>> THEN x.sniffed ELSE x.type

bodyAtLeast(v) == IF x.length >= 0 THEN x.length >= x.min ELSE Len(v.buffer) >= x.min

Worthwhile(v) ==
    /\ mayCompress(v.statusCode) /\ compressibleContentType(TypeOf(v))
    /\ negotiate # Identity /\ bodyAtLeast(v)

(* decide: the header goes out, and the buffer after it, to the encoder or *)
(* to the client.                                                          *)
decide(v, c) ==
    IF v.decided THEN [v |-> v, c |-> c, e |-> <<>>]
    ELSE LET encodes == Worthwhile(v)
             varies == mayCompress(v.statusCode) /\ compressibleContentType(TypeOf(v))
             plain == [c EXCEPT !.vary = varies]
             typed == IF encodes THEN [Encoded(plain) EXCEPT !.type = TypeOf(v)] ELSE plain
             headed == Reaches(typed, v.statusCode)
         IN  [v |-> [v EXCEPT !.decided = TRUE, !.compressing = encodes, !.buffer = <<>>],
              c |-> IF encodes THEN headed ELSE Receives(headed, v.buffer),
              e |-> IF encodes THEN v.buffer ELSE <<>>]

(* A header that settles the question by itself is a decision. *)
decideFromHeaders(v) ==
    \/ ~mayCompress(v.statusCode)
    \/ /\ x.type # "none"
       /\ ~compressibleContentType(x.type) \/ negotiate = Identity \/ x.length >= 0

-----------------------------------------------------------------------------
Goes(d) == w' = d.v /\ client' = d.c /\ encoder' = encoder \o d.e

(* An informational header is taken for the answer's. *)
EarlyHints ==
    /\ phase = "waiting" /\ x.hints /\ ~w.headerSeen
    /\ Goes(decide([w EXCEPT !.headerSeen = TRUE, !.statusCode = Early], client))
    /\ UNCHANGED <<x, phase, scheduled, body>>

eager == x.length = -1 \/ x.type = "stream"

(* The header after a decision changes nothing but the map behind it, and  *)
(* that is sent with the first byte.                                       *)
WriteHeader ==
    /\ phase = "waiting"
    /\ phase' = "body"
    /\ scheduled' = eager
    /\ LET v == [w EXCEPT !.headerSeen = TRUE, !.statusCode = x.status]
       IN  IF w.headerSeen THEN client' = Answered(client) /\ UNCHANGED <<w, encoder>>
           ELSE IF decideFromHeaders(v) THEN Goes(decide(v, Answered(client)))
           ELSE w' = v /\ client' = Answered(client) /\ UNCHANGED encoder
    /\ UNCHANGED <<x, body>>

(* An upgrade: the connection is no longer the writer's to answer on. *)
Hijack ==
    /\ phase = "waiting"
    /\ phase' = "over"
    /\ w' = [w EXCEPT !.decided = TRUE]
    /\ client' = [client EXCEPT !.end = "tunnel"]
    /\ UNCHANGED <<x, scheduled, body, encoder>>

(* Mutant: a flush decides even when no byte has come. *)
Flushed_Decides(v, c, e) ==
    LET d == decide(v, c)
    IN  IF d.v.compressing
        THEN [v |-> d.v, c |-> Receives(d.c, e \o d.e), e |-> <<>>]
        ELSE [v |-> d.v, c |-> d.c, e |-> <<>>]

(* Flush: with nothing to decide on, nothing is decided. *)
Flushed(v, c, e) ==
    LET d == decide(v, c)
    IN  IF ~v.decided /\ v.buffer = <<>> THEN [v |-> v, c |-> c, e |-> e]
        ELSE IF d.v.compressing
        THEN [v |-> d.v, c |-> Receives(d.c, e \o d.e), e |-> <<>>]
        ELSE [v |-> d.v, c |-> d.c, e |-> <<>>]

ScheduledFlush ==
    /\ phase = "body" /\ scheduled
    /\ scheduled' = FALSE
    /\ LET f == Flushed(w, client, encoder)
       IN  w' = f.v /\ client' = f.c /\ encoder' = f.e
    /\ UNCHANGED <<x, phase, body>>

(* Write, with the encoder's and the client's shares of it. *)
Written(p) ==
    LET v == [w EXCEPT !.buffer = @ \o p]
    IN  IF w.decided
        THEN IF w.compressing THEN [v |-> w, c |-> client, e |-> encoder \o p]
             ELSE [v |-> w, c |-> Receives(client, p), e |-> encoder]
        ELSE IF Len(v.buffer) >= x.min
        THEN LET d == decide(v, client) IN [d EXCEPT !.e = encoder \o @]
        ELSE [v |-> v, c |-> client, e |-> encoder]

(* The reverse proxy's lock makes a write and its flush one step. *)
Write(p) ==
    /\ phase = "body" /\ statusAllowsBody(x.status) /\ ~x.head
    /\ Len(Sent) + Len(p) <= IF x.length >= 0 THEN x.length ELSE MaxBody
    /\ body' = Append(body, p)
    /\ LET a == Written(p)
           f == IF eager THEN Flushed(a.v, a.c, a.e) ELSE a
       IN  w' = f.v /\ client' = f.c /\ encoder' = f.e
    /\ UNCHANGED <<x, phase, scheduled>>

(* finish, run on every way out, a panic included. *)
Finished ==
    LET d == decide(w, client)
    IN  IF d.v.compressing THEN Receives(d.c, encoder \o d.e) ELSE d.c

Ends(end) ==
    /\ phase' = "over"
    /\ client' = [Reaches(Finished, 200) EXCEPT !.end = end]
    /\ w' = [w EXCEPT !.decided = TRUE, !.compressing = FALSE, !.buffer = <<>>]
    /\ encoder' = <<>>
    /\ UNCHANGED <<x, scheduled, body>>

BodyEnds ==
    /\ phase = "body"
    /\ x.length >= 0 /\ statusAllowsBody(x.status) /\ ~x.head => Len(Sent) = x.length
    /\ Ends("complete")

(* The target breaks off, and the reverse proxy panics to abort. *)
TargetBreaks == phase = "body" /\ Ends("aborted")

Done == phase = "over" /\ UNCHANGED compressVars

CompressNext ==
    \/ EarlyHints \/ WriteHeader \/ Hijack \/ ScheduledFlush
    \/ \E n \in 1..MaxChunk : Write([i \in 1..n |-> Len(Sent) + i])
    \/ BodyEnds \/ TargetBreaks \/ Done

CompressSpec == CompressInit /\ [][CompressNext]_compressVars

-----------------------------------------------------------------------------
CompressTypeOK ==
    /\ x \in Exchange /\ phase \in {"waiting", "body", "over"} /\ scheduled \in BOOLEAN
    /\ w.statusCode \in {Early, 200, x.status}
    /\ w.compressing => w.decided /\ w.buffer = <<>>
    /\ client.end \in {"open", "complete", "aborted", "tunnel"}

(* The bytes the client was sent decode to what the target sent, whole and *)
(* in order when the answer is complete and a prefix of it before, under   *)
(* headers that describe them: a coding the client asked for, no length    *)
(* of another representation, no strong validator on an encoded body, and  *)
(* the type of the body inside.                                            *)
DecodesToTarget ==
    /\ IsPrefix(client.bytes, Sent)
    /\ client.end = "complete" => client.bytes = Sent
    /\ client.status # 0 /\ client.coding \notin {Identity, "target's"} =>
          /\ Quality(client.coding) > 0 /\ ~x.coded
          /\ client.length = -1 /\ client.etag # "strong" /\ client.vary
          /\ client.type # "none"
    /\ client.status # 0 /\ client.coding = Identity => client.length = x.length

(* "treating it as a decision would make compression a coin toss for every *)
(* chunked response": whether an answer is encoded, and whether caches are *)
(* told that it might have been, follows from what the target sent and     *)
(* never from when the scheduled flush got to run.                         *)
NoCoinToss ==
    w.statusCode # Early /\ client.status # 0 /\ client.end # "aborted" =>
        LET type == IF x.type = "none" /\ body # <<>> THEN x.sniffed ELSE x.type
            candidate == mayCompress(x.status) /\ type = "text"
            enough == IF x.length >= 0 THEN x.length >= x.min
                      ELSE body # <<>> /\ Len(body[1]) >= x.min
        IN  /\ client.vary = candidate
            /\ client.coding = IF candidate /\ enough THEN negotiate
                               ELSE IF x.coded THEN "target's" ELSE Identity

(* A client that is being streamed to can decode every byte the target has *)
(* sent as soon as the reverse proxy has passed it on.                     *)
NothingHeldBack ==
    phase = "body" /\ eager => client.bytes = Sent /\ (Sent # <<>> => client.status # 0)

\* The encoder is transparent, whenever the scheduled flush gets to run: the
\* client decodes what the target sent, under a coding the answer determines, and
\* as soon as it is sent (compressingResponseWriter).
EncodingTransparent == DecodesToTarget /\ NoCoinToss /\ NothingHeldBack

(* "reaches the client with its status intact" (decideFromHeaders): the    *)
(* status a client is given is the target's.                               *)
StatusIntact ==
    client.status # 0 => client.status = x.status
=============================================================================
