---------------------------- MODULE ProxyExchange ----------------------------
(***************************************************************************)
(* One exchange with a target, through the writers that stand between the  *)
(* reverse proxy and the client: the request buffer                        *)
(* (internal/server/request_buffer_middleware.go), the response buffer     *)
(* (response_buffer_middleware.go), the target's and the deadline's        *)
(* response writers (target.go, request_deadline_middleware.go), and the   *)
(* error page that replaces an answer nobody has seen.                     *)
(*                                                                         *)
(* Bytes are numbered as they are sent.  The reverse proxy is external: it *)
(* passes informational responses on as they come, then the header, then   *)
(* the body, and when the body breaks off it aborts the connection.        *)
(***************************************************************************)
EXTENDS SpillBuffer, FiniteSets

CONSTANTS
    Option,     \* [bufferRequests, bufferResponses, deadline, streamRequest,
                \*  hints: BOOLEAN, maxMem, maxRequest, maxResponse: Nat]
    MaxBody,    \* bound on a body
    MaxChunk    \* bound on a write

VARIABLES
    opt,
    phase,      \* "request", "waiting", "body", "tunnel", "over"
    in, out,    \* the buffers
    sentIn,     \* how many bytes of its body the client has sent
    got,        \* the request body the target received
    target,     \* what the target answered: [hinted, status, type, body]
    writer,     \* bufferedResponseWriter: [statusCode, headerWritten, bypass]
    timer,      \* the deadline: "off", "armed", "stopped", "fired"
    dated,      \* deadlineResponseWriter.headerWritten
    client      \* what the client has: [status, body, end]

exchangeVars == <<opt, phase, in, out, sentIn, got, target, writer, timer, dated, client>>

Status == {"200", "404"}
Early == "103"
Errors == {"400", "413", "500", "502", "504"}

(* Content types: a page, an event stream, and an event stream whose type  *)
(* has a space before its parameters.                                      *)
Type == {"page", "stream", "stream ;"}

Chunk(from) == {[i \in 1..n |-> from + i] : n \in 1..MaxChunk}

ExchangeInit ==
    /\ opt \in Option
    /\ phase = IF opt.bufferRequests THEN "request" ELSE "waiting"
    /\ in = NewBuffer /\ out = NewBuffer
    /\ sentIn = 0 /\ got = <<>>
    /\ target = [hinted |-> FALSE, status |-> "none", type |-> "page", body |-> <<>>]
    /\ writer = [statusCode |-> "200", headerWritten |-> FALSE, bypass |-> FALSE]
    /\ timer = IF opt.deadline /\ ~opt.streamRequest THEN "armed" ELSE "off"
    /\ dated = FALSE
    /\ client = [status |-> "none", body |-> <<>>, end |-> "open"]

-----------------------------------------------------------------------------
(* How an exchange ends.  The buffers are closed on every way out. *)
Over(end) ==
    /\ phase' = "over"
    /\ in' = Close(in)
    /\ client' = [client EXCEPT !.end = end]

(* SetErrorResponse: the middleware above writes the page. *)
Error(status) == Over(status) /\ out' = Close(out)

Abort == Over("aborted") /\ out' = Close(out)

-----------------------------------------------------------------------------
(* RequestBufferMiddleware: the whole body is read before the target is.   *)
ReadRequest(p) ==
    /\ phase = "request" /\ sentIn + Len(p) <= MaxBody
    /\ sentIn' = sentIn + Len(p)
    /\ \E w \in Write(in, p, opt.maxRequest, opt.maxMem) :
          CASE w.err = "none" -> in' = w.buf /\ UNCHANGED <<phase, out, client>>
            [] w.err = "too large" -> Error("413")
            [] w.err = "disk" -> Error("500")
    /\ UNCHANGED <<opt, got, target, writer, timer, dated>>

MalformedRequest ==
    /\ phase = "request"
    /\ Error("400")
    /\ UNCHANGED <<opt, sentIn, got, target, writer, timer, dated>>

SendRequest ==
    /\ phase = "request"
    /\ phase' = "waiting"
    /\ got' = Contents(in)
    /\ UNCHANGED <<opt, in, out, sentIn, target, writer, timer, dated, client>>

-----------------------------------------------------------------------------
(* The writers, innermost last.  The client's server takes the first       *)
(* header that is not informational for the answer's.                      *)
Reaches(c, status) ==
    IF status # Early /\ c.status = "none" THEN [c EXCEPT !.status = status] ELSE c

(* isStreamingResponse trims the type, ShouldSwitchToUnbuffered does not.  *)
isStreamingResponse(status, type) == status # Early /\ type \in {"stream", "stream ;"}
ShouldSwitchToUnbuffered(status, type) == status # Early /\ type = "stream"

(* deadlineResponseWriter.WriteHeader, below targetResponseWriter's. *)
PassHeader(status, type) ==
    /\ client' = Reaches(client, status)
    /\ timer' = IF ~dated /\ isStreamingResponse(status, type) /\ timer = "armed"
                THEN "stopped" ELSE timer
    /\ dated' = TRUE

(* bufferedResponseWriter.WriteHeader: the first header decides. *)
WriteHeader(status, type) ==
    IF ~opt.bufferResponses
    THEN PassHeader(status, type) /\ UNCHANGED writer
    ELSE IF writer.headerWritten
    THEN UNCHANGED <<client, timer, dated, writer>>
    ELSE LET bypass == ShouldSwitchToUnbuffered(status, type)
         IN  /\ writer' = [statusCode |-> status, headerWritten |-> TRUE, bypass |-> bypass]
             /\ IF bypass THEN PassHeader(status, type)
                ELSE UNCHANGED <<client, timer, dated>>

EarlyHints ==
    /\ phase = "waiting" /\ opt.hints /\ ~target.hinted
    /\ target' = [target EXCEPT !.hinted = TRUE]
    /\ WriteHeader(Early, "page")
    /\ UNCHANGED <<opt, phase, in, out, sentIn, got>>

Header(status, type) ==
    /\ phase = "waiting"
    /\ phase' = "body"
    /\ target' = [target EXCEPT !.status = status, !.type = type]
    /\ WriteHeader(status, type)
    /\ UNCHANGED <<opt, in, out, sentIn, got>>

(* 101: the connection is hijacked through every writer, the deadline's    *)
(* included, and is a tunnel until either side closes it.                  *)
Hijack ==
    /\ phase = "waiting"
    /\ phase' = "tunnel"
    /\ timer' = IF timer = "armed" THEN "stopped" ELSE timer
    /\ target' = [target EXCEPT !.status = "101"]
    /\ UNCHANGED <<opt, in, out, sentIn, got, writer, dated, client>>

TunnelCloses ==
    /\ phase = "tunnel"
    /\ Over("tunnel") /\ out' = Close(out)
    /\ UNCHANGED <<opt, sentIn, got, target, writer, timer, dated>>

(* bufferedResponseWriter.Write: an overflow is swallowed, and answered    *)
(* for when the buffer is sent; a disk error aborts the copy.              *)
WriteBody(p) ==
    /\ phase = "body" /\ Len(target.body) + Len(p) <= MaxBody
    /\ target' = [target EXCEPT !.body = @ \o p]
    /\ IF ~opt.bufferResponses \/ writer.bypass
       THEN client' = [client EXCEPT !.body = @ \o p] /\ UNCHANGED <<phase, in, out>>
       ELSE \E w \in Write(out, p, opt.maxResponse, opt.maxMem) :
              IF w.err = "disk" THEN Abort
              ELSE out' = w.buf /\ UNCHANGED <<phase, in, client>>
    /\ UNCHANGED <<opt, sentIn, got, writer, timer, dated>>

(* bufferedResponseWriter.Send, after the reverse proxy has returned. *)
Send ==
    LET header == Reaches(client, writer.statusCode)
    IN  client' = [header EXCEPT
            !.status = IF @ = "none" THEN "200" ELSE @,
            !.body = Contents(out), !.end = "complete"]

(* Mutant: a buffer that overflowed is sent as far as it goes. *)
BodyEnds_IgnoresOverflow ==
    /\ phase = "body"
    /\ IF opt.bufferResponses /\ ~writer.bypass
       THEN Send /\ phase' = "over" /\ in' = Close(in) /\ out' = Close(out)
       ELSE Over("complete") /\ out' = Close(out)
    /\ UNCHANGED <<opt, sentIn, got, target, writer, timer, dated>>

BodyEnds ==
    /\ phase = "body"
    /\ IF opt.bufferResponses /\ out.overflowed THEN Error("500")
       ELSE IF opt.bufferResponses /\ ~writer.bypass
       THEN Send /\ phase' = "over" /\ in' = Close(in) /\ out' = Close(out)
       ELSE Over("complete") /\ out' = Close(out)
    /\ UNCHANGED <<opt, sentIn, got, target, writer, timer, dated>>

(* The target closes the connection: handleProxyError before the header,   *)
(* an aborted connection after it.                                         *)
TargetBreaks ==
    /\ \/ phase = "waiting" /\ Error("502")
       \/ phase = "body" /\ Abort
    /\ UNCHANGED <<opt, sentIn, got, target, writer, timer, dated>>

-----------------------------------------------------------------------------
(* The deadline. *)
DeadlinePasses ==
    /\ timer = "armed" /\ phase # "over"
    /\ timer' = "fired"
    /\ UNCHANGED <<opt, phase, in, out, sentIn, got, target, writer, dated, client>>

(* Mutant: the deadline only covers the wait for the header. *)
Cancelled_BeforeHeader ==
    /\ timer = "fired" /\ phase = "waiting" /\ Error("504")
    /\ UNCHANGED <<opt, sentIn, got, target, writer, timer, dated>>

Cancelled ==
    /\ timer = "fired"
    /\ \/ phase = "waiting" /\ Error("504")
       \/ phase \in {"body", "tunnel"} /\ Abort
    /\ UNCHANGED <<opt, sentIn, got, target, writer, timer, dated>>

Done == phase = "over" /\ UNCHANGED exchangeVars

ExchangeNext ==
    \/ \E p \in Chunk(sentIn) : ReadRequest(p)
    \/ MalformedRequest \/ SendRequest
    \/ EarlyHints
    \/ \E status \in Status, type \in Type : Header(status, type)
    \/ Hijack \/ TunnelCloses
    \/ \E p \in Chunk(Len(target.body)) : WriteBody(p)
    \/ BodyEnds \/ TargetBreaks \/ DeadlinePasses \/ Cancelled \/ Done

ExchangeSpec == ExchangeInit /\ [][ExchangeNext]_exchangeVars

(* The timer goes off, and a cancelled round trip or copy returns.  Nothing *)
(* is assumed of the target or of the client.                              *)
ExchangeFairness == WF_exchangeVars(DeadlinePasses) /\ WF_exchangeVars(Cancelled)

-----------------------------------------------------------------------------
ExchangeTypeOK ==
    /\ opt \in Option /\ phase \in {"request", "waiting", "body", "tunnel", "over"}
    /\ timer \in {"off", "armed", "stopped", "fired"} /\ dated \in BOOLEAN
    /\ client.end \in {"open", "complete", "aborted", "tunnel"} \cup Errors
    /\ client.status \in Status \cup {"none"}
    /\ writer.statusCode \in Status \cup {Early}

(* A client that sees the end of an answer has all of it, in order, and    *)
(* nothing else, whatever part of it went through memory or the spill      *)
(* file; anything short of that is an error page or a broken connection.   *)
(* Likewise a target is given all of a buffered body or nothing.  The      *)
(* status is the target's when no informational response came first.       *)
WholeOrError ==
    /\ client.end = "complete" =>
          /\ client.body = target.body
          /\ ~target.hinted => client.status = target.status
    /\ client.end \in Errors => client.body = <<>> /\ client.status = "none"
    /\ opt.bufferRequests /\ phase \in {"waiting", "body"} =>
          got = [i \in 1..sentIn |-> i]

(* No more of a body than MaxMemoryBufferSize is held in memory and no more *)
(* than the limit in all, and no spill file outlives its exchange.         *)
BufferBounded ==
    /\ Len(in.mem) <= opt.maxMem /\ Len(out.mem) <= opt.maxMem
    /\ opt.maxRequest > 0 => Size(in) <= opt.maxRequest
    /\ opt.maxResponse > 0 => Size(out) <= opt.maxResponse
    /\ phase = "over" => ~in.spill /\ ~out.spill

(* "A response that turns out to be a stream stops the deadline before it  *)
(* can truncate it": once the target's header says so, no deadline that    *)
(* has not passed yet is left to end the stream; nor to end a tunnel.      *)
StreamsExempt ==
    (phase = "body" /\ isStreamingResponse(target.status, target.type)) \/ phase = "tunnel" =>
        timer # "armed"

(* The same for a target that sends no informational response first and    *)
(* for a type that both writers take for a stream; and such a stream's     *)
(* bytes are the client's at once, never held in a buffer.                 *)
PlainStreamsFlow ==
    ~target.hinted /\ target.type # "stream ;" =>
        /\ StreamsExempt
        /\ phase = "body" /\ target.type = "stream" => client.body = target.body

(* Buffering is invisible: an exchange is passed on whole or answered with *)
(* an error, inside its limits, and a stream is not held up (Buffer,       *)
(* bufferedResponseWriter, deadlineResponseWriter).                        *)
BufferingInvisible == WholeOrError /\ BufferBounded /\ PlainStreamsFlow

(* The deadline bounds the whole exchange, streaming of the body included: *)
(* one with a target that stalls is over in the end, unless it is a stream *)
(* or a tunnel.                                                            *)
DeadlineEnds ==
    timer = "armed" /\ phase \in {"waiting", "body"} ~> phase = "over" \/ timer = "stopped"
=============================================================================
