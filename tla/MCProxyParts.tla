----------------------------- MODULE MCProxyParts -----------------------------
(* Small instances of the parts in ProxyParts for TLC. *)
EXTENDS ProxyParts, TLC

(* The request gates: an IPv4 client and two of one network, one of them    *)
(* behind declared proxies; a denied one; one past the chain's limit.       *)
CONSTANTS a1, a2, a3, a5, a6, a7, p1, n1, n3, n5, n6, n7

MCAddress == {a1, a2, a3, a5, a6, a7}
MCTrusted == {p1}
MCKeyOf ==
    (a1 :> n1) @@ (a2 :> n1) @@ (a3 :> n3) @@ (a5 :> n5) @@ (a6 :> n6) @@ (a7 :> n7)

Request(c, hops, sent) ==
    [client |-> c, hops |-> hops, sent |-> sent, probe |-> FALSE,
     badAgent |-> FALSE, answered |-> FALSE, password |-> TRUE]

MCService == {
    [allowed |-> {a1, a3, a5},
     requests |-> {
        Request(a2, <<p1>>, <<a5>>), Request(a3, <<p1>>, <<a1>>),
        Request(a5, <<p1, p1>>, <<Garbage>>), Request(a1, <<p1, p1, p1>>, <<a1>>),
        [Request(a1, <<>>, <<>>) EXCEPT !.answered = TRUE],
        [Request(a5, <<p1>>, <<>>) EXCEPT !.badAgent = TRUE],
        [Request(a3, <<>>, <<>>) EXCEPT !.probe = TRUE]}],
    [allowed |-> {},
     requests |-> {
        Request(a1, <<>>, <<a5>>), Request(a2, <<p1>>, <<a5>>), Request(a7, <<>>, <<>>),
        [Request(a5, <<>>, <<>>) EXCEPT !.password = FALSE],
        Request(a6, <<p1, p1, p1>>, <<a1>>)}]}

(* The savers of the state file. *)
CONSTANTS s1, s2, stop

(* Deployments: weights 1, 2 and 3, a plain rotation, and two writers with  *)
(* a replica, pinned sessions and retries.                                  *)
CONSTANTS c1

Writer(weight) == [readOnly |-> FALSE, weight |-> weight]
Replica == [readOnly |-> TRUE, weight |-> 1]
Deployed(targets) == [targets |-> targets, affinity |-> 0, pins |-> FALSE, retries |-> FALSE]

MCDeployment == {
    Deployed(<<Writer(1), Writer(2), Writer(3)>>),
    Deployed(<<Writer(1), Writer(1), Writer(1)>>),
    [targets |-> <<Writer(1), Writer(1), Replica>>, affinity |-> 2, pins |-> TRUE, retries |-> TRUE]}

(* Exchanges under every combination of buffering and deadline, with and    *)
(* without limits.                                                          *)
MCOption ==
    {o \in [bufferRequests : BOOLEAN, bufferResponses : BOOLEAN, deadline : BOOLEAN,
            streamRequest : BOOLEAN, hints : BOOLEAN, maxMem : {2},
            maxRequest : {0, 3}, maxResponse : {0, 3}] :
        o.maxRequest = o.maxResponse /\ (o.streamRequest => o.deadline)}

(* Two hosts under one wildcard, services at roots and on paths. *)
CONSTANTS h1, h2, wild, v1, v2, v3

MCWildcard == (h1 :> wild) @@ (h2 :> wild) @@ (wild :> AnyHost) @@ (AnyHost :> AnyHost)
MCPath == {<<>>, <<"x">>, <<"x", "y">>, <<"z">>}
Serves(hosts, prefixes, tls) == [hosts |-> hosts, prefixes |-> prefixes, tls |-> tls]

MCOptions == {
    Serves(<<h1>>, {<<>>}, TRUE), Serves(<<h1>>, {<<>>}, FALSE),
    Serves(<<h1, h2>>, {<<"x">>}, TRUE), Serves(<<h2>>, {<<>>, <<"x", "y">>}, TRUE),
    Serves(<<wild>>, {<<>>}, TRUE), Serves(<<AnyHost>>, {<<>>}, FALSE),
    Serves(<<AnyHost>>, {<<"x">>}, FALSE), Serves(<<wild, h1>>, {<<"x">>, <<"x", "y">>}, FALSE)}

(* Cached resources. *)
CONSTANTS gzip, br, odd, ae, star

Get(accept, cookie, codings, rest) ==
    [method |-> "GET", authorized |-> FALSE, partial |-> FALSE, noStore |-> FALSE,
     reload |-> FALSE, fields |-> [accept |-> accept, cookie |-> cookie],
     codings |-> codings, rest |-> rest]

Page(vary, form) ==
    [cacheable |-> TRUE, public |-> TRUE, private |-> FALSE, noStore |-> FALSE,
     noCache |-> FALSE, mustRevalidate |-> FALSE, maxAge |-> 1, sMaxAge |-> None,
     stale |-> None, age |-> None, setCookie |-> FALSE, contentRange |-> FALSE,
     eventStream |-> FALSE, tooLarge |-> FALSE, vary |-> vary, coding |-> form]

Caches(headers, variants, ttl, cookies) ==
    [varyHeaders |-> headers, maxVariants |-> variants, maxTTL |-> ttl, allowSetCookie |-> cookies]

Html == Get("html", "c1", gzip :> "yes", "unsaid")
Json == Get("json", "c2", <<>>, "unsaid")
Star == Get("json", "c1", (br :> "yes") @@ (gzip :> "no"), "yes")

(* A resource that now negotiates and now does not. *)
Negotiated ==
    [until |-> 0, options |-> Caches({}, 2, 0, FALSE),
     requests |-> {Html, Json, Star, [Html EXCEPT !.reload = TRUE]},
     responses |-> {Page({}, Identity), Page({"accept"}, Identity), Page({"accept", ae}, gzip)}]

(* A target that encodes without saying so. *)
Encoding ==
    [until |-> 0, options |-> Caches({}, 1, 0, FALSE),
     requests |-> {Html, Json, Star, Get("html", "c2", (br :> "yes") @@ (gzip :> "yes"), "unsaid")},
     responses |-> {Page({}, Identity), Page({}, gzip), Page({}, odd)}]

(* Automatic variants off. *)
Keyed ==
    [until |-> 2, options |-> Caches({"accept"}, -1, 2, TRUE),
     requests |-> {Html, Json, [Html EXCEPT !.authorized = TRUE], [Json EXCEPT !.method = "HEAD"]},
     responses |-> {Page({"accept"}, Identity), Page({"accept", ae}, gzip), Page({star}, Identity),
                    [Page({}, Identity) EXCEPT !.maxAge = 3, !.setCookie = TRUE],
                    [Page({ae}, Identity) EXCEPT !.noStore = TRUE]}]

(* Responses that must not be shared. *)
Withheld ==
    [until |-> 1, options |-> Caches({ae}, 1, 0, FALSE),
     requests |-> {Html, Json, [Json EXCEPT !.partial = TRUE]},
     responses |-> {Page({"cookie"}, Identity), Page({"accept"}, gzip), Page({}, odd),
                    [Page({}, Identity) EXCEPT !.private = TRUE],
                    [Page({}, Identity) EXCEPT !.public = FALSE],
                    [Page({}, Identity) EXCEPT !.tooLarge = TRUE],
                    [Page({}, Identity) EXCEPT !.setCookie = TRUE]}]

(* Lifetimes, some too long for a duration: max-age, s-maxage, the stale    *)
(* window, the age, must-revalidate.                                        *)
Lifetimes ==
    [until |-> 7, options |-> Caches({}, 2, 0, FALSE),
     requests |-> {Html, [Html EXCEPT !.noStore = TRUE]},
     responses |->
        {[Page({}, Identity) EXCEPT !.maxAge = n[1], !.sMaxAge = n[2], !.stale = n[3],
                                    !.age = n[4], !.mustRevalidate = n[5]] :
            n \in {<<1, None, None, None, FALSE>>, <<1, 2, 1, 1, FALSE>>,
                   <<None, 1, 1, None, TRUE>>, <<6, None, None, None, FALSE>>,
                   <<11, None, 1, None, FALSE>>, <<3, 0, None, None, FALSE>>,
                   <<3, None, 3, 1, FALSE>>, <<1, None, 11, 1, FALSE>>}}]

MCSetting == {Negotiated, Encoding, Keyed, Withheld, Lifetimes}

(* Answers to encode: by what the client takes, then by what they are. *)
Answers(qualities, stars, heads, statuses, types, lengths) ==
    [codings : {<<br, gzip>>}, min : {2}, head : heads, qualities : qualities, star : stars,
     hints : BOOLEAN, status : statuses, type : types, sniffed : {"text", "image"},
     length : lengths, coded : {FALSE}, ranged : {FALSE}, etag : {"strong"}]

Taken == {<<>>, gzip :> 1, (gzip :> 1) @@ (br :> 2), (gzip :> 1) @@ (br :> 0), gzip :> 0}

MCExchange ==
    Answers(Taken, {0, 1}, {FALSE}, {404}, {"text"}, {-1, 3})
    \cup Answers({gzip :> 1}, {0}, BOOLEAN, {200, 304}, {"none", "text", "image", "stream"}, {-1, 0, 1, 2})
    \cup {[e EXCEPT !.coded = TRUE, !.etag = "none"] :
            e \in Answers({gzip :> 1}, {0}, {FALSE}, {200}, {"text"}, {-1})}
    \cup {[e EXCEPT !.ranged = TRUE] :
            e \in Answers({gzip :> 1}, {0}, {FALSE}, {200}, {"text"}, {2})}

(* Requests at the pause gate. *)
CONSTANTS r1, r2
=============================================================================
