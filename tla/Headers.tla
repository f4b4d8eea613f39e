------------------------------ MODULE Headers ------------------------------
(***************************************************************************)
(* The headers of one request and of its reply: what clean_request_headers *)
(* lets out on every hop of the redirect loop, and what the client is sent *)
(* back on each way a reply is built (headers.rs, proxy.rs, error.rs).     *)
(*                                                                         *)
(* A message is the set of values of each header name; a name without      *)
(* values is absent.  The Connection header is kept apart, as the names it *)
(* nominates: those of its values that to_str can read, and those of a     *)
(* value it cannot, as one byte of it is not visible ASCII.  Of the value  *)
(* of a header only who wrote it is kept, and of Content-Length that it    *)
(* announces a body that is not empty.                                     *)
(***************************************************************************)
EXTENDS Naturals, FiniteSets

CONSTANTS
    ClientNames, UpstreamNames,    \* bounds: the names either peer writes
    MaxNominated,                  \* bound: names nominated readably, and not
    Unreadable,                    \* bound: names nominated unreadably
    MaxHops                        \* redirects followed (the code: 10)

\* HOP_BY_HOP, of which "connection" itself is the field nominates.
HopByHop == {"keep-alive", "proxy-authenticate", "proxy-authorization", "te",
             "trailer", "transfer-encoding", "upgrade"}

\* REQUEST_STRIP
RequestStrip == {"host", "forwarded", "via", "x-forwarded-for", "x-forwarded-host",
                 "x-forwarded-proto", "x-forwarded-port", "x-real-ip", "cookie",
                 "x-proxy-request-id", "x-proxy-token"}

\* Names found by their prefix only: one of proxy-*, one of x-forwarded-*.
Prefixed == {"proxy-connection", "x-forwarded-client-cert"}

\* RESPONSE_STRIP
ResponseStrip == {"set-cookie", "access-control-allow-origin",
                  "access-control-allow-methods", "access-control-allow-headers",
                  "access-control-expose-headers", "access-control-allow-credentials",
                  "access-control-max-age", "server", "x-powered-by"}

\* Some of the names that no table mentions.
EndToEnd == {"authorization", "content-length", "content-type", "vary"}

Names == HopByHop \cup RequestStrip \cup Prefixed \cup ResponseStrip \cup EndToEnd

ASSUME BoundsAssumption ==
    /\ ClientNames \subseteq Names /\ UpstreamNames \subseteq Names
    /\ MaxNominated \in Nat /\ MaxHops \in Nat

\* Where requests go: two servers of different origins.
Targets == {"home", "away"}

Values == Targets \cup {"client", "upstream", "proxy", "length", "*", "listed",
                        "preflight", "Origin"}

Messages == [nominates : SUBSET Names, unreadable : SUBSET Names,
             field : [Names -> SUBSET Values]]

Blank == [nominates |-> {}, unreadable |-> {}, field |-> [n \in Names |-> {}]]

\* HeaderMap::insert and HeaderMap::append.
Insert(m, n, v) == [m EXCEPT !.field[n] = {v}]
Append(m, n, v) == [m EXCEPT !.field[n] = @ \cup {v}]
Remove(m, N) == [m EXCEPT !.field = [n \in Names |-> IF n \in N THEN {} ELSE @[n]]]

VARIABLES
    pc,          \* "local", "preflight", "send", "await" or "done"
    headers,     \* req_headers of forward_request
    chunked,     \* the client sends a body without announcing its length
    cors,        \* cors_origin of proxy_handler: "none" or "listed"
    target,      \* current_target
    hop,         \* redirects followed
    request,     \* the headers sent on this hop
    body,        \* the body sent on this hop: "none", "whole" or "empty"
    received,    \* the headers the upstream answered
    reply        \* the headers the client is sent

vars == <<pc, headers, chunked, cors, target, hop, request, body, received, reply>>

TypeOK ==
    /\ pc \in {"local", "preflight", "send", "await", "done"}
    /\ headers \in Messages
    /\ chunked \in BOOLEAN
    /\ cors \in {"none", "listed"}
    /\ target \in Targets
    /\ hop \in 0..MaxHops
    /\ request \in Messages
    /\ body \in {"none", "whole", "empty"}
    /\ received \in Messages
    /\ reply \in Messages

Few(Used) == {S \in SUBSET Used : Cardinality(S) <= MaxNominated}

\* What a peer may write: some names, and some nominations of either sort.
Written(Used, by) ==
    {[nominates |-> N, unreadable |-> U,
      field |-> [n \in Names |->
          IF n \notin W THEN {} ELSE IF n = "content-length" THEN {"length"} ELSE {by}]]
      : W \in SUBSET Used,
        N \in Few(Used), U \in Few(Used \cap Unreadable)}

Announced(m) == m.field["content-length"] # {}

Init ==
    /\ pc \in {"local", "preflight", "send"}
    /\ headers \in IF pc = "send" THEN Written(ClientNames, "client") ELSE {Blank}
    /\ chunked \in IF pc = "send" /\ ~Announced(headers) THEN BOOLEAN ELSE {FALSE}
    /\ cors \in IF pc = "local" THEN {"none"} ELSE {"none", "listed"}
    /\ target = "home"
    /\ hop = 0
    /\ request = Blank
    /\ body = "none"
    /\ received = Blank
    /\ reply = Blank

-----------------------------------------------------------------------------
(* Cleaning                                                                *)

\* Connection goes with all its values, what the readable ones nominate, and
\* what the tables name.  A value that to_str cannot read is skipped whole: what
\* it nominates stays.
Clean(m, Strip) ==
    [Remove(m, m.nominates \cup HopByHop \cup Strip)
        EXCEPT !.nominates = {}, !.unreadable = {}]

\* Mutated: Connection is dropped with the other hop-by-hop headers before
\* anybody has read the names it nominates.
CleanRequest_TablesOnly(m) == Clean([m EXCEPT !.nominates = {}], RequestStrip \cup Prefixed)

CleanRequest(m) == Clean(m, RequestStrip \cup Prefixed)

CleanResponse(m) == Clean(m, ResponseStrip)

\* Mutated: the proxy's Vary replaces the upstream's.
AddCors_Insert(m) ==
    Insert(Insert(Insert(m, "access-control-allow-origin", "*"),
                  "access-control-expose-headers", "proxy"),
           "vary", "preflight")

\* add_cors_headers
AddCors(m) ==
    Append(Insert(Insert(m, "access-control-allow-origin", "*"),
                  "access-control-expose-headers", "proxy"),
           "vary", "preflight")

\* apply_cors_origin
ApplyOrigin(m) ==
    IF cors = "listed"
    THEN Append(Insert(m, "access-control-allow-origin", "listed"), "vary", "Origin")
    ELSE m

-----------------------------------------------------------------------------
(* Replies of the proxy's own                                              *)

ErrorReply == AddCors(Insert(Insert(Blank, "content-type", "proxy"),
                             "x-proxy-request-id", "proxy"))

PreflightReply ==
    Insert(Insert(Insert(Insert(Insert(Blank,
        "access-control-allow-origin", "*"),
        "access-control-allow-methods", "proxy"),
        "access-control-allow-headers", "proxy"),
        "access-control-max-age", "proxy"),
        "vary", "preflight")

Reply(m) ==
    /\ pc' = "done"
    /\ reply' = m
    /\ UNCHANGED <<headers, chunked, cors, target, hop, request, body>>

\* The index page, the health check, and every refusal of the screening.
AnswerLocally ==
    /\ pc = "local"
    /\ \/ Reply(AddCors(Insert(Blank, "content-type", "proxy")))
       \/ Reply(ErrorReply)
    /\ UNCHANGED received

\* The preflight, also when its own headers are refused with 400.
AnswerPreflight ==
    /\ pc = "preflight"
    /\ \/ Reply(ApplyOrigin(PreflightReply))
       \/ Reply(ApplyOrigin(ErrorReply))
    /\ UNCHANGED received

-----------------------------------------------------------------------------
(* forward_request                                                         *)

\* Each hop starts again from the client's headers; the body went with the first.
Send ==
    /\ pc = "send"
    /\ pc' = "await"
    /\ request' = Insert(CleanRequest(headers), "host", target)
    /\ body' = IF hop = 0 /\ (chunked \/ Announced(headers)) THEN "whole" ELSE "empty"
    /\ UNCHANGED <<headers, chunked, cors, target, hop, received, reply>>

\* A redirect that handle_redirect lets through; Redirect models which.
Follow(t) ==
    /\ pc = "await"
    /\ hop < MaxHops
    /\ pc' = "send"
    /\ hop' = hop + 1
    /\ target' = t
    /\ headers' = IF t # target THEN Remove(headers, {"authorization"}) ELSE headers
    /\ UNCHANGED <<chunked, cors, request, body, received, reply>>

\* Mutated: the proxy writes its CORS headers and then cleans the response.
Relay_CleanLast ==
    /\ pc = "await"
    /\ received' \in Written(UpstreamNames, "upstream")
    /\ Reply(CleanResponse(ApplyOrigin(AddCors(received'))))

\* build_proxy_response, then apply_cors_origin in the handler.
Relay ==
    /\ pc = "await"
    /\ received' \in Written(UpstreamNames, "upstream")
    /\ Reply(ApplyOrigin(AddCors(CleanResponse(received'))))

\* forward_request returns an error.
Fail ==
    /\ pc \in {"send", "await"}
    /\ Reply(ErrorReply)
    /\ UNCHANGED received

Next ==
    \/ AnswerLocally \/ AnswerPreflight
    \/ Send \/ Relay \/ Fail
    \/ \E t \in Targets : Follow(t)

Spec == Init /\ [][Next]_vars

-----------------------------------------------------------------------------
(* Properties                                                              *)

\* On no hop does an upstream see what the client meant for the proxy or for
\* the last leg only: nothing of the tables, nothing found by prefix, nothing
\* that a readable value of Connection nominates, whatever stands beside it
\* (clean_request_headers; unreadable values: NominatedStaysBehind below).
\* Host, which is among them, comes back as the name of exactly the server the
\* request is sent to, also on a later hop (the insert after the cleaning).
PrivateStaysBehind ==
    /\ \A n \in Names \ {"host"} :
        request.field[n] # {} =>
            n \notin HopByHop \cup RequestStrip \cup Prefixed \cup headers.nominates
    /\ pc = "await" => request.field["host"] = {target}

\* All that Connection nominates.
Nominated(m) == m.nominates \cup m.unreadable

\* Whatever no table names and nobody nominated goes through with its value, in
\* both directions and on every hop; Authorization until it was taken out for
\* good.
RestGoesThrough ==
    /\ pc = "await" =>
        \A n \in EndToEnd \ Nominated(headers) :
            request.field[n] = headers.field[n]
    /\ pc = "done" =>
        \A n \in EndToEnd \ Nominated(received) :
            received.field[n] \subseteq reply.field[n]

\* The reply speaks of CORS with one voice, the proxy's: exactly one allowed
\* origin, never credentials, whatever the upstream wrote or nominated
\* (clean_response_headers before add_cors_headers).  When the reply echoes an
\* origin, Vary says so to caches (apply_cors_origin).
OneCorsVoice ==
    pc = "done" =>
        /\ \/ reply.field["access-control-allow-origin"] = {"*"}
           \/ /\ reply.field["access-control-allow-origin"] = {"listed"}
              /\ cors = "listed"
              /\ "Origin" \in reply.field["vary"]
        /\ reply.field["access-control-allow-credentials"] = {}
        /\ reply.field["access-control-expose-headers"] \subseteq {"proxy"}
        /\ "preflight" \in reply.field["vary"]

\* proxy.rs says that the request after a redirect has an empty body; then it
\* must not announce one (refuted by TLC;
\* README, disagreements).
FramingHonest == pc = "await" /\ body = "empty" => ~Announced(request)

\* DESIGN.md says that what Connection nominates is removed, whatever the value
\* that nominates it looks like (refuted by TLC;
\* README, disagreements).
NominatedStaysBehind ==
    \A n \in Names \ {"host"} : request.field[n] # {} => n \notin Nominated(headers)
=============================================================================
