----------------------------- MODULE Screening -----------------------------
(***************************************************************************)
(* What proxy_handler decides before it forwards a request, on a server    *)
(* started as Startup says: one action per check, in the order of the      *)
(* code, each with its early return (proxy.rs, config.rs, target.rs).      *)
(*                                                                         *)
(* The checks read the configuration and the request, and nothing that     *)
(* another request could change, except the budget, whose verdict is left  *)
(* open (TokenBucket and Relay model it); one request is enough.           *)
(*                                                                         *)
(* A request says which server is meant and how its URL is spelled: labels *)
(* or an IPv6 address, a number of trailing dots, the port if it is        *)
(* written.  The handler sees the text only and reads it with Target.  A   *)
(* header that is absent is empty; one that is not visible ASCII is        *)
(* Unreadable.                                                             *)
(***************************************************************************)
EXTENDS Startup, Target

CONSTANTS
    Requests,       \* the requests a client may send
    NoRequest       \* stands for the request before one arrives

\* A server a client may mean, in one of its spellings.  An IPv6 address has
\* colons and no dot; no label of a name is a mark of punctuation.
Spelled(meant) ==
    /\ meant \in [scheme : STRING, userinfo : BOOLEAN, ipv6 : BOOLEAN,
                  labels : Seq(Tokens), dots : Nat, port : Nat \cup {NoPort}]
    /\ meant.port # NoPort => meant.port \in DOMAIN Numeral
    /\ IF meant.ipv6
       THEN /\ \E k \in 1..Len(meant.labels) : meant.labels[k] = ":"
            /\ \A k \in 1..Len(meant.labels) : meant.labels[k] \notin {".", "[", "]"}
       ELSE \A k \in 1..Len(meant.labels) : meant.labels[k] \in Labels

\* A host entry that is a name or an IPv4 address.
IsEntry(entry) ==
    /\ entry \in [suffix : BOOLEAN, labels : Seq(Tokens)]
    /\ \A k \in 1..Len(entry.labels) : entry.labels[k] \in Labels

ASSUME ScreeningAssumption ==
    /\ Blank \notin Nat \cup {NoPort}
    /\ \A r \in Requests : Spelled(r.target) /\ r.origin # Blank
    /\ \A e \in Environments : e.targets # Unreadable =>
           \A t \in e.targets : t # Blank => IsEntry(t)

VARIABLES
    req,            \* the request
    check,          \* the check that comes next
    target,         \* what parse_target returned
    answer,         \* what the client is answered; "forwarded" is to go on
    charged         \* the request took a token from the rate limiter

screening == <<req, check, target, answer, charged>>
vars == <<startup, screening>>

Checks == {"idle", "size", "path", "token", "origin", "method", "preflight", "parse",
           "allowlist", "rate", "egress", "done"}

Answers == {"none", "uri_too_long", "healthz", "index", "unauthorized",
            "origin_blocked", "method_not_allowed", "preflight", "invalid_target",
            "target_blocked", "rate_limited", "budget_exceeded", "forwarded"}

TypeOK ==
    /\ env \in Environments
    /\ stage \in Stages
    /\ config.auth_token \in {""} \cup {e.token : e \in Environments}
    /\ config.public_mode \in BOOLEAN
    /\ config.allow_ports \subseteq ValidPorts
    /\ Blank \notin config.allow_targets /\ Blank \notin config.allow_origins
    /\ req \in Requests \cup {NoRequest}
    /\ check \in Checks
    /\ target # Invalid => target.port \in ValidPorts
    /\ answer \in Answers
    /\ charged \in BOOLEAN

Init ==
    /\ StartupInit
    /\ req = NoRequest
    /\ check = "idle"
    /\ target = Invalid
    /\ answer = "none"
    /\ charged = FALSE

GoOn(c) ==
    /\ check' = c
    /\ UNCHANGED <<startup, req, target, answer, charged>>

Return(a) ==
    /\ check' = "done"
    /\ answer' = a
    /\ UNCHANGED <<startup, req, target, charged>>

\* The handler is at check c, of a server that serves.
At(c) == stage = "serving" /\ check = c

-----------------------------------------------------------------------------
(* What the target comes to                                                *)

\* How the client writes what it means.
Written(meant) ==
    [scheme    |-> meant.scheme,
     userinfo  |-> meant.userinfo,
     authority |-> (IF meant.ipv6 THEN <<"[">> \o meant.labels \o <<"]">>
                                  ELSE Dotted(meant.labels))
                   \o [k \in 1..meant.dots |-> "."]
                   \o (IF meant.port = NoPort THEN <<>> ELSE <<":", Numeral[meant.port]>>)]

\* ".x.com" stands for x.com and every host below it, "x.com" for itself.
Matches(entry, host) ==
    \/ host = Dotted(entry.labels)
    \/ /\ entry.suffix
       /\ \E k \in 1..Len(host) :
              SubSeq(host, k, Len(host)) = <<".">> \o Dotted(entry.labels)

TargetAllowed(host) ==
    config.allow_targets = {} \/ \E e \in config.allow_targets : Matches(e, host)

PortAllowed(p) == config.allow_ports = {} \/ p \in config.allow_ports

-----------------------------------------------------------------------------
(* Before the access control                                               *)

Arrive ==
    /\ At("idle")
    /\ req' \in Requests
    /\ check' = "size"
    /\ UNCHANGED <<startup, target, answer, charged>>

CheckSize ==
    /\ At("size")
    /\ IF req.uri = "long" THEN Return("uri_too_long") ELSE GoOn("path")

\* Mutated: the target is parsed before the token is checked.
CheckPath_ParsesEarly ==
    /\ At("path")
    /\ CASE req.uri = "healthz" -> Return("healthz")
         [] req.uri = "index" -> Return("index")
         [] OTHER -> IF Parse(Written(req.target)) # Invalid
                        THEN GoOn("token") ELSE Return("invalid_target")

CheckPath ==
    /\ At("path")
    /\ CASE req.uri = "healthz" -> Return("healthz")
         [] req.uri = "index" -> Return("index")
         [] OTHER -> GoOn("token")

-----------------------------------------------------------------------------
(* Access control                                                          *)

CheckToken ==
    /\ At("token")
    /\ IF config.auth_token # "" /\ req.token # config.auth_token
       THEN Return("unauthorized")
       ELSE GoOn("origin")

OriginAllowed(o) == config.allow_origins = {} \/ o \in config.allow_origins

\* A request without an Origin header, or with an Unreadable one, is not held up.
CheckOrigin ==
    /\ At("origin")
    /\ IF req.origin \notin {"", Unreadable} /\ ~OriginAllowed(req.origin)
       THEN Return("origin_blocked")
       ELSE GoOn("method")

\* Mutated: the rate limiter is asked before a preflight is told apart.
CheckMethod_Charges ==
    /\ At("method")
    /\ check' = IF req.method = "OPTIONS" THEN "preflight" ELSE "parse"
    /\ charged' = (config.budget # "none")
    /\ UNCHANGED <<startup, req, target, answer>>

CheckMethod ==
    /\ At("method")
    /\ CASE req.method = "OPTIONS" -> GoOn("preflight")
         [] req.method \in {"GET", "HEAD", "POST", "PUT", "PATCH", "DELETE"} -> GoOn("parse")
         [] OTHER -> Return("method_not_allowed")

\* build_preflight_headers may refuse what the preflight asks for with 400.
AnswerPreflight ==
    /\ At("preflight")
    /\ Return("preflight") \/ Return("invalid_target")

-----------------------------------------------------------------------------
(* The target                                                              *)

ParseTarget ==
    /\ At("parse")
    /\ LET parsed == Parse(Written(req.target))
       IN  IF parsed = Invalid
           THEN Return("invalid_target")
           ELSE /\ target' = parsed
                /\ check' = "allowlist"
                /\ UNCHANGED <<startup, req, answer, charged>>

CheckAllowlist ==
    /\ At("allowlist")
    /\ IF TargetAllowed(target.host.text) /\ PortAllowed(target.port)
       THEN GoOn("rate")
       ELSE Return("target_blocked")

-----------------------------------------------------------------------------
(* Admission                                                               *)

CheckRate ==
    /\ At("rate")
    /\ \/ /\ check' = "egress"
          /\ charged' = (config.budget # "none")
          /\ UNCHANGED <<startup, req, target, answer>>
       \/ /\ config.budget # "none"
          /\ Return("rate_limited")

CheckEgress ==
    /\ At("egress")
    /\ \/ Return("forwarded")
       \/ config.budget # "none" /\ Return("budget_exceeded")

Handle ==
    \/ Arrive \/ CheckSize \/ CheckPath \/ CheckToken \/ CheckOrigin \/ CheckMethod
    \/ AnswerPreflight \/ ParseTarget \/ CheckAllowlist \/ CheckRate \/ CheckEgress

Next ==
    \/ Start /\ UNCHANGED screening
    \/ Handle

Spec == Init /\ [][Next]_vars

-----------------------------------------------------------------------------
(* Properties                                                              *)

\* The labels of the server that is meant: an address has its octets for labels,
\* in whatever notation it was written.
HostLabels(meant) ==
    IF ~meant.ipv6 /\ meant.dots <= 1 /\ IsAddress(Dotted(meant.labels))
    THEN Octets(Dotted(meant.labels))
    ELSE meant.labels

\* The host that is meant is the entry's, or below it.  An entry that is nothing
\* but a dot names no host.
Names(entry, meant) ==
    LET labels == HostLabels(meant)
        n == Len(labels) - Len(entry.labels)
    IN  /\ ~meant.ipv6
        /\ entry.labels # <<>>
        /\ n = 0 \/ (n > 0 /\ entry.suffix)
        /\ entry.labels = SubSeq(labels, n + 1, Len(labels))

\* The operator wrote something other than blanks into a list, as text.
IsWritten(list) == list # Unreadable /\ \E item \in list : item # Blank

Listed(meant) ==
    /\ env.targets # Unreadable
    /\ \E e \in env.targets : e # Blank /\ Names(e, meant)

HasToken == env.token \notin {"", Unreadable} /\ req.token = env.token

\* The request meets each restriction that stands in the environment as text; an
\* origin is one that the request names as text.
TokenMet == env.token \notin {"", Unreadable} => HasToken

OriginMet ==
    IsWritten(env.origins) /\ req.origin \notin {"", Unreadable} => req.origin \in env.origins

HostMet == IsWritten(env.targets) => Listed(req.target)

PortMet ==
    IsWritten(env.ports) =>
        \/ req.target.port \in env.ports
        \/ /\ req.target.port = NoPort
           /\ \/ req.target.scheme = "https" /\ 443 \in env.ports
              \/ req.target.scheme = "http" /\ 80 \in env.ports

Meets == TokenMet /\ OriginMet /\ HostMet /\ PortMet

\* No restriction that can be read gets lost between the environment and the
\* decision: what is forwarded meets every one of them, whatever else was written
\* beside it (from_env to the allowlists of proxy_handler).
RestrictionsHold == answer = "forwarded" => Meets

\* And nobody is turned away who meets them all: an unauthorized or a blocked
\* answer is only given to a request that breaks a written restriction.
RefusalsAreDeserved ==
    answer \in {"unauthorized", "origin_blocked", "target_blocked"} => ~Meets

\* Whoever lacks the token learns nothing from the answer about targets,
\* origins, methods or the budget: each of those checks comes later.
StrangersLearnNothing ==
    check = "done" /\ env.token \notin {"", Unreadable} /\ ~HasToken =>
        answer \in {"uri_too_long", "healthz", "index", "unauthorized"}

\* The rate limiter is only charged for requests that are then forwarded, or
\* that the egress budget alone holds back: no preflight and no request refused
\* for any other reason takes a token (check_admission comes last).
OnlyForwardsAreCharged == charged => answer \in {"none", "forwarded", "budget_exceeded"}

\* An open relay on the network is always on purpose: on an address that is
\* not loopback, without PUBLIC_MODE confirmed, a request is forwarded only
\* with the token or to a listed target, and a variable that cannot be read
\* confirms nothing (should_gate_startup with the checks).
OpenOnlyOnPurpose ==
    /\ answer = "forwarded"
    /\ env.listen \notin Loopback
    /\ env.public \notin {"1", "true", "yes", "on"}
    => HasToken \/ Listed(req.target)

\* The same server without the liberties a spelling has.
Plainly(meant) ==
    [meant EXCEPT !.dots = 0,
                  !.labels = HostLabels(meant),
                  !.port = IF @ = DefaultPort(meant.scheme) THEN NoPort ELSE @]

\* A number behind two dots or more, which the url crate takes for a name, and
\* which is an address, or nothing, once parse_host has taken the dots away.
HiddenNumber(meant) ==
    /\ ~meant.ipv6
    /\ meant.dots > 1
    /\ EndsInNumber(Dotted(meant.labels))
    /\ ~IsIpv4(Dotted(meant.labels))

\* A server has one name: however the client spelled it, what goes into the Host
\* header, the loop check and the base of the next Location is one text, and
\* reading that text gives back the target that the allowlists have judged, so
\* a relative Location stays with the server (authority, full_url, parse_host).
\* Hidden numbers are the exception: see NumberHostsRefused.
OneAddressee ==
    answer = "forwarded" /\ ~HiddenNumber(req.target) =>
        /\ FullUrl(target) = Written(Plainly(req.target))
        /\ Parse(FullUrl(target)) = target

\* parse_host says that an IPv4 address in another notation is left to the
\* standard parser, and refused where that does not accept it; then no name is
\* forwarded that ends in a number (refuted by TLC;
\* README, disagreements).
NumberHostsRefused ==
    answer = "forwarded" /\ target.host.kind = "domain" => ~EndsInNumber(target.host.text)

\* proxy_handler says that an Origin that is there and is not on the list is
\* refused; an Unreadable one is on no list (refuted by TLC;
\* README, disagreements).
UnreadableOriginRefused ==
    answer = "forwarded" /\ IsWritten(env.origins) => req.origin # Unreadable

\* README.md says that CONNECT and TRACE are refused with 405; then they are
\* not welcomed either (refuted by TLC;
\* README, disagreements).
OtherMethodsRefused ==
    check = "done" /\ req.method \in {"CONNECT", "TRACE"} =>
        answer \notin {"healthz", "index", "preflight", "forwarded"}
=============================================================================
