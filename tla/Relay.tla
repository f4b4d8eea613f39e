------------------------------- MODULE Relay -------------------------------
(***************************************************************************)
(* The life of a request in any-proxy: the concurrency middleware          *)
(* (concurrency.rs), the handler and its redirect loop (proxy.rs), the     *)
(* admission check (budget.rs), the response body that carries the permit, *)
(* and the detached tasks that drive the upstream connections.             *)
(*                                                                         *)
(* Every request runs in its own task, so actions of different requests    *)
(* interleave at every step.  Within one request a step ends where the     *)
(* code awaits or touches state that another task can change; the client   *)
(* may go away at every await, which drops the handler's future or the     *)
(* response body and with it whatever they own.                            *)
(*                                                                         *)
(* Abstractions.  A frame counts one unit of egress.  What the screening   *)
(* part of the handler decides depends on headers that no other task can   *)
(* change, so it is a constant of the request (kind).  The rate limiter's  *)
(* verdict depends on time and is left open here; TokenBucket models it.   *)
(***************************************************************************)
EXTENDS Integers, FiniteSets

CONSTANTS
    Requests,          \* the incoming requests
    MaxConcurrent,     \* MAX_CONCURRENT_REQUESTS
    MaxEgress,         \* MAX_EGRESS_BYTES, in frames
    MaxHops,           \* redirects followed per request (the code: 10)
    MaxFrames          \* bound of the model: frames counted in a behaviour

ASSUME RequestsFinite == IsFiniteSet(Requests)
ASSUME LimitsAssumption ==
    /\ MaxConcurrent \in Nat \ {0}
    /\ MaxEgress \in Nat
    /\ MaxHops \in Nat
    /\ MaxFrames \in Nat

Hops == 0..MaxHops

(***************************************************************************)
(* "healthz": the path is /healthz, with or without a query; such a        *)
(*   request is answered by the proxy itself (a query makes it an invalid  *)
(*   target).  "local": everything else the proxy answers itself: the      *)
(*   index page, a preflight, and each refusal of the screening.           *)
(* "proxy": the screening lets it through to the admission check.          *)
(***************************************************************************)
Kinds == {"healthz", "local", "proxy"}

Answers == {"none", "local", "overloaded", "rate_limited", "budget_exceeded",
            "connect_failed", "upstream_failed", "relayed"}

(***************************************************************************)
(* Where a request is: "new" before the middleware sees it; "screen",      *)
(* "rate" and "egress" inside synchronous code of the handler; "connect"   *)
(* and "send" at the two awaits of the redirect loop; "stream" while the   *)
(* upstream body is relayed; "reply" while a body of the proxy's own is    *)
(* written; "gone" when the response body, or the handler, was dropped.    *)
(***************************************************************************)
Places == {"new", "screen", "rate", "egress", "connect", "send", "stream",
           "reply", "gone"}

VARIABLES
    kind,        \* what kind of request it is
    pc,          \* where each request is
    available,   \* free permits of the Semaphore
    permits,     \* requests whose handler or body owns a permit
    hop,         \* redirects followed so far
    answer,      \* what the client was, or is being, answered
    conns,       \* <<r, h>>: the spawned task of r's connection h still runs
    upload,      \* requests whose body has frames left to send upstream
    egress,      \* Budget::egress_used
    frames       \* frames counted so far (bounds the model)

vars == <<kind, pc, available, permits, hop, answer, conns, upload, egress, frames>>

TypeOK ==
    /\ kind \in [Requests -> Kinds]
    /\ pc \in [Requests -> Places]
    /\ available \in 0..MaxConcurrent
    /\ permits \in SUBSET Requests
    /\ hop \in [Requests -> Hops]
    /\ answer \in [Requests -> Answers]
    /\ conns \in SUBSET (Requests \X Hops)
    /\ upload \in SUBSET Requests
    /\ egress \in Nat
    /\ frames \in Nat

Init ==
    /\ kind \in [Requests -> Kinds]
    /\ pc = [r \in Requests |-> "new"]
    /\ available = MaxConcurrent
    /\ permits = {}
    /\ hop = [r \in Requests |-> 0]
    /\ answer = [r \in Requests |-> "none"]
    /\ conns = {}
    /\ upload \in SUBSET {r \in Requests : kind[r] = "proxy"}
    /\ egress = 0
    /\ frames = 0

-----------------------------------------------------------------------------
(* Helpers: where a request goes next, and who gives its permit back.      *)

MoveTo(r, place) == pc' = [pc EXCEPT ![r] = place]

ReplyWith(r, a) ==
    /\ MoveTo(r, "reply")
    /\ answer' = [answer EXCEPT ![r] = a]

\* The owner of the permit (the handler's future, or GuardedBody) is dropped.
Drop(r) ==
    /\ MoveTo(r, "gone")
    /\ permits' = permits \ {r}
    /\ available' = IF r \in permits THEN available + 1 ELSE available

\* IdleTimeoutBody hands a data frame on and adds its length to the budget.
CountFrame ==
    /\ frames < MaxFrames
    /\ frames' = frames + 1
    /\ egress' = egress + 1

-----------------------------------------------------------------------------
(* limit_concurrency                                                       *)

\* /healthz goes on without a permit.
Bypass(r) ==
    /\ pc[r] = "new"
    /\ kind[r] = "healthz"
    /\ MoveTo(r, "screen")
    /\ UNCHANGED <<kind, available, permits, hop, answer, conns, upload, egress, frames>>

\* try_acquire_owned succeeds.
Acquire(r) ==
    /\ pc[r] = "new"
    /\ kind[r] # "healthz"
    /\ available > 0
    /\ available' = available - 1
    /\ permits' = permits \cup {r}
    /\ MoveTo(r, "screen")
    /\ UNCHANGED <<kind, hop, answer, conns, upload, egress, frames>>

\* Mutated: the last permit is never given out.
Overload_Reserve(r) ==
    /\ pc[r] = "new"
    /\ kind[r] # "healthz"
    /\ available <= 1
    /\ ReplyWith(r, "overloaded")
    /\ UNCHANGED <<kind, available, permits, hop, conns, upload, egress, frames>>

\* try_acquire_owned fails: 503 at once, nothing is queued.
Overload(r) ==
    /\ pc[r] = "new"
    /\ kind[r] # "healthz"
    /\ available = 0
    /\ ReplyWith(r, "overloaded")
    /\ UNCHANGED <<kind, available, permits, hop, conns, upload, egress, frames>>

-----------------------------------------------------------------------------
(* proxy_handler up to the admission check                                 *)

ScreenPass(r) ==
    /\ pc[r] = "screen"
    /\ kind[r] = "proxy"
    /\ MoveTo(r, "rate")
    /\ UNCHANGED <<kind, available, permits, hop, answer, conns, upload, egress, frames>>

ScreenReply(r) ==
    /\ pc[r] = "screen"
    /\ kind[r] # "proxy"
    /\ ReplyWith(r, "local")
    /\ UNCHANGED <<kind, available, permits, hop, conns, upload, egress, frames>>

\* check_admission, first half: the token bucket, under its own lock.
RateAllow(r) ==
    /\ pc[r] = "rate"
    /\ MoveTo(r, "egress")
    /\ UNCHANGED <<kind, available, permits, hop, answer, conns, upload, egress, frames>>

\* Mutated: the refusal is recorded but the handler does not return.
RateLimit_NoReturn(r) ==
    /\ pc[r] = "rate"
    /\ MoveTo(r, "egress")
    /\ answer' = [answer EXCEPT ![r] = "rate_limited"]
    /\ UNCHANGED <<kind, available, permits, hop, conns, upload, egress, frames>>

RateLimit(r) ==
    /\ pc[r] = "rate"
    /\ ReplyWith(r, "rate_limited")
    /\ UNCHANGED <<kind, available, permits, hop, conns, upload, egress, frames>>

\* Mutated: the budget is compared with the wrong strictness.
BudgetAllow_OffByOne(r) ==
    /\ pc[r] = "egress"
    /\ egress <= MaxEgress
    /\ MoveTo(r, "connect")
    /\ UNCHANGED <<kind, available, permits, hop, answer, conns, upload, egress, frames>>

\* check_admission, second half: one atomic load of egress_used.
BudgetAllow(r) ==
    /\ pc[r] = "egress"
    /\ egress < MaxEgress
    /\ MoveTo(r, "connect")
    /\ UNCHANGED <<kind, available, permits, hop, answer, conns, upload, egress, frames>>

BudgetExceed(r) ==
    /\ pc[r] = "egress"
    /\ egress >= MaxEgress
    /\ ReplyWith(r, "budget_exceeded")
    /\ UNCHANGED <<kind, available, permits, hop, conns, upload, egress, frames>>

-----------------------------------------------------------------------------
(* forward_request                                                         *)

\* Connector::connect and the HTTP handshake succeed: the task that drives
\* the connection is spawned and detached.
Connect(r) ==
    /\ pc[r] = "connect"
    /\ conns' = conns \cup {<<r, hop[r]>>}
    /\ MoveTo(r, "send")
    /\ UNCHANGED <<kind, available, permits, hop, answer, upload, egress, frames>>

ConnectFail(r) ==
    /\ pc[r] = "connect"
    /\ ReplyWith(r, "connect_failed")
    /\ UNCHANGED <<kind, available, permits, hop, conns, upload, egress, frames>>

\* Mutated: the permit is released when the handler returns, as tower's layer does.
Respond_TowerLimit(r) ==
    /\ pc[r] = "send"
    /\ <<r, hop[r]>> \in conns
    /\ MoveTo(r, "stream")
    /\ answer' = [answer EXCEPT ![r] = "relayed"]
    /\ permits' = permits \ {r}
    /\ available' = available + 1
    /\ UNCHANGED <<kind, hop, conns, upload, egress, frames>>

\* The upstream's headers arrive and the response is returned to the client.
Respond(r) ==
    /\ pc[r] = "send"
    /\ <<r, hop[r]>> \in conns
    /\ MoveTo(r, "stream")
    /\ answer' = [answer EXCEPT ![r] = "relayed"]
    /\ UNCHANGED <<kind, available, permits, hop, conns, upload, egress, frames>>

\* A redirect is followed: the loop drops its end of the old connection, whose
\* task ends some time later, and connects again.
Redirect(r) ==
    /\ pc[r] = "send"
    /\ <<r, hop[r]>> \in conns
    /\ hop[r] < MaxHops
    /\ hop' = [hop EXCEPT ![r] = @ + 1]
    /\ MoveTo(r, "connect")
    /\ UNCHANGED <<kind, available, permits, answer, conns, upload, egress, frames>>

\* Mutated: without the timeout only a broken connection ends the wait.
SendFail_NoTimeout(r) ==
    /\ pc[r] = "send"
    /\ <<r, hop[r]>> \notin conns
    /\ ReplyWith(r, "upstream_failed")
    /\ UNCHANGED <<kind, available, permits, hop, conns, upload, egress, frames>>

\* No headers within UPSTREAM_HEADERS_TIMEOUT, a broken connection, or a
\* redirect that handle_redirect refuses.
SendFail(r) ==
    /\ pc[r] = "send"
    /\ ReplyWith(r, "upstream_failed")
    /\ UNCHANGED <<kind, available, permits, hop, conns, upload, egress, frames>>

-----------------------------------------------------------------------------
(* The response body                                                       *)

\* A frame of the upstream body is relayed.
Frame(r) ==
    /\ pc[r] = "stream"
    /\ <<r, hop[r]>> \in conns
    /\ CountFrame
    /\ UNCHANGED <<kind, pc, available, permits, hop, answer, conns, upload>>

\* The body is read to its end, or ends with an error (idle timeout, upstream
\* failure), or was a local body; the server drops it.
BodyEnd(r) ==
    /\ pc[r] \in {"stream", "reply"}
    /\ Drop(r)
    /\ UNCHANGED <<kind, hop, answer, conns, upload, egress, frames>>

\* Mutated: a handler that is dropped half way forgets its permit.
Disconnect_Leak(r) ==
    /\ pc[r] \in {"connect", "send", "stream", "reply"}
    /\ MoveTo(r, "gone")
    /\ UNCHANGED <<kind, available, permits, hop, answer, conns, upload, egress, frames>>

\* The client goes away at an await of the handler or during the response.
Disconnect(r) ==
    /\ pc[r] \in {"connect", "send", "stream", "reply"}
    /\ Drop(r)
    /\ UNCHANGED <<kind, hop, answer, conns, upload, egress, frames>>

-----------------------------------------------------------------------------
(* The detached connection tasks                                           *)

\* The task of the first connection sends a frame of the request body.
UploadFrame(r) ==
    /\ r \in upload
    /\ <<r, 0>> \in conns
    /\ CountFrame
    /\ UNCHANGED <<kind, pc, available, permits, hop, answer, conns, upload>>

\* The request body ends, or goes silent for UPLOAD_IDLE_TIMEOUT.
UploadEnd(r) ==
    /\ r \in upload
    /\ <<r, 0>> \in conns
    /\ upload' = upload \ {r}
    /\ UNCHANGED <<kind, pc, available, permits, hop, answer, conns, egress, frames>>

\* The task ends: the peer closed, or nobody uses the connection any more.
\* The first connection takes an unfinished request body with it.
ConnEnd(r, h) ==
    /\ <<r, h>> \in conns
    /\ conns' = conns \ {<<r, h>>}
    /\ upload' = IF h = 0 THEN upload \ {r} ELSE upload
    /\ UNCHANGED <<kind, pc, available, permits, hop, answer, egress, frames>>

-----------------------------------------------------------------------------
Admit(r) == Bypass(r) \/ Acquire(r) \/ Overload(r)

Screen(r) == ScreenPass(r) \/ ScreenReply(r)

CheckAdmission(r) == RateAllow(r) \/ RateLimit(r) \/ BudgetAllow(r) \/ BudgetExceed(r)

Forward(r) == Connect(r) \/ ConnectFail(r) \/ Respond(r) \/ Redirect(r) \/ SendFail(r)

Upload(r) == UploadFrame(r) \/ UploadEnd(r)

Next ==
    \E r \in Requests :
        \/ Admit(r) \/ Screen(r) \/ CheckAdmission(r) \/ Forward(r)
        \/ Frame(r) \/ BodyEnd(r) \/ Disconnect(r)
        \/ Upload(r) \/ \E h \in Hops : ConnEnd(r, h)

Spec == Init /\ [][Next]_vars

(***************************************************************************)
(* What the runtime guarantees of a handler.  Its synchronous code runs to *)
(* the next await; an attempt to connect and a wait for headers are each   *)
(* bounded by a timeout, so neither failure can be put off for ever.       *)
(* Nothing makes an upstream answer, and nothing ends a body: its upstream *)
(* may send for ever, and its client may stop reading.                     *)
(***************************************************************************)
Fairness ==
    \A r \in Requests :
        /\ WF_vars(Screen(r)) /\ WF_vars(CheckAdmission(r))
        /\ WF_vars(ConnectFail(r)) /\ WF_vars(SendFail(r))

LiveSpec == Spec /\ Fairness

-----------------------------------------------------------------------------
(* Properties                                                              *)

\* The requests whose handler or body is alive and counted by the limit.
Counted ==
    {r \in Requests : /\ kind[r] # "healthz"
                      /\ pc[r] \notin {"new", "gone"}
                      /\ answer[r] # "overloaded"}

\* A permit is never lost and never given back twice: on every way out of the
\* handler and of the body (end, error, early return, client gone) exactly the
\* requests still being handled or streamed own one, and the free permits and
\* theirs add up to MAX_CONCURRENT_REQUESTS (limit_concurrency, GuardedBody).
PermitsExact ==
    /\ permits = Counted
    /\ available + Cardinality(permits) = MaxConcurrent

\* Requests on whose behalf the handler or the response body uses an upstream.
Transfers == {r \in Requests : pc[r] \in {"connect", "send", "stream"}}

\* The limit holds for whole transfers, not only until the handler returns:
\* no more than MAX_CONCURRENT_REQUESTS requests connect, wait for headers or
\* stream together (the reason concurrency.rs gives for not using tower).
TransfersBounded == Cardinality(Transfers) <= MaxConcurrent

\* A request that the proxy answers itself, or refuses because of overload, of
\* the rate limit or of the egress budget, never has an upstream connection,
\* neither now nor left behind by an earlier step.
RefusedNeverDials ==
    \A c \in conns :
        /\ kind[c[1]] = "proxy"
        /\ answer[c[1]] \notin {"local", "overloaded", "rate_limited", "budget_exceeded"}

\* Requests that may still add to the egress count, by either body.
Senders == Transfers \cup {r \in Requests : \E h \in Hops : <<r, h>> \in conns}

\* The egress budget is a soft cap: once it is used up, whoever can still send
\* was already sending; nobody joins, also when its check raced with the frame
\* that used the budget up (Budget::check_admission, add_egress).
BudgetClosesDoor == [][egress >= MaxEgress => Senders' \subseteq Senders]_vars

\* The proxy keeps the promise of Limiter: a slot is taken at once or refused
\* at once, and refused only when all are taken.
Lim == INSTANCE Limiter WITH
    Limit   <- MaxConcurrent,
    exempt  <- {r \in Requests : kind[r] = "healthz"},
    waiting <- {r \in Requests : pc[r] = "new"},
    active  <- permits,
    refused <- {r \in Requests : answer[r] = "overloaded"}

ImplementsLimiter == Lim!Spec

\* No slot stays with a handler: it is given back or passes to a response body,
\* whatever the upstreams do and however many redirects are followed, without
\* the client going away.  How long a body keeps it is up to its upstream and
\* its client (forward_request; the timeouts around its two awaits).
HandlersLetGo ==
    \A r \in Requests :
        (r \in permits) ~> (r \notin permits \/ pc[r] \in {"stream", "reply"})

\* What proxy.rs says of its connection tasks: their number is bounded by the
\* permits.  The code does not keep it (see the run relay_conn_tasks).
ConnTasksBounded == Cardinality(conns) <= MaxConcurrent
=============================================================================
