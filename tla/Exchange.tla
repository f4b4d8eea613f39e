------------------------------ MODULE Exchange ------------------------------
(***************************************************************************)
(* One round of forward_request after the connection is made: the handler  *)
(* waits for the upstream's headers under a timeout of its own, while the  *)
(* detached connection task polls the request body, an IdleTimeoutBody,    *)
(* and writes it upstream.  The two meet in send_request: the handler      *)
(* learns of a body or a connection that failed, and the task of a handler *)
(* that stopped waiting.                                                   *)
(*                                                                         *)
(* room is the room in the connection's write buffer, so a stalled body is *)
(* an upstream that does not read.                                         *)
(***************************************************************************)
EXTENDS IdleTimeoutBody

CONSTANT HeadersTimeout    \* UPSTREAM_HEADERS_TIMEOUT, in ticks

ASSUME HeadersAssumption == HeadersTimeout \in Nat \ {0}

VARIABLES
    head,          \* the handler: "waiting", "answered", "timed_out", "failed"
    waited         \* ticks it has waited

exchange == <<vars, head, waited>>

ExchangeTypeOK ==
    /\ TypeOK
    /\ head \in {"waiting", "answered", "timed_out", "failed"}
    /\ waited \in 0..HeadersTimeout

ExchangeInit ==
    /\ Init
    /\ head = "waiting"
    /\ waited = 0

-----------------------------------------------------------------------------

\* A poll, a wake-up or a change of the body that does not concern the handler.
BodyStep ==
    /\ PollFrame \/ TimerFires \/ Produce \/ Close \/ Resume
    /\ UNCHANGED <<head, waited>>

\* The upstream's headers arrive, before or after the whole body has been sent.
Answer ==
    /\ head = "waiting"
    /\ outcome \in {"open", "complete"}
    /\ head' = "answered"
    /\ UNCHANGED <<vars, waited>>

\* Mutated: the two limits of an upload are taken from each other's setting.
HeadersExpire_Swapped ==
    /\ head = "waiting"
    /\ waited = Timeout
    /\ head' = "timed_out"
    /\ UNCHANGED <<vars, waited>>

\* The timeout around send_request.
HeadersExpire ==
    /\ head = "waiting"
    /\ waited = HeadersTimeout
    /\ head' = "timed_out"
    /\ UNCHANGED <<vars, waited>>

\* The connection task ends and drops the body: the body has failed, the peer
\* broke the connection, or nobody waits for it.  A waiting handler is told.
ConnectionEnds ==
    /\ outcome # "complete"
    /\ DropBody
    /\ head' = IF head = "waiting" THEN "failed" ELSE head
    /\ UNCHANGED waited

\* The body was sent in full and the task drops it; the connection lives on.
SentInFull ==
    /\ outcome = "complete"
    /\ DropBody
    /\ UNCHANGED <<head, waited>>

\* The connection breaks after the body was sent.
ConnectionBreaks ==
    /\ outcome = "dropped"
    /\ head = "waiting"
    /\ head' = "failed"
    /\ UNCHANGED <<vars, waited>>

\* Time passes for both.  A body that has ended is dropped at once.
ExchangeTick ==
    /\ head = "waiting" => waited < HeadersTimeout
    /\ waited' = IF head = "waiting" THEN waited + 1 ELSE waited
    /\ UNCHANGED head
    /\ \/ Tick
       \/ outcome = "dropped" /\ UNCHANGED vars

ExchangeNext ==
    \/ BodyStep \/ Answer \/ HeadersExpire
    \/ ConnectionEnds \/ SentInFull \/ ConnectionBreaks \/ ExchangeTick

ExchangeSpec == ExchangeInit /\ [][ExchangeNext]_exchange

BodyAlone(step) == step /\ UNCHANGED <<head, waited>>

\* A woken task is run, timers fire and time passes.  Nothing makes the client
\* send or the upstream take what is buffered.
ExchangeLiveSpec ==
    /\ ExchangeSpec
    /\ WF_exchange(BodyAlone(PollFrame))
    /\ WF_exchange(BodyAlone(TimerFires))
    /\ WF_exchange(HeadersExpire)
    /\ WF_exchange(ExchangeTick)

-----------------------------------------------------------------------------

\* A client that sends nothing at all is cut by the upload's idle timeout and is
\* not blamed on the upstream (504), when the idle timeout is the shorter one.
SilentClientIsNotTheUpstream ==
    [][head = "waiting" /\ head' = "timed_out" => produced > 0 \/ tail # "open"]_exchange

(***************************************************************************)
(* What the documents say and the code does not do.                        *)
(***************************************************************************)

\* An upload whose data still flows is not ended by a limit on its duration.
FlowingUploadNeverCut ==
    [][head = "waiting" /\ head' = "timed_out" => tail # "open" \/ lull \/ stalled]_exchange
=============================================================================
