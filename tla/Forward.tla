------------------------------ MODULE Forward ------------------------------
(***************************************************************************)
(* forward_request (proxy.rs) as a whole, up to the response headers: the  *)
(* redirect loop of Redirect, with one call of Connector::connect          *)
(* (Connector) in every round and the wait for headers after it.  A        *)
(* redirect that is followed begins a new call, which resolves, checks,    *)
(* dials and shakes hands for its own target; nothing of the previous      *)
(* round's connection is used again.                                       *)
(*                                                                         *)
(* Everything Redirect does to its variables is done here, under the       *)
(* guards the connection adds.  The client may go away at every await:     *)
(* Cancel in the connector, HeadersFail while headers are awaited.         *)
(***************************************************************************)
EXTENDS Redirect, Functions, FiniteSets

CONSTANTS
    Addresses, Unroutable, Local, NoAddress,           \* see AddressPolicy
    DnsTimeout, ConnectTimeout, TlsTimeout,            \* in ticks
    HeadersTimeout

ASSUME ForwardAssumption ==
    /\ IsFiniteSet(Addresses) /\ Local \subseteq Addresses /\ NoAddress \notin Addresses
    /\ {DnsTimeout, ConnectTimeout, TlsTimeout, HeadersTimeout} \subseteq Nat \ {0}

VARIABLES
    place, https, answer, next, dialed, peer,          \* the round's call:
    waited, total, outcome, trusted,                   \* see Connector
    host, refresher, enumerated,                       \* see AddressPolicy
    asked,         \* the target the last lookup was for
    quiet          \* ticks spent waiting for the round's headers

C == INSTANCE Connector WITH pc <- place, result <- outcome

snapshot == <<host, refresher, enumerated>>
connect == <<place, https, answer, next, dialed, peer, waited, total, outcome, trusted,
             snapshot>>
forward == <<vars, connect, asked, quiet>>

ForwardInit ==
    /\ Init
    /\ C!Init
    /\ https = (current \in Https)
    /\ asked = current
    /\ quiet = 0

-----------------------------------------------------------------------------

\* A step inside the connector, or of the refresh task beside it.
Inside(step) ==
    /\ step
    /\ asked' = IF place = "resolve" THEN current ELSE asked
    /\ UNCHANGED <<vars, quiet>>

\* The connection is there: handshake, connection task, request.
SendRequest ==
    /\ outcome = "connected"
    /\ Send
    /\ UNCHANGED <<connect, asked, quiet>>

\* The call failed or was dropped, or the handshake on its connection failed.
GiveUp ==
    /\ outcome # "none"
    /\ ConnectFail
    /\ UNCHANGED <<connect, asked, quiet>>

HeadersTick ==
    /\ pc = "await"
    /\ quiet < HeadersTimeout
    /\ quiet' = quiet + 1
    /\ UNCHANGED <<vars, connect, asked>>

\* The timeout around send_request.
HeadersExpire ==
    /\ quiet = HeadersTimeout
    /\ Fail
    /\ UNCHANGED <<connect, asked, quiet>>

\* The connection broke, or the client is gone.
HeadersFail ==
    /\ Fail
    /\ UNCHANGED <<connect, asked, quiet>>

\* A response, or a redirect the machine refuses.
Conclude(status, loc) ==
    /\ Respond(status, loc) \/ RefuseDowngrade(status, loc) \/ RefuseHop(status, loc)
    /\ UNCHANGED <<connect, asked, quiet>>

\* Mutated: a redirect goes out on the connection that is there.
NewCall_Pooled(target) ==
    /\ UNCHANGED <<connect, asked>>
    /\ quiet' = 0

\* Mutated: only the addresses of the first target are checked.
NewCall_Trusting(target) ==
    /\ place' = "dial"
    /\ https' = (target \in Https)
    /\ answer' \in C!Answers
    /\ next' = 1
    /\ dialed' = {}
    /\ peer' = NoAddress
    /\ waited' = 0
    /\ total' = 0
    /\ outcome' = "none"
    /\ trusted' = enumerated
    /\ asked' = target
    /\ quiet' = 0
    /\ UNCHANGED snapshot

\* The next round's call of connect begins.
NewCall(target) ==
    /\ place' = "resolve"
    /\ https' = (target \in Https)
    /\ answer' = <<>>
    /\ next' = 1
    /\ dialed' = {}
    /\ peer' = NoAddress
    /\ waited' = 0
    /\ total' = 0
    /\ outcome' = "none"
    /\ trusted' = FALSE
    /\ quiet' = 0
    /\ UNCHANGED <<snapshot, asked>>

FollowRedirect(status, loc) == Follow(status, loc) /\ NewCall(loc)

ForwardNext ==
    \/ Inside(C!Next)
    \/ SendRequest \/ GiveUp
    \/ HeadersTick \/ HeadersExpire \/ HeadersFail
    \/ \E status \in Statuses, loc \in Locations :
           Conclude(status, loc) \/ FollowRedirect(status, loc)

ForwardSpec == ForwardInit /\ [][ForwardNext]_forward

\* The connector's own fairness; a handler whose call has returned goes on; time
\* passes while headers are awaited, and the timeout fires.  No upstream has to
\* answer.
ForwardLiveSpec ==
    /\ ForwardSpec
    /\ WF_forward(Inside(C!Validate))
    /\ WF_forward(Inside(C!Expire))
    /\ WF_forward(Inside(C!Tick))
    /\ WF_forward(SendRequest \/ GiveUp)
    /\ WF_forward(HeadersTick)
    /\ WF_forward(HeadersExpire)

-----------------------------------------------------------------------------

\* The connection a hop is sent on was made for that hop: resolved from its own
\* target, to a checked address of that answer, with TLS exactly when this
\* target is https (connect is called in the loop, nothing is pooled).
EveryHopIsChecked ==
    pc = "await" =>
        /\ asked = current
        /\ https = (current \in Https)
        /\ peer \in Range(answer)

\* On no hop is a denied address dialed, nor one of the host's own once they are
\* known: a redirect cannot lead past the address policy.
NothingForbiddenDialed ==
    /\ dialed \cap Unroutable = {}
    /\ trusted => dialed \cap Local = {}

\* forward_request returns, whatever resolvers, peers and upstreams do.
RequestEnds == <>(pc = "done")
=============================================================================
