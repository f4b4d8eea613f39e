----------------------------- MODULE Connector -----------------------------
(***************************************************************************)
(* One call of Connector::connect (connector.rs) beside the refresh task   *)
(* of its AddressPolicy: resolve, check every address of the answer, dial  *)
(* the addresses in order until one accepts, and shake hands if the target *)
(* is https.  Calls share nothing but the policy, so one call is enough.   *)
(*                                                                         *)
(* validate_all takes the read lock once per address: a refresh can come   *)
(* between two checks.  Time is discrete; it passes at the awaits, and an  *)
(* await is over, by success or by its timeout, before its limit is        *)
(* exceeded.  The caller may drop the call at every await.                 *)
(***************************************************************************)
EXTENDS AddressPolicy, Integers, Sequences, Functions

CONSTANTS
    DnsTimeout, ConnectTimeout, TlsTimeout,    \* in ticks
    NoAddress

ASSUME TimeoutsAssumption ==
    /\ DnsTimeout \in Nat \ {0}
    /\ ConnectTimeout \in Nat \ {0}
    /\ TlsTimeout \in Nat \ {0}
    /\ NoAddress \notin Addresses

\* What the resolver answers: at least one address, none of them twice.
Answers ==
    UNION {Injection(1..n, Addresses) : n \in 1..Cardinality(Addresses)}

VARIABLES
    pc,            \* "resolve", "validate", "dial", "tls" or "done"
    https,         \* the target's scheme
    answer,        \* the resolver's answer
    next,          \* index of the address to check, then to dial
    dialed,        \* addresses that were dialed
    peer,          \* the peer of the connection that was kept
    waited,        \* ticks spent at the current await
    total,         \* ticks spent in the call
    result,        \* what the call returned
    trusted        \* an enumeration had succeeded when the checks began

call == <<pc, https, answer, next, dialed, peer, waited, total, result, trusted>>
vars == <<policy, call>>

Results == {"none", "connected", "blocked", "dns_failed", "connect_failed",
            "connect_timeout", "cancelled"}

TypeOK ==
    /\ PolicyTypeOK
    /\ pc \in {"resolve", "validate", "dial", "tls", "done"}
    /\ https \in BOOLEAN
    /\ answer \in Seq(Addresses)
    /\ next \in Nat \ {0}
    /\ next = 1 \/ next <= Len(answer)
    /\ dialed \in SUBSET Addresses
    /\ peer \in Addresses \cup {NoAddress}
    /\ waited \in Nat
    /\ total \in Nat
    /\ result \in Results
    /\ trusted \in BOOLEAN

Init ==
    /\ PolicyInit
    /\ pc = "resolve"
    /\ https \in BOOLEAN
    /\ answer = <<>>
    /\ next = 1
    /\ dialed = {}
    /\ peer = NoAddress
    /\ waited = 0
    /\ total = 0
    /\ result = "none"
    /\ trusted = FALSE

Return(r) ==
    /\ pc' = "done"
    /\ result' = r

\* The await is over and the call goes on at p.
GoOn(p) ==
    /\ pc' = p
    /\ waited' = 0

-----------------------------------------------------------------------------
(* resolve                                                                 *)

Resolved ==
    /\ pc = "resolve"
    /\ answer' \in Answers
    /\ trusted' = enumerated
    /\ GoOn("validate")
    /\ UNCHANGED <<policy, https, next, dialed, peer, total, result>>

\* The lookup fails or finds no address.
ResolveFails ==
    /\ pc = "resolve"
    /\ Return("dns_failed")
    /\ UNCHANGED <<policy, https, answer, next, dialed, peer, waited, total, trusted>>

ResolveExpires ==
    /\ pc = "resolve"
    /\ waited = DnsTimeout
    /\ Return("connect_timeout")
    /\ UNCHANGED <<policy, https, answer, next, dialed, peer, waited, total, trusted>>

-----------------------------------------------------------------------------
(* validate_all                                                            *)

\* Mutated: dialing begins as soon as one address has been accepted.
Accept_FirstSuffices ==
    /\ pc = "validate"
    /\ Allowed(answer[next])
    /\ pc' = "dial"
    /\ next' = 1
    /\ UNCHANGED <<policy, https, answer, dialed, peer, waited, total, result, trusted>>

\* An address is allowed; after the last one dialing begins.
Accept ==
    /\ pc = "validate"
    /\ Allowed(answer[next])
    /\ IF next < Len(answer)
         THEN next' = next + 1 /\ UNCHANGED pc
         ELSE next' = 1 /\ pc' = "dial"
    /\ UNCHANGED <<policy, https, answer, dialed, peer, waited, total, result, trusted>>

\* One address is not allowed: the whole target is refused.
Block ==
    /\ pc = "validate"
    /\ ~Allowed(answer[next])
    /\ Return("blocked")
    /\ UNCHANGED <<policy, https, answer, next, dialed, peer, waited, total, trusted>>

-----------------------------------------------------------------------------
(* dial                                                                    *)

\* This address is of no use: the next one is tried, or the call fails with
\* what went wrong last.
FailOver(error) ==
    /\ dialed' = dialed \cup {answer[next]}
    /\ IF next < Len(answer)
         THEN next' = next + 1 /\ GoOn("dial") /\ UNCHANGED result
         ELSE Return(error) /\ UNCHANGED <<next, waited>>
    /\ UNCHANGED <<policy, https, answer, peer, total, trusted>>

\* Mutated: the peer the Dialer reports is taken as it is.
Dialed_Unchecked(p) ==
    /\ pc = "dial"
    /\ dialed' = dialed \cup {answer[next]}
    /\ peer' = p
    /\ IF https
         THEN GoOn("tls") /\ UNCHANGED result
         ELSE Return("connected") /\ UNCHANGED waited
    /\ UNCHANGED <<policy, https, answer, next, total, trusted>>

\* The Dialer connected and reports a peer that is part of the answer.
Dialed(p) ==
    /\ pc = "dial"
    /\ p \in Range(answer)
    /\ dialed' = dialed \cup {answer[next]}
    /\ peer' = p
    /\ IF https
         THEN GoOn("tls") /\ UNCHANGED result
         ELSE Return("connected") /\ UNCHANGED waited
    /\ UNCHANGED <<policy, https, answer, next, total, trusted>>

\* It reports another peer: the connection is not used.
DialedElsewhere(p) ==
    /\ pc = "dial"
    /\ p \notin Range(answer)
    /\ FailOver("connect_failed")

DialFails ==
    /\ pc = "dial"
    /\ FailOver("connect_failed")

\* Mutated: an address that does not answer in time ends the attempt.
DialExpires_GivesUp ==
    /\ pc = "dial"
    /\ waited = ConnectTimeout
    /\ dialed' = dialed \cup {answer[next]}
    /\ Return("connect_timeout")
    /\ UNCHANGED <<policy, https, answer, next, peer, waited, total, trusted>>

\* Mutated: an address that does not answer in time is dialed again.
DialExpires_Retries ==
    /\ pc = "dial"
    /\ waited = ConnectTimeout
    /\ dialed' = dialed \cup {answer[next]}
    /\ GoOn("dial")
    /\ UNCHANGED <<policy, https, answer, next, peer, total, result, trusted>>

DialExpires ==
    /\ pc = "dial"
    /\ waited = ConnectTimeout
    /\ FailOver("connect_timeout")

-----------------------------------------------------------------------------
(* TLS                                                                     *)

TlsDone ==
    /\ pc = "tls"
    /\ Return("connected")
    /\ UNCHANGED <<policy, https, answer, next, dialed, peer, waited, total, trusted>>

\* The handshake fails, or the name cannot be an SNI; no other address is tried.
TlsFails ==
    /\ pc = "tls"
    /\ Return("connect_failed")
    /\ UNCHANGED <<policy, https, answer, next, dialed, peer, waited, total, trusted>>

\* Mutated: the handshake waits for as long as it takes.
TlsExpires_Never ==
    /\ pc = "tls"
    /\ waited > TlsTimeout
    /\ Return("connect_timeout")
    /\ UNCHANGED <<policy, https, answer, next, dialed, peer, waited, total, trusted>>

TlsExpires ==
    /\ pc = "tls"
    /\ waited = TlsTimeout
    /\ Return("connect_timeout")
    /\ UNCHANGED <<policy, https, answer, next, dialed, peer, waited, total, trusted>>

-----------------------------------------------------------------------------

\* The caller's future is dropped at an await.
Cancel ==
    /\ pc \in {"resolve", "dial", "tls"}
    /\ Return("cancelled")
    /\ UNCHANGED <<policy, https, answer, next, dialed, peer, waited, total, trusted>>

\* The limit of the await at p.
Limit(p) ==
    CASE p = "resolve" -> DnsTimeout
      [] p = "dial"    -> ConnectTimeout
      [] p = "tls"     -> TlsTimeout

Tick ==
    /\ pc \in {"resolve", "dial", "tls"}
    /\ waited < Limit(pc)
    /\ waited' = waited + 1
    /\ total' = total + 1
    /\ UNCHANGED <<policy, pc, https, answer, next, dialed, peer, result, trusted>>

RefreshHost == Refresh /\ UNCHANGED call

Validate == Accept \/ Block

Expire == ResolveExpires \/ DialExpires \/ TlsExpires

Next ==
    \/ Resolved \/ ResolveFails
    \/ Validate
    \/ \E p \in Addresses : Dialed(p) \/ DialedElsewhere(p)
    \/ DialFails
    \/ TlsDone \/ TlsFails
    \/ Expire \/ Cancel \/ Tick \/ RefreshHost

Spec == Init /\ [][Next]_vars

-----------------------------------------------------------------------------

\* What is known of the addresses before next while they are checked, and of all
\* of them once dialing has begun.
Clear(ip) == ip \notin Unroutable /\ (trusted => ip \notin Local)

ChecksHold ==
    /\ enumerated => Local \subseteq host
    /\ trusted => enumerated
    /\ pc = "validate" => \A i \in 1..(next - 1) : Clear(answer[i])
    /\ pc \in {"dial", "tls"} \/ dialed # {} => \A i \in DOMAIN answer : Clear(answer[i])

\* There is an address to check or to dial, once the resolver has answered.
AnswerKnown ==
    /\ pc = "resolve" => answer = <<>>
    /\ pc \in {"validate", "dial", "tls"} => answer # <<>>

\* How far the call is at each place.
StepsHold ==
    /\ pc = "dial" => dialed = {answer[i] : i \in 1..(next - 1)}
    /\ pc \in {"resolve", "validate"} => dialed = {}
    /\ pc \in {"resolve", "validate", "dial"} => peer = NoAddress
    /\ pc = "tls" => peer \in Range(answer) /\ dialed # {}
    /\ pc = "done" <=> result # "none"

\* The time spent at each place.
TimeHolds ==
    /\ pc = "resolve" => total = waited /\ waited <= DnsTimeout
    /\ pc = "validate" => total <= DnsTimeout /\ waited = 0
    /\ pc = "dial" => /\ total <= DnsTimeout + (next - 1) * ConnectTimeout + waited
                      /\ waited <= ConnectTimeout
    /\ pc = "tls" => /\ total <= DnsTimeout + Len(answer) * ConnectTimeout + waited
                     /\ waited <= TlsTimeout

\* One rejected address in the answer, wherever it stands, and nothing at all
\* is dialed ("zero dials" of connect).
UnroutableNeverDialed == Range(answer) \cap Unroutable # {} => dialed = {}

\* The same for the addresses the host always has, once an enumeration has
\* succeeded before the checks: later failures and refreshes between two checks
\* do not open a gap.
LocalNeverDialed == trusted /\ Range(answer) \cap Local # {} => dialed = {}

\* The connection handed out leads to an address of the one checked answer, and
\* it was made by dialing that call's addresses.
PeerWasValidated ==
    result = "connected" => peer \in Range(answer) /\ dialed # {}

\* A call fails for want of a connection only when every address was dialed.
EveryAddressTried ==
    result \in {"connect_failed", "connect_timeout"} /\ answer # <<>> /\ peer = NoAddress
        => dialed = Range(answer)

\* A call takes at most one DNS timeout, one connect timeout per address and one
\* TLS timeout.
WaitBounded == total <= DnsTimeout + Len(answer) * ConnectTimeout + TlsTimeout
=============================================================================
