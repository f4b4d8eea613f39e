------------------------------ MODULE Redirect ------------------------------
(***************************************************************************)
(* The redirect loop of forward_request (proxy.rs) with the                *)
(* RedirectMachine it drives (redirect.rs), for one request.  Relay has    *)
(* the same loop without its data; here the interleaving is left out and   *)
(* the targets, headers and body are kept.                                 *)
(*                                                                         *)
(* A target is a canonical URL; what a Location header resolves to is      *)
(* either a target or Unusable (missing, empty, malformed, another         *)
(* scheme).  The upstreams choose every status and Location freely.        *)
(***************************************************************************)
EXTENDS Integers, Sequences

CONSTANTS
    Targets,       \* canonical URLs
    Https,         \* those with scheme https
    Origin,        \* [Targets -> origins]: scheme, host and port
    Listed,        \* those target_allowed and port_allowed accept
    Unusable,      \* a Location parse_location makes nothing of
    MaxHops        \* max_hops of the machine (the code: 10)

ASSUME RedirectAssumption ==
    /\ Https \subseteq Targets
    /\ Listed \subseteq Targets
    /\ Unusable \notin Targets
    /\ \A a, b \in Targets : Origin[a] = Origin[b] => (a \in Https <=> b \in Https)
    /\ MaxHops \in Nat

Methods == {"GET", "HEAD", "POST", "PUT", "PATCH", "DELETE"}

\* is_followable_redirect
Followable == {301, 302, 303, 307, 308}

\* Statuses the loop tells apart; 304 stands for the 3xx it does not follow.
Statuses == Followable \cup {200, 304}

Locations == Targets \cup {Unusable}

Results == {"none", "response", "blocked", "failed"}

VARIABLES
    pc,         \* "send": about to connect and send; "await": sent; "done"
    method,     \* method of the request, the same on every hop
    current,    \* current_target
    visited,    \* RedirectMachine::visited
    hops,       \* RedirectMachine::hop_count
    auth,       \* req_headers still holds Authorization
    body,       \* body_opt still holds the client's body
    result,     \* how forward_request ended
    trail       \* requests sent so far: target, and what they carried

vars == <<pc, method, current, visited, hops, auth, body, result, trail>>

Sent == [target : Targets, auth : BOOLEAN, body : BOOLEAN]

TypeOK ==
    /\ pc \in {"send", "await", "done"}
    /\ method \in Methods
    /\ current \in Targets
    /\ visited \in SUBSET Targets
    /\ hops \in 0..MaxHops + 1
    /\ auth \in BOOLEAN
    /\ body \in BOOLEAN
    /\ result \in Results
    /\ trail \in Seq(Sent)

\* RedirectMachine::new, and the visit of the initial target, which the handler
\* has looked up in the allowlists.
Init ==
    /\ pc = "send"
    /\ method \in Methods
    /\ current \in Listed
    /\ visited = {current}
    /\ hops = 0
    /\ auth \in BOOLEAN
    /\ body = TRUE
    /\ result = "none"
    /\ trail = <<>>

Finish(how) ==
    /\ pc' = "done"
    /\ result' = how

\* Mutated: the body is not taken, every hop gets it.
Send_ReplaysBody ==
    /\ pc = "send"
    /\ pc' = "await"
    /\ trail' = Append(trail, [target |-> current, auth |-> auth, body |-> body])
    /\ UNCHANGED <<method, current, visited, hops, auth, body, result>>

\* Connect to the current target and send the request; the body goes with the
\* first one only (body_opt.take).
Send ==
    /\ pc = "send"
    /\ pc' = "await"
    /\ trail' = Append(trail, [target |-> current, auth |-> auth, body |-> body])
    /\ body' = FALSE
    /\ UNCHANGED <<method, current, visited, hops, auth, result>>

ConnectFail ==
    /\ pc = "send"
    /\ Finish("failed")
    /\ UNCHANGED <<method, current, visited, hops, auth, body, trail>>

\* No headers in time, or the connection broke.
Fail ==
    /\ pc = "await"
    /\ Finish("failed")
    /\ UNCHANGED <<method, current, visited, hops, auth, body, trail>>

\* The early returns of handle_redirect that mean PassThrough, negated.
IsRedirect(status, loc) ==
    /\ method \in {"GET", "HEAD"}
    /\ status \in Followable
    /\ loc # Unusable

\* Mutated: only the first redirect is checked.
Downgrades_FirstHopOnly(loc) == hops = 0 /\ current \in Https /\ loc \notin Https

Downgrades(loc) == current \in Https /\ loc \notin Https

\* Mutated: the limit is compared before the hop is counted.
HopAllowed_OneMore(loc) == hops <= MaxHops /\ loc \notin visited

\* Mutated: only an immediate return to the same URL counts as a loop.
HopAllowed_ShortLoop(loc) == hops + 1 <= MaxHops /\ loc # current

\* The limit and the loop check of handle_redirect.
HopAllowed(loc) == hops + 1 <= MaxHops /\ loc \notin visited

\* Mutated: each hop starts again from the client's headers.
KeepsAuth_PerHop(loc) == trail[1].auth /\ Origin[current] = Origin[loc]

\* Authorization survives only within the origin, and once lost stays lost.
KeepsAuth(loc) == auth /\ Origin[current] = Origin[loc]

\* The upstream answers and the answer is relayed: it is not a redirect, or not
\* one to follow.
Respond(status, loc) ==
    /\ pc = "await"
    /\ ~IsRedirect(status, loc)
    /\ Finish("response")
    /\ UNCHANGED <<method, current, visited, hops, auth, body, trail>>

\* handle_redirect refuses before it counts the hop.
RefuseDowngrade(status, loc) ==
    /\ pc = "await"
    /\ IsRedirect(status, loc)
    /\ Downgrades(loc)
    /\ Finish("blocked")
    /\ UNCHANGED <<method, current, visited, hops, auth, body, trail>>

\* The hop is counted and is one too many, or leads where the request has been.
RefuseHop(status, loc) ==
    /\ pc = "await"
    /\ IsRedirect(status, loc)
    /\ ~Downgrades(loc)
    /\ hops' = hops + 1
    /\ ~HopAllowed(loc)
    /\ Finish("blocked")
    /\ UNCHANGED <<method, current, visited, auth, body, trail>>

\* The redirect is followed; leaving the origin removes Authorization from the
\* headers that all later hops are built from.
Follow(status, loc) ==
    /\ pc = "await"
    /\ IsRedirect(status, loc)
    /\ ~Downgrades(loc)
    /\ HopAllowed(loc)
    /\ hops' = hops + 1
    /\ visited' = visited \cup {loc}
    /\ auth' = KeepsAuth(loc)
    /\ current' = loc
    /\ pc' = "send"
    /\ UNCHANGED <<method, body, result, trail>>

HandleRedirect(status, loc) ==
    RefuseDowngrade(status, loc) \/ RefuseHop(status, loc) \/ Follow(status, loc)

Next ==
    \/ Send \/ ConnectFail \/ Fail
    \/ \E status \in Statuses, loc \in Locations :
           Respond(status, loc) \/ HandleRedirect(status, loc)

Spec == Init /\ [][Next]_vars

-----------------------------------------------------------------------------

\* No matter what the upstreams answer, at most MaxHops redirects are followed
\* (hop_count in handle_redirect).
HopsBounded == Len(trail) <= MaxHops + 1

\* No URL is requested twice for one request: a redirect loop is cut before
\* its first repetition (visit, canonical_url).
NoTargetTwice ==
    \A i, j \in 1..Len(trail) : i # j => trail[i].target # trail[j].target

\* Once the chain has used https it never goes back to http, on any later hop
\* (the downgrade check compares neighbours only).
NeverDowngraded ==
    \A i, j \in 1..Len(trail) :
        i < j /\ trail[i].target \in Https => trail[j].target \in Https

\* The client's Authorization is sent only while the chain has never left the
\* origin it was meant for, also when a later hop returns there (req_headers
\* loses the header for good).
AuthStaysHome ==
    \A i, j \in 1..Len(trail) :
        i <= j /\ trail[j].auth => Origin[trail[i].target] = Origin[trail[1].target]

\* The client's body is sent once, to the first target, and a request whose
\* method has a body is never sent a second time (body_opt, PassThrough).
BodySentOnce ==
    \A i \in 2..Len(trail) : ~trail[i].body /\ method \in {"GET", "HEAD"}

(***************************************************************************)
(* What the documents say and the code does not do.                        *)
(***************************************************************************)

\* With allowlists configured, requests go to listed targets only.
OnlyListedTargets == \A i \in 1..Len(trail) : trail[i].target \in Listed
=============================================================================
