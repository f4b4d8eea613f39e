------------------------------ MODULE Limiter ------------------------------
(***************************************************************************)
(* What the concurrency limit of any-proxy promises, with nothing of how   *)
(* it keeps the promise.  A request is decided on the spot: it becomes     *)
(* active when fewer than Limit requests are active, it is refused when    *)
(* exactly Limit are, and it is never queued.  An exempt request (the      *)
(* health check) is neither counted nor refused.  An active request stays  *)
(* active until its whole response is finished, for which there is no term.*)
(***************************************************************************)
EXTENDS Naturals, FiniteSets

CONSTANTS
    Requests,      \* the requests that may arrive
    Limit          \* how many requests may be active together

VARIABLES
    exempt,        \* requests that the limit does not count
    waiting,       \* requests that have not arrived yet
    active,        \* requests that occupy a slot
    refused        \* requests that were turned away

lvars == <<exempt, waiting, active, refused>>

Init ==
    /\ exempt \in SUBSET Requests
    /\ waiting = Requests
    /\ active = {}
    /\ refused = {}

Start(r) ==
    /\ r \in waiting \ exempt
    /\ Cardinality(active) < Limit
    /\ waiting' = waiting \ {r}
    /\ active' = active \cup {r}
    /\ UNCHANGED <<exempt, refused>>

Refuse(r) ==
    /\ r \in waiting \ exempt
    /\ Cardinality(active) = Limit
    /\ waiting' = waiting \ {r}
    /\ refused' = refused \cup {r}
    /\ UNCHANGED <<exempt, active>>

Pass(r) ==
    /\ r \in waiting \cap exempt
    /\ waiting' = waiting \ {r}
    /\ UNCHANGED <<exempt, active, refused>>

Finish(r) ==
    /\ r \in active
    /\ active' = active \ {r}
    /\ UNCHANGED <<exempt, waiting, refused>>

Next == \E r \in Requests : Start(r) \/ Refuse(r) \/ Pass(r) \/ Finish(r)

Spec == Init /\ [][Next]_lvars
=============================================================================
