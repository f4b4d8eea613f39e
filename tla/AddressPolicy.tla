--------------------------- MODULE AddressPolicy ---------------------------
(***************************************************************************)
(* The address policy of resolver.rs: the list of denied ranges, fixed at  *)
(* start, and the snapshot of the host's interface addresses, which a      *)
(* background task replaces while requests read it.  Every copy of the     *)
(* policy shares the one snapshot.                                         *)
(*                                                                         *)
(* An address is a value; Unroutable are those the ranges reject (and the  *)
(* IPv6 addresses outside the global unicast range).  Local are addresses  *)
(* an interface of the host has throughout; others may come and go.        *)
(***************************************************************************)
EXTENDS FiniteSets

CONSTANTS
    Addresses,     \* the addresses a name may resolve to and interfaces may have
    Unroutable,    \* those the deny list and the global unicast rule reject
    Local          \* those some interface of the host always has

ASSUME AddressAssumption ==
    /\ IsFiniteSet(Addresses)
    /\ Local \subseteq Addresses

VARIABLES
    host,          \* AddressPolicy::host_addresses
    refresher,     \* the refresh task: "spawned" (not run yet) or "running"
    enumerated     \* some enumeration has succeeded

policy == <<host, refresher, enumerated>>

PolicyTypeOK ==
    /\ host \in SUBSET Addresses
    /\ refresher \in {"spawned", "running"}
    /\ enumerated \in BOOLEAN

\* main spawns the refresh task and goes on at once: the first refresh may
\* come after the first request.
PolicyInit ==
    /\ host = {}
    /\ refresher = "spawned"
    /\ enumerated = FALSE

\* What an enumeration of the interfaces can find.
Enumerations == {Local \cup s : s \in SUBSET Addresses}

\* The enumeration succeeds and replaces the snapshot under the write lock.
RefreshOk ==
    /\ host' \in Enumerations
    /\ refresher' = "running"
    /\ enumerated' = TRUE

\* Mutated: a failed enumeration counts as one that found nothing.
RefreshFail_Empties ==
    /\ host' = {}
    /\ refresher' = "running"
    /\ UNCHANGED enumerated

\* The enumeration fails: the snapshot stays.
RefreshFail ==
    /\ refresher' = "running"
    /\ UNCHANGED <<host, enumerated>>

Refresh == RefreshOk \/ RefreshFail

Allowed(ip) == ip \notin host /\ ip \notin Unroutable
=============================================================================
