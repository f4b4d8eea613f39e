---------------------------- MODULE PublicPolicy ----------------------------
(***************************************************************************)
(* Connector with the addresses themselves: what the ranges of resolver.rs *)
(* reject is what AddressTable says.                                       *)
(***************************************************************************)
EXTENDS Connector, AddressTable

CONSTANT Probes       \* the addresses the policy is asked about

ASSUME ProbesAssumption ==
    /\ Probes \subseteq IPv4 \cup IPv6
    /\ \A ip \in Probes : ip \in Unroutable <=> ~Routable(ip)

\* What a request may be sent to: public address space but for what DENY_CIDRS
\* takes out of it, and the two differences of the deny list.
Reachable(ip) ==
    /\ Public(ip) \/ InSome(ForgottenV6, ip)
    /\ ~InSome(WithheldV4, ip)
    /\ \A net \in DenyCidrs : ~Contains(net, ip)

ReachableProbes == {ip \in Probes : Reachable(ip)}

\* The policy allows the addresses that the registries call public, no others but
\* the Forgotten, and refuses none of them but the Withheld, what DENY_CIDRS names
\* and what the host has found among its own: no prefix length of the deny list
\* is off, and no range covers for another (default_deny_cidrs, is_allowed).
AllowsPublicOnly == {ip \in Probes : Allowed(ip)} = ReachableProbes \ host

\* AddressPolicy says that it holds the IANA table of special-purpose addresses and
\* that an address it cannot classify is denied; what it allows is public then
\* (refuted by TLC; README, disagreements).
SpecialNeverAllowed == \A ip \in Probes : Allowed(ip) => Public(ip)
=============================================================================
