---------------------------- MODULE AddressTable ----------------------------
(***************************************************************************)
(* The deny list of resolver.rs and the IPv6 allowlist beside it.          *)
(*                                                                         *)
(* An address is the sequence of its groups: four octets, or eight         *)
(* hextets.  A network is a base address and a prefix length.              *)
(***************************************************************************)
EXTENDS Integers, Sequences

CONSTANT DenyCidrs    \* the networks DENY_CIDRS adds

MaxOctet == 255
MaxHextet == 65535

Octets == 0..MaxOctet
Hextets == 0..MaxHextet

IPv4 == [1..4 -> Octets]
IPv6 == [1..8 -> Hextets]

Width(ip) == IF Len(ip) = 4 THEN 8 ELSE 16

Top(ip) == 2^Width(ip) - 1

\* How many bits of group i the network fixes.
Kept(net, i) ==
    LET w    == Width(net.base)
        left == net.bits - (i - 1) * w
    IN  CASE left <= 0 -> 0
          [] left >= w -> w
          [] OTHER     -> left

\* The value of the bits the network leaves open in group i, plus one.
Span(net, i) == 2^(Width(net.base) - Kept(net, i))

\* IpNet::contains: of the same family, and equal in the fixed bits.
Contains(net, ip) ==
    /\ Len(ip) = Len(net.base)
    /\ \A i \in DOMAIN ip : ip[i] \div Span(net, i) = net.base[i] \div Span(net, i)

Cidr(base, bits) == [base |-> base, bits |-> bits]

\* An IPv6 base, written as its first groups; the others are zero.
V6(head) == [i \in 1..8 |-> IF i <= Len(head) THEN head[i] ELSE 0]

\* Mutated: the prefix of 172.16.0.0 is taken for that of 192.168.0.0.
PrivateUse_ShortPrefix ==
    {Cidr(<<10, 0, 0, 0>>, 8), Cidr(<<172, 16, 0, 0>>, 16), Cidr(<<192, 168, 0, 0>>, 16)}

PrivateUse ==
    {Cidr(<<10, 0, 0, 0>>, 8), Cidr(<<172, 16, 0, 0>>, 12), Cidr(<<192, 168, 0, 0>>, 16)}

\* Link local, loopback, multicast, broadcast, this network, shared, class E.
OwnUse ==
    {Cidr(<<169, 254, 0, 0>>, 16), Cidr(<<127, 0, 0, 0>>, 8), Cidr(<<224, 0, 0, 0>>, 4),
     Cidr(<<255, 255, 255, 255>>, 32), Cidr(<<0, 0, 0, 0>>, 8), Cidr(<<100, 64, 0, 0>>, 10),
     Cidr(<<240, 0, 0, 0>>, 4)}

\* Documentation, benchmarks, protocol assignments, 6to4 relays.
SpecialUse ==
    {Cidr(<<192, 0, 2, 0>>, 24), Cidr(<<198, 51, 100, 0>>, 24), Cidr(<<203, 0, 113, 0>>, 24),
     Cidr(<<198, 18, 0, 0>>, 15), Cidr(<<192, 0, 0, 0>>, 24), Cidr(<<192, 88, 99, 0>>, 24)}

\* Loopback, link local, multicast, unspecified, unique local, IPv4-mapped,
\* IPv4-compatible, NAT64, discard.
OwnUseV6 ==
    {Cidr(V6(<<0, 0, 0, 0, 0, 0, 0, 1>>), 128), Cidr(V6(<<65152>>), 10),
     Cidr(V6(<<65280>>), 8), Cidr(V6(<<>>), 128), Cidr(V6(<<64512>>), 7),
     Cidr(V6(<<0, 0, 0, 0, 0, 65535>>), 96), Cidr(V6(<<>>), 96),
     Cidr(V6(<<100, 65435>>), 96), Cidr(V6(<<256>>), 64)}

\* Within the global unicast range: documentation, 6to4, Teredo, ORCHID.
SpecialUseV6 ==
    {Cidr(V6(<<8193, 3512>>), 32), Cidr(V6(<<8194>>), 16), Cidr(V6(<<8193>>), 32),
     Cidr(V6(<<8193, 16>>), 28)}

DefaultDenyCidrs == PrivateUse \cup OwnUse \cup SpecialUse \cup OwnUseV6 \cup SpecialUseV6

\* 2000::/3
GlobalUnicastV6 == Cidr(V6(<<8192>>), 3)

\* is_allowed, but for the addresses of the host.
Routable(ip) ==
    /\ \A net \in DefaultDenyCidrs \cup DenyCidrs : ~Contains(net, ip)
    /\ Len(ip) = 8 => Contains(GlobalUnicastV6, ip)

-----------------------------------------------------------------------------
(* Which addresses are public, from the IANA registries of special-purpose  *)
(* addresses (RFC 6890, RFC 8190) and not from the list above: ranges by     *)
(* their first and last address, those of DENY_CIDRS left out.               *)

Fill(head, len, rest) == [i \in 1..len |-> IF i <= Len(head) THEN head[i] ELSE rest]

Block4(from, to) == [first |-> Fill(from, 4, 0), last |-> Fill(to, 4, MaxOctet)]
Block6(from, to) == [first |-> Fill(from, 8, 0), last |-> Fill(to, 8, MaxHextet)]

\* What the registry lists without calling it globally reachable; multicast and
\* class E.
ReservedV4 ==
    {Block4(<<0>>, <<0>>), Block4(<<10>>, <<10>>), Block4(<<100, 64>>, <<100, 127>>),
     Block4(<<127>>, <<127>>), Block4(<<169, 254>>, <<169, 254>>),
     Block4(<<172, 16>>, <<172, 31>>), Block4(<<192, 0, 0>>, <<192, 0, 0>>),
     Block4(<<192, 0, 2>>, <<192, 0, 2>>), Block4(<<192, 88, 99>>, <<192, 88, 99>>),
     Block4(<<192, 168>>, <<192, 168>>), Block4(<<198, 18>>, <<198, 19>>),
     Block4(<<198, 51, 100>>, <<198, 51, 100>>), Block4(<<203, 0, 113>>, <<203, 0, 113>>),
     Block4(<<224>>, <<MaxOctet>>)}

\* The same, and all that is not global unicast: 2001::/23 (protocol assignments),
\* 2001:db8::/32 and 3fff::/20 (documentation), 2002::/16 (6to4).
ReservedV6 ==
    {Block6(<<0>>, <<8191>>), Block6(<<8193, 0>>, <<8193, 511>>),
     Block6(<<8193, 3512>>, <<8193, 3512>>), Block6(<<8194>>, <<8194>>),
     Block6(<<16383, 0>>, <<16383, 4095>>), Block6(<<16384>>, <<MaxHextet>>)}

Reserved == ReservedV4 \cup ReservedV6

\* What the registry calls globally reachable within them: the anycast addresses
\* 192.0.0.9 and .10.
AllocatedV4 == {Block4(<<192, 0, 0, 9>>, <<192, 0, 0, 10>>)}

\* 2001:1::1 to ::3 (anycast), 2001:3::/32 (AMT), 2001:4:112::/48 (AS112),
\* 2001:20::/28 (ORCHIDv2), 2001:30::/28 (drone identifiers).
AllocatedV6 ==
    {Block6(<<8193, 1, 0, 0, 0, 0, 0, 1>>, <<8193, 1, 0, 0, 0, 0, 0, 3>>),
     Block6(<<8193, 3>>, <<8193, 3>>), Block6(<<8193, 4, 274>>, <<8193, 4, 274>>),
     Block6(<<8193, 32>>, <<8193, 47>>), Block6(<<8193, 48>>, <<8193, 63>>)}

Allocated == AllocatedV4 \cup AllocatedV6

NotAfter(a, b) ==
    a = b \/ \E i \in DOMAIN a : a[i] < b[i] /\ \A j \in 1..(i - 1) : a[j] = b[j]

Within(r, ip) == NotAfter(r.first, ip) /\ NotAfter(ip, r.last)

InSome(ranges, ip) == \E r \in ranges : Len(r.first) = Len(ip) /\ Within(r, ip)

Public(ip) == InSome(Reserved, ip) => InSome(Allocated, ip)

\* Where the deny list and the registries differ.  It has of 2001::/23 the networks
\* of Teredo and ORCHID only, benchmarking (2001:2::/48) and what is yet unassigned
\* not, nor 3fff::/20;
ForgottenV6 ==
    {Block6(<<8193, 1>>, <<8193, 15>>), Block6(<<8193, 64>>, <<8193, 511>>),
     Block6(<<16383, 0>>, <<16383, 4095>>)}

\* and it has the two addresses of 192.0.0.0/24 that are public.
WithheldV4 == AllocatedV4

\* The next address; the last group below its top is counted up.  The previous
\* one is the complement of the complement's next.
Flip(ip) == [i \in DOMAIN ip |-> Top(ip) - ip[i]]

Later(ip) ==
    {[j \in DOMAIN ip |-> IF j < i THEN ip[j] ELSE IF j = i THEN ip[j] + 1 ELSE 0] :
         i \in {k \in DOMAIN ip : /\ ip[k] < Top(ip)
                                  /\ \A j \in (k + 1)..Len(ip) : ip[j] = Top(ip)}}

Around(ip) == {ip} \cup Later(ip) \cup {Flip(a) : a \in Later(Flip(ip))}

First(net) == [i \in DOMAIN net.base |-> net.base[i] - (net.base[i] % Span(net, i))]
Last(net)  == [i \in DOMAIN net.base |-> First(net)[i] + Span(net, i) - 1]

\* The addresses at which either description can change its mind, and their
\* neighbours: between two of them both are constant.
Edges ==
    UNION {Around(First(net)) \cup Around(Last(net)) :
               net \in DefaultDenyCidrs \cup {GlobalUnicastV6}}
    \cup UNION {Around(r.first) \cup Around(r.last) :
                   r \in Reserved \cup Allocated \cup ForgottenV6}
=============================================================================
