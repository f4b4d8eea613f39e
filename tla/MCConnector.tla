---------------------------- MODULE MCConnector ----------------------------
(* PublicPolicy with a public address of each family, a private one, and one  *)
(* of the host, the first behind a private range; the policy is asked about  *)
(* all edges of the table besides.                                           *)
EXTENDS PublicPolicy

MCLocal == {<<172, 32, 0, 0>>}

MCAddresses == MCLocal \cup {<<10, 0, 0, 1>>, <<8, 8, 8, 8>>, V6(<<9760, 254>>)}

\* One network of either family, a public address in the first.
MCDenyCidrs == {Cidr(<<9, 9, 8, 0>>, 21), Cidr(V6(<<9760, 254, 4096>>), 36)}

\* A set of images is computed once, a subset's condition at every use; so is a
\* definition of its own, unlike what the .cfg puts in a constant's place.
Listing(S) == {ip : ip \in S}

Asked == Listing(MCAddresses \cup Edges
                 \cup {<<9, 9, 9, 9>>, <<9, 9, 16, 0>>, V6(<<9760, 254, 8191, 1>>)})

MCProbes == Asked

Refused == Listing({ip \in Asked : ~Routable(ip)})

MCUnroutable == Refused
=============================================================================
