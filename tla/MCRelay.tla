------------------------------ MODULE MCRelay ------------------------------
(* Relay on small sets of requests.  The requests are interchangeable:      *)
(* nothing in Relay names one, so safety runs use symmetry.                *)
EXTENDS Relay, TLC

RequestSymmetry == Permutations(Requests)
=============================================================================
