---------------------------- MODULE MCFederationGates ----------------------------
(* A small server for TLC. *)
EXTENDS FederationGates, TLC

CONSTANTS i1, i2, s1, s2, s3

Symmetry == Permutations(Sockets) \cup Permutations(Ips)
=============================================================================
