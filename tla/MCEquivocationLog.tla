--------------------------- MODULE MCEquivocationLog ---------------------------
(* Small sets for TLC. *)
EXTENDS EquivocationHistory, TLC

CONSTANTS p1, p2, h1, h2, x1, x2

Symmetry == Permutations(Peers) \cup Permutations(Hashes) \cup Permutations(Heights)
=============================================================================
