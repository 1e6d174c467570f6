--------------------------- MODULE MCPrevhashHistory ---------------------------
(* Small instances of the prevhash monitor and its observer for TLC. *)
EXTENDS PrevhashHistory, TLC

\* A sender's clock one unit ahead, a fresh report, and one already stale.
MCAnnounceAges == {-1, 0, PeerStale}

Symmetry == Permutations(Peers) \cup Permutations(Hashes)
=============================================================================
