------------------------------- MODULE MCHashrate -------------------------------
(* Small instances of the hashrate monitor for TLC. *)
EXTENDS HashrateFetches

CONSTANTS u1, u2

MCAllSources == {"local", "stats", "health"}
MCSelfReport == {"health"}
MCUrls == [s \in Stages |-> IF s = "network" THEN {u1, u2} ELSE {u1}]
=============================================================================
