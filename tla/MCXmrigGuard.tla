------------------------------ MODULE MCXmrigGuard ------------------------------
(* Small instances of the wrapper for TLC. *)
EXTENDS XmrigGuard

MCStatsAndHealth == {"stats", "health"}
MCHealth == {"health"}
=============================================================================
