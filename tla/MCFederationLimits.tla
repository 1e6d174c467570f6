--------------------------- MODULE MCFederationLimits ---------------------------
(* Small sets of peers for TLC. *)
EXTENDS FederationLimits

CONSTANTS p1, p2, i1, i2

\* Both peers behind one IP; one peer each on two IPs; one of them dialed.
SharedIp == [p \in Peers |-> i1]
OwnIps == [p \in Peers |-> IF p = p1 THEN i1 ELSE i2]
OneDialed == [p \in Peers |-> IF p = p1 THEN i1 ELSE None]

MCOrigins == {SharedIp, OwnIps, OneDialed}
MCFewHards == [origin \in Origins |-> IF origin = SharedIp THEN 3 ELSE 1]
=============================================================================
