---------------------------- MODULE MCFederationMesh ----------------------------
(* Small federations for TLC. *)
EXTENDS FederationMesh

CONSTANTS a, b, b2, ha, hb

MCHome == [n \in Nodes |-> IF n = a THEN ha ELSE hb]

\* b is a's seed; a is b's; each is the other's seed.
Knows(h) == [g \in Homes |-> IF g = h THEN Homes \ {h} ELSE {}]
Mutual == [g \in Homes |-> Homes \ {g}]

Setup(dials, broken, crashed, halted, known) ==
  [seeds |-> dials, faults |-> broken, crashes |-> crashed, stops |-> halted, blocks |-> known]

MCAll ==
  {Setup(Knows(ha), 3, 0, 1, 1),
   Setup(Mutual, 1, 0, 0, 1), Setup(Mutual, 0, 0, 1, 1),
   Setup(Knows(ha), 1, 0, 0, 2),
   Setup(Knows(ha), 0, 1, 0, 2), Setup(Knows(hb), 0, 1, 0, 1)}

MCStop == {Setup(Knows(ha), 0, 0, 1, 1)}
=============================================================================
