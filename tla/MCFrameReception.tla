---------------------------- MODULE MCFrameReception ----------------------------
(* A few messages for TLC. *)
EXTENDS FrameReception

CONSTANTS h1, h2, h3, f1, f2

Fill(n, first, last) == [k \in 1 .. n |-> IF k = n THEN last ELSE first]

MCPeer == Fill(32, 255, 7)

MCOther == Fill(32, 255, 8)

\* The HELLOs of two peers that happen to have the same nonce, one of them with two; two
\* announcements of the same time, pool and hash for different heights.
MCHello(identity, timestamp, nonce) ==
  [type |-> "hello", timestamp |-> Fill(8, 0, timestamp), identity |-> identity,
   says |-> [ephPub |-> Fill(32, 1, 0), prevhash |-> Fill(32, 255, 254), nonce |-> Fill(16, 0, nonce)]]
MCAnnouncement(height) ==
  [type |-> "prevhash", timestamp |-> Fill(8, 0, 9), identity |-> MCPeer,
   says |-> [poolId |-> Fill(8, 0, 5), prevhash |-> Fill(32, 3, 4), blockHeight |-> Fill(8, 0, height)]]
MCContent ==
  [m \in {h1, h2, h3, f1, f2} |->
     CASE m = h1 -> MCHello(MCPeer, 1, 1)
       [] m = h2 -> MCHello(MCOther, 2, 1)
       [] m = h3 -> MCHello(MCPeer, 1, 2)
       [] m = f1 -> MCAnnouncement(0)
       [] m = f2 -> MCAnnouncement(1)]

MCHelloKey == [h \in Hellos |-> MCContent[h].says.nonce]

\* A key stands for the frames that have it.
SameKey ==
  {p \in {<<f, g>> : f \in Frames, g \in Frames} : ReplayKey(Encoded(p[1])) = ReplayKey(Encoded(p[2]))}
MCFrameKey == [f \in Frames |-> {g \in Frames : <<f, g>> \in SameKey}]
=============================================================================
