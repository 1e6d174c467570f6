\* Three HELLOs with two nonces, two frames, room for all nonces and for one frame.
SPECIFICATION ReceptionSpec
CONSTANTS
  None = None
  h1 = h1
  h2 = h2
  h3 = h3
  f1 = f1
  f2 = f2
  Hellos = {h1, h2, h3}
  Frames = {f1, f2}
  HelloKey <- MCHelloKey
  FrameKey <- MCFrameKey
  Content <- MCContent
  Peer <- MCPeer
  Changes = {1, 128}
  Tolerance = 2
  MaxNonces = 2
  MaxSeen = 1
INVARIANTS TypeOK NonceOnce HeardIsSaid ReplaysAreReplays
