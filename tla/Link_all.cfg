\* Two homes: one dials the other, or each dials the other.
SPECIFICATION FairSpec
CONSTANTS
  None = None
  a = a
  b = b
  b2 = b2
  ha = ha
  hb = hb
  Nodes = {a, b, b2}
  First = {a, b}
  Homes = {ha, hb}
  Home <- MCHome
  Setups <- MCAll
  Blocks = {1, 2}
  Slots = {1, 2}
INVARIANTS MeshTypeOK RegisteredIsLive ReadyIsRegistered SeedIsHandledOnce FramesFollowHello
PROPERTIES LinkHeals AnnouncementArrives
\* A linked federation in which nothing fails has nothing left to do.
CHECK_DEADLOCK FALSE
