\* stop() during a handshake.
SPECIFICATION Spec
CONSTANTS
  None = None
  a = a
  b = b
  b2 = b2
  ha = ha
  hb = hb
  Nodes = {a, b, b2}
  First = {a, b}
  Homes = {ha, hb}
  Home <- MCHome
  Setups <- MCStop
  Blocks = {1, 2}
  Slots = {1}
INVARIANTS StopIsFinal
\* A linked federation in which nothing fails has nothing left to do.
CHECK_DEADLOCK FALSE
