\* A cache and a log that are too small for what is said.
SPECIFICATION HSpec
CONSTANTS
  None = None
  p1 = p1
  p2 = p2
  h1 = h1
  h2 = h2
  x1 = x1
  x2 = x2
  Peers = {p1, p2}
  Heights = {h1, h2}
  Hashes = {x1, x2}
  Window = 2
  MaxEntries = 2
  MaxHeights = 1
SYMMETRY Symmetry
INVARIANTS TypeOK OldestFirst VerdictsAreJust
PROPERTIES NoContradictionIsMissed
