\* Two IPs, three sockets.
SPECIFICATION Spec
CONSTANTS
  None = None
  i1 = i1
  i2 = i2
  s1 = s1
  s2 = s2
  s3 = s3
  Ips = {i1, i2}
  Sockets = {s1, s2, s3}
  MaxSessions = 2
  HalfOpenCap = 2
  HandshakeRate = 2
  HandshakeWindow = 2
SYMMETRY Symmetry
INVARIANTS TypeOK SlotsAreConserved
PROPERTIES BudgetBuysSockets
