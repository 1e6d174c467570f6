\* Two peers, behind one IP, or on two, or one of them dialed; the ban list has
\* room for one IP.
SPECIFICATION Spec
CONSTANTS
  None = None
  p1 = p1
  p2 = p2
  i1 = i1
  i2 = i2
  Peers = {p1, p2}
  Ips = {i1, i2}
  Origins <- MCOrigins
  FrameBurst = 2
  FrameCap = 1
  StrikeWindow = 1
  SoftThreshold = 2
  HardThreshold = 3
  SoftQuarantine = 2
  HardQuarantine = 2
  HardHistory = 3
  HardLimit = 2
  PersistentBan = 5
  BanListMax = 1
  MaxHards <- MCFewHards
INVARIANTS TypeOK RecordKeepsOut StrikesAreBounded BanListIsSound
