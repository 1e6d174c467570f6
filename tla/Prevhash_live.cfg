\* Two peers, two prevhashes, fair polls and a running clock, in both modes.
SPECIFICATION MCFairSpec
CONSTANTS
  p1 = p1
  p2 = p2
  h1 = h1
  h2 = h2
  None = None
  Peers = {p1, p2}
  Hashes = {h1, h2}
  PeerStale = 2
  DivergenceMs = 2
  MinPeersForAlert = 1
  HistoryK = 2
  MajorityVote = TRUE
  AnnounceAges <- MCFreshAnnounce
PROPERTIES MinorityIsReported AgreementEndsAlarm LegacyFollowsPeers
