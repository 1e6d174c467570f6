\* Default mode: three peers, three prevhashes, clocks that disagree.
SPECIFICATION HSpec
CONSTANTS
  p1 = p1
  p2 = p2
  p3 = p3
  h1 = h1
  h2 = h2
  h3 = h3
  None = None
  Peers = {p1, p2, p3}
  Hashes = {h1, h2, h3}
  PeerStale = 3
  DivergenceMs = 2
  MinPeersForAlert = 2
  HistoryK = 3
  MajorityVote = TRUE
  AnnounceAges <- MCAnnounceAges
SYMMETRY Symmetry
INVARIANTS TypeOK AlertIsEarned AccusersOutnumberUs EpisodeIsTheRun
PROPERTIES AlarmProtocol
