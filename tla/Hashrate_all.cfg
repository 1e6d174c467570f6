\* Every source, two URLs for the network's hashrate; two polls in flight, or the
\* fetches of one; two fallback pools.
SPECIFICATION FetchSpec
CONSTANTS
  None = None
  u1 = u1
  u2 = u2
  Sources <- MCAllSources
  GracePeriod = 2
  MaxFallbacks = 2
  MaxPolls = 2
  Urls <- MCUrls
  MaxRedirects = 3
  MaxBody = 2
INVARIANTS TypeOK GraceIsJustified
PROPERTIES ThresholdEvacuationsAreApart PollEnds
