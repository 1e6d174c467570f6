\* A pool that reports on itself: two polls in flight see the same fork.
SPECIFICATION FetchSpec
CONSTANTS
  None = None
  u1 = u1
  u2 = u2
  Urls <- MCUrls
  MaxRedirects = 0
  MaxBody = 0
  Sources <- MCSelfReport
  GracePeriod = 2
  MaxFallbacks = 2
  MaxPolls = 2
PROPERTIES ForkRespectsCooldown
