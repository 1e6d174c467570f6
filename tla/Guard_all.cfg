\* Up to two fallback pools, both independent sources, fair timers.
SPECIFICATION GuardFairSpec
CONSTANTS
  None = None
  Sources <- MCStatsAndHealth
  GracePeriod = 1
  MaxFallbacks = 2
  MaxPolls = 2
  MaxPending = 2
INVARIANTS GuardTypeOK OneMinerOnCurrentPool NeverUnwatched
PROPERTIES EvacuationLeavesPool MinerComesBack
\* After a signal the process has exited.
CHECK_DEADLOCK FALSE
