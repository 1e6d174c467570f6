\* Does mining pause for the backoff?
SPECIFICATION GuardSpec
CONSTANTS
  None = None
  Sources <- MCHealth
  GracePeriod = 1
  MaxFallbacks = 0
  MaxPolls = 2
  MaxPending = 2
INVARIANTS BackoffIsKept
\* After a signal the process has exited.
CHECK_DEADLOCK FALSE
