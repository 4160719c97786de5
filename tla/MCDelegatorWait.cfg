SPECIFICATION ClientSpec
CONSTANTS
  Untils <- MCUntils
  MaxEvents = 2
  MaxClock = 3
  Limit = 1
  Freshness = 1
  ExpiresInSecs = 2
INVARIANTS
  StopReason
  CleanedUp
  FeedIsComplete
PROPERTIES
  NoResolveAfterAbort
  WaitEnds
  ImplementsAwait
\* A settled wait on an intent that has ended has nothing left to do.
CHECK_DEADLOCK FALSE
