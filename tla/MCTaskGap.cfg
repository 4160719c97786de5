SPECIFICATION MCSpec
CONSTANTS
  MaxBlock = 4
  MaxHistory = 2
  TimeoutMs = 2
  DefaultFromBlocks <- MCDefaultFromBlocks
  LastBlock = 4
  Ttl = 2
  CacheLag = 1
PROPERTY ResponseEndsWait
\* A settled wait on a chain at its bound has nothing left to do.
CHECK_DEADLOCK FALSE
