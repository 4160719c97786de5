SPECIFICATION FairSpec
CONSTANTS
  Calls = {k1, k2}
  k1 = k1
  k2 = k2
  Asked <- MCAsked
  CallerKeys <- MCCallerKeys
  Plaintexts <- MCPlaintexts
  MaxUpdates = 2
  MaxKey = 2
INVARIANTS KeyCheckedFirst ResolvedIsTrue SealedToTheGateway
PROPERTY UpdatesArrive
\* When every call is settled and every socket closed there is nothing left to do.
CHECK_DEADLOCK FALSE
