SPECIFICATION Spec
CONSTANTS
  Users = {"small", "big"}
  Followers <- MCFollowers
  Thresholds = {0, 2}
  MaxHeaders = 2
  MaxProving = 2
  MaxFrames = 3
INVARIANTS TypeOK SettledReleases ProofIsVerified ResultMatchesTask
PROPERTY ImplementsAwait
\* A call that is over, with its socket closed, has nothing left to do.
CHECK_DEADLOCK FALSE
