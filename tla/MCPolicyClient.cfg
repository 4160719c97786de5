SPECIFICATION Spec
CONSTANTS
  k1 = k1
  k2 = k2
  k3 = k3
  k4 = k4
  w1 = w1
  w2 = w2
  s1 = s1
  s2 = s2
  Calls = {k1, k2, k3, k4}
  Wallets = {w1, w2}
  Sets = {s1, s2}
  Asked <- MCAsked
  MaxRevision = 2
  MaxNonce = 2
INVARIANT IdsAreTrue
PROPERTY ResignationHolds
\* Calls that have settled, and transactions that are mined, leave nothing to do.
CHECK_DEADLOCK FALSE
