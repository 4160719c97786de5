SPECIFICATION Spec
CONSTANTS
  k1 = k1
  k2 = k2
  Calls = {k1, k2}
  Clients <- MCClients
  Nets <- MCNets
  MaxSigned = 2
  MaxTime = 1
  Ttl = 0
SYMMETRY MCSymmetry
INVARIANT TypeOK
PROPERTIES DoesWhatItAsks SentWhereDeployed
\* Writes that are mined, and time that has run out, leave nothing to do.
CHECK_DEADLOCK FALSE
