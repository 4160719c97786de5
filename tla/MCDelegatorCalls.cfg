SPECIFICATION FairSpec
CONSTANTS
  Calls = {k1, k2}
  Intents = {i1}
  Asks <- MCAsks
INVARIANTS CreatedOnce AnswersHeld
PROPERTIES AbortIsHeeded CallsEnd
\* Calls that have settled, of intents that are gone, leave nothing to do.
CHECK_DEADLOCK FALSE
