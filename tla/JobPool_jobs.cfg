SPECIFICATION FairSpec

CONSTANTS
  j1 = j1
  j2 = j2
  j3 = j3
  w1 = w1
  w2 = w2
  none = none
  Jobs = {j1, j2, j3}
  Abortable = {j1, j2}
  Workers = {w1, w2}
  MaxInits = 2

INVARIANT TypeOK
INVARIANT AllEndBeforeShutdown

PROPERTY AbortHolds
PROPERTY AbortsReachAll
PROPERTY JobsAreServed

CHECK_DEADLOCK FALSE
