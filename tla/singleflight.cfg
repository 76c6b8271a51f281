SPECIFICATION FairSpec
CONSTANTS
  Callers = {r1, r2, r3}
  Keys = {k1, k2}
INVARIANTS
  OneInFlight
  SharedIsTrue
  FailureReachesAll
PROPERTIES
  NeverStale
  EveryCallerEnds
CHECK_DEADLOCK FALSE
