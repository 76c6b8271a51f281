SPECIFICATION Spec
CONSTANTS
  Runs = {r1, r2}
  Tasks = {t1, t2}
  MaxSlots = 1
SYMMETRY SymmetricGroup
INVARIANTS
  RunWaitsForTasks
  NoErrorLost
  NilMeansAllRan
  SlotsConserved
  ConcurrencyBound
  CauseIsTrue
CHECK_DEADLOCK FALSE
