CONSTANTS
  Depth = 2
  PerBuffer = 2
  BaseUnits = 2
  MaxCopies = 2
SPECIFICATION FairSpec
INVARIANTS TypeOK LiveWhileNeeded StreamKept CountsTrue
PROPERTY CopyReturns
CHECK_DEADLOCK FALSE
