SPECIFICATION FairSpec
CONSTANTS
  Runs = {r1}
  Tasks = {t1, t2, t3}
  MaxSlots = 1
PROPERTIES
  Promise
  CancelledRunReturns
  FinishedTasksEndRun
CHECK_DEADLOCK FALSE
