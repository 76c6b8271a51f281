CONSTANTS
  Producers = {p1, p2}
  QueueLen = 1
  Goroutines = {g1, g2}
  maker = g1
  Services = {m, s}
  metrics = m
  Types = {t}
  None = none
  MaxOps = 5
SPECIFICATION FairServices
INVARIANTS ServicesAccounted AnswerTellsState PanicNeedsCause
PROPERTY CloseIsHeard
CHECK_DEADLOCK FALSE
