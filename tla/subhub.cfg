SPECIFICATION FairSpec
CONSTANTS
  Hubs = {h1}
  Topics = {a, b}
  Subscribers = {s1, s2}
  MaxQueue = 1
  MaxValues = 2
INVARIANTS
  OrderedDelivery
  StaysRegistered
  PanicNeedsMisuse
PROPERTIES
  NothingAfterUnsubscribe
  PublishEnds
CHECK_DEADLOCK FALSE
