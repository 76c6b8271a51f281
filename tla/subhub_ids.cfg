SPECIFICATION Spec
CONSTANTS
  Hubs = {h1, h2}
  Topics = {a}
  Subscribers = {s1, s2, s3, s4}
  MaxQueue = 0
  MaxValues = 0
SYMMETRY SymmetricHub
INVARIANTS
  StaysRegistered
CHECK_DEADLOCK FALSE
