CONSTANTS
  Copies = {s1, s2}
  Pipes = {p1, p2}
  Length = 2
SPECIFICATION Spec
INVARIANT NoPipeFallsBack
CHECK_DEADLOCK FALSE
