CONSTANTS
  Copies = {s1, s2, s3}
  Pipes = {p1, p2}
  Length = 3
SYMMETRY SymmetricCopies
SPECIFICATION Spec
INVARIANTS PipeExclusive CleanCopyExact CountsTrue
CHECK_DEADLOCK FALSE
