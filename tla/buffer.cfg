CONSTANTS
  Buffers = {b1, b2}
  Chunks = {c1, c2}
  MinBits = 1
  MaxBits = 2
  MaxManaged = 3
  PoolSize = 1
  Sizes = {0, 1, 3}
  MaxRef = 1
SYMMETRY SymmetricMemory
SPECIFICATION Spec
INVARIANTS TypeOK CursorsOrdered ChunkOnce
CHECK_DEADLOCK FALSE
