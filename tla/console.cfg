CONSTANTS
  Writers = {g1, g2}
  Size = 3
  MaxUnits = 4
  MaxPiece = 4
  Names = {a}
  MaxMeta = 2
  Records <- MCRecords
  Roles <- MCRoles
SYMMETRY SymmetricLog
SPECIFICATION LogSpec
INVARIANTS StreamKept AnswerIsTrue RecordsUnbroken HandleTold MetadataLatest AnonymousKept
CHECK_DEADLOCK FALSE
