SPECIFICATION AuditSpec
CHECK_DEADLOCK FALSE
CONSTANTS
  Turns = {"turn"}
  Maintainers = {"sleep"}
  MaxTx = 1
  RowCap = 14
  AuditProfiles <- MCProfiles
  AuditFaults = {"open", "sql"}
INVARIANTS
  CutoffReported
PROPERTIES
  VerdictSound
