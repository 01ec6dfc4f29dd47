SPECIFICATION AuditSpec
CHECK_DEADLOCK FALSE
CONSTANTS
  Turns = {"turn"}
  Maintainers = {}
  MaxTx = 3
  RowCap = 20
  AuditProfiles <- Healthy
  AuditFaults = {}
INVARIANTS
  SnapshotConsistent
