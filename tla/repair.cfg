SPECIFICATION Spec
CHECK_DEADLOCK FALSE
CONSTANTS
  N = 3
  Cap = 1
  Batch = 2
  MaxItems = 2
  Profiles <- MCProfiles
  Requests <- MCRequests
  Faults = {"item", "savepoint", "encode", "sql", "commit", "inspect", "death"}
INVARIANTS
  ReportTruthful
  BackupBeforeChange
PROPERTIES
  InformationPreserved
  CompletedIsClean
