SPECIFICATION FairSpec
CONSTANTS
  Caller = {h1, h2}
  Cleaner = {c1}
  MaxGen = 1
  MaxTurns = 3
  Capacity = 1
  Batch = 2
  Faults = {}
CHECK_DEADLOCK FALSE
INVARIANTS
  LedgerMatchesTurns
  SentinelDrains
PROPERTY
  RuntimeReleased
