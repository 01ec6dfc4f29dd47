SPECIFICATION Spec
CONSTANTS
  Caller = {h1, h2}
  Cleaner = {c1, c2}
  MaxGen = 2
  MaxTurns = 1
  Capacity = 1
  Batch = 1
  Faults = {"setup", "startWorker", "startCleaner", "startReaper"}
CHECK_DEADLOCK FALSE
SYMMETRY Threads
INVARIANTS
  WorkerKeepsRuntime
  OwnedSupervisorKept
