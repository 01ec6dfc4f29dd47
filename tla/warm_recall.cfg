SPECIFICATION FairSpec
CHECK_DEADLOCK FALSE
CONSTANTS
  Models = {1, 2}
  Askers <- MCAskers
  Cap = 1
  MaxJobs = 2
  Sessions <- MCSessions
  MaxGen = 3
  MaxRuntime = 2
INVARIANTS
  StagedIsCurrent
  HitAnswersQuestion
  PermitsConserved
PROPERTIES
  QueuedIsHandled
