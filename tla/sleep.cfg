SPECIFICATION FairSpec
CONSTANTS
  N = 3
  Near <- MCNear
  Twin <- MCTwin
  MaxEdges = 2
  Batch = 1
  Modes <- MCModes
  OrphanLimit = 1
  OrphanBatch = 2
  SampleK = 1
  Recalled = {2}
  Dreams = {2}
  Faults = {"pair", "commit", "encode", "vec", "raise", "death"}
INVARIANTS
  PermanentNotDecayed
  ClaimedPairsLinked
  
PROPERTIES
  MergeKeepsMemory
  EveryNodeSelected
