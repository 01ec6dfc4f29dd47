SPECIFICATION Spec
CONSTANTS
  Workers = {w1, w2}
  N = 2
  LinkK = 1
  Hops = 1
  MaxOps = 2
  Index = TRUE
  Faults = {"sql", "encode", "vec", "count", "column", "death"}
SYMMETRY Symmetry
INVARIANTS
  EdgesHaveEnds
  PartialTruthful
  CompletedIsEmbedded
  RecallLive
  
CHECK_DEADLOCK FALSE
