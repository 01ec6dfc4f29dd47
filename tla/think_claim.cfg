SPECIFICATION ThinkSpec
CONSTANTS
  p1 = p1
  p2 = p2
  p3 = p3
  NoProcess = NoProcess
  Process = {p1, p2, p3}
  Interval = 3
  ThinkFaults = {"death", "commit"}
SYMMETRY Symmetric
INVARIANTS
  LiveClaimKept
  UnsettledNeverReplayed
PROPERTIES
  CycleEveryInterval
