SPECIFICATION Spec
CONSTANTS
  p1 = p1
  p2 = p2
  p3 = p3
  mA = mA
  mB = mB
  n1 = n1
  n2 = n2
  NoModel = NoModel
  Process = {p1, p2, p3}
  Model = {mA, mB}
  Node = {n1, n2}
  MaxEpoch = 3
  Faults = {"backup", "embed", "restore", "publish", "death"}
SYMMETRY Symmetric
INVARIANTS
  OperationsMatchIdentity
  EpochNamesModel
PROPERTIES
  PublishedOverOwnRows
