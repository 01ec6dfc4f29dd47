SPECIFICATION FairSpec
CONSTANTS
  t1 = t1
  t2 = t2
  idA = idA
  idB = idB
  Thread = {t1, t2}
  Process <- MCProcess
  Requests <- MCRequests
  Identity = {idA, idB}
  NoIdentity = NoIdentity
  MaxRetries = 2
  MaxNesting = 1
INVARIANTS
  NestedIsCovered
  NoHoldAndWait
PROPERTIES
  EveryAdmissionDecided
  AdmissionIsAtomic
