SPECIFICATION FairSpec
CONSTANTS
  s1 = s1
  r2 = r2
  r1 = r1
  None = None
  Supervisor = {s1}
  Request = {r1, r2}
  MaxChild = 2
  MaxClose = 1
  Faults = {"exit", "protocol", "reaper", "cleanup", "thread"}
CHECK_DEADLOCK FALSE
INVARIANTS
  ChannelInSync
  CallbackAfterRelease
PROPERTIES
  NoServiceAfterClose
  ClosedIsReleased
