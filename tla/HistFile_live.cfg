SPECIFICATION FairSpec
CONSTANTS
  s1 = s1
  s2 = s2
  Shells = {s1, s2}
  RotateAt = 1
  MaxName = 3
  MaxLogs = 2
  MaxRotations = 1
  MaxStarts = 2
  MaxPushes = 1
  MaxActive = 2
  Faults <- AllButWrites
INVARIANT FullFileOpen
PROPERTY OperationEnds
CHECK_DEADLOCK FALSE
