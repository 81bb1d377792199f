SPECIFICATION Spec
CONSTANTS
  s1 = s1
  s2 = s2
  Shells = {s1, s2}
  RotateAt = 1
  MaxName = 3
  MaxLogs = 0
  MaxRotations = 1
  MaxStarts = 3
  MaxPushes = 0
  MaxActive = 2
  Faults <- LockTimeout
SYMMETRY ShellSymmetry
INVARIANT MutualExclusion
CHECK_DEADLOCK FALSE
