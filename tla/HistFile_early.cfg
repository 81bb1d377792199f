SPECIFICATION Spec
CONSTANTS
  s1 = s1
  s2 = s2
  Shells = {s1, s2}
  RotateAt = 1
  MaxName = 3
  MaxLogs = 2
  MaxRotations = 2
  MaxStarts = 2
  MaxPushes = 0
  MaxActive = 2
  Faults <- NoFaults
SYMMETRY ShellSymmetry
INVARIANT RotatesOwnFile
CHECK_DEADLOCK FALSE
