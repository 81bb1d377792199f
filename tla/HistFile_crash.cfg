SPECIFICATION Spec
CONSTANTS
  s1 = s1
  s2 = s2
  Shells = {s1, s2}
  RotateAt = 1
  MaxName = 4
  MaxLogs = 2
  MaxRotations = 2
  MaxStarts = 3
  MaxPushes = 0
  MaxActive = 2
  Faults <- LocalFaults
SYMMETRY ShellSymmetry
INVARIANTS TypeOK MutualExclusion LoadedOnce LoadedInOrder
PROPERTY StoreSpec
CHECK_DEADLOCK FALSE
