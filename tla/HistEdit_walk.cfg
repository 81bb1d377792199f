SPECIFICATION Spec
CONSTANTS
  Empty = Empty
  a = a
  b = b
  Lines <- NarrowLines
  Stored <- StoredNarrow
  MaxHist = 3
  Habits = {}
SYMMETRY Texts
INVARIANTS TypeOK OneEditEach Anchored
PROPERTIES ViewSpec
