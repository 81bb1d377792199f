SPECIFICATION Spec
CONSTANTS
  Lines = 2
  Order <- OrderAll
  Typed <- TypedAll
  Lists <- ListsAll
  Helps <- HelpsAll
  Types <- TypesAll
  HistCnt = 3
  KeyCnt = 5
  Recalled <- RecalledLine
  MaxLen = 2
  Habits = {}
INVARIANTS TypeOK
PROPERTIES OnlyTheTerm AsSelected MarkedShown NothingSkipped
CHECK_DEADLOCK FALSE
VIEW Seen
