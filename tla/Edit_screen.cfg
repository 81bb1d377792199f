SPECIFICATION Spec
CONSTANTS
  Cols = 3
  Rows = 6
  HasRight = TRUE
  Chars = {"x"}
  Breaks <- BreaksAll
  Keys <- ScreenKeys
  Restored <- Long
  MaxLen = 4
  MaxYank = 100
  MaxShown = 1
  Habits = {}
INVARIANTS ScreenTrue CleanRow
PROPERTIES WindowBelow RightTrue
CHECK_DEADLOCK FALSE
VIEW Drawn
