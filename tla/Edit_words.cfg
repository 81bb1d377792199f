SPECIFICATION Spec
CONSTANTS
  Cols = 8
  Rows = 4
  HasRight = FALSE
  Chars = {"x", "/", "W"}
  Breaks <- BreaksAll
  Keys <- WordKeys
  Restored <- Mixed
  MaxLen = 4
  MaxYank = 100
  MaxShown = 0
  Habits = {"killWide"}
INVARIANTS AtBoundary ScreenTrue
PROPERTIES OnCharacter
CHECK_DEADLOCK FALSE
VIEW InOneRow
