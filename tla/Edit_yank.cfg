SPECIFICATION Spec
CONSTANTS
  Cols = 6
  Rows = 4
  HasRight = FALSE
  Chars = {"x"}
  Breaks <- BreaksAll
  Keys <- YankKeys
  Restored <- Short
  MaxLen = 3
  MaxYank = 2
  MaxShown = 0
  Habits = {}
INVARIANTS TypeOK PastedApart
PROPERTIES PasteRestores
CHECK_DEADLOCK FALSE
VIEW Yanks
