SPECIFICATION Spec
CONSTANTS
  Empty = Empty
  a = a
  b = b
  c = c
  Lines <- NarrowLines
  Stored <- StoredNarrow
  MaxIndex = 4
  Habits = {}
INVARIANTS TypeOK WellFormed
PROPERTIES StackSpec UndoesEdit RedoesUndone WalkForgetsNone
