SPECIFICATION FairSpec
CONSTANTS
  Default <- Table
  CharArg <- TakeChar
  Repeatable <- Repeated
  Typed <- KeysTyped
  Bindings <- Binds
  MaxAhead = 2
  Space = 1
  Habits = {}
INVARIANTS TypeOK AsMeant AllEaten
PROPERTY Answered

CHECK_DEADLOCK FALSE
