SPECIFICATION Spec
CONSTANTS
  Empty = Empty
  Slash = Slash
  a = a
  b = b
  both = both
  Lines <- NarrowLines
  Terms <- NarrowTerms
  Stored <- StoredNarrow
  Matches <- MatchesNarrow
  MaxIndex = 2
  MaxHist = 2
  MaxEdits = 1
  Habits = {}
INVARIANTS TypeOK TermsNotPushed
PROPERTIES MissBringsBack UndoesSearch
SYMMETRY Swaps
VIEW Seen
