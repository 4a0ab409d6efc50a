SPECIFICATION RoundSpec
CONSTANTS
  e1 = e1  e2 = e2  p1 = p1  p2 = p2
  Entries = {e1, e2}
  Publishers = {p1, p2}
  None = None
  MaxReview = 2
  MaxFacts = 2
  MaxBoards = 2
SYMMETRY RoundSymmetry
CHECK_DEADLOCK FALSE
PROPERTIES BoardIsCurrent SettledByCompletion
