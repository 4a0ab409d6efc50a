SPECIFICATION MCSpec
CONSTANTS
  e1 = e1
  e2 = e2
  Entries = {e1, e2}
  Players = {p1, p2, p3, p4}
  Open = Open
  NoPlayer = NoPlayer
  Orders <- MCOrders
  PickTrades <- MCPickTrades
  Limits = {1, 2}
  Quarantinable = {p1, p2, p3, p4}
  Triggers = {1, 2}
  MaxTime = 3
  MaxVersion = 2
  MaxTrades = 1
  CorrectedLate = FALSE
CONSTRAINT Bounds
SYMMETRY MCSymmetry
INVARIANTS PicksInTurn FrozenSquadsStand DelistedAreOwned WithinLimit PicksFillVacancies
PROPERTIES HistoryKept
CHECK_DEADLOCK FALSE
