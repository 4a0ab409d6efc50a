SPECIFICATION SeasonSpec
CONSTANTS
  a = a  b = b  fifthA = fifthA  fifthB = fifthB
  Clubs = {a, b}
  ByeRounds = {2, 3, 4}
  Unpublished = unpublished
  Fixtures <- FixturesInTime
  NoOpening = no_opening
  TeamCount = 2
  MaxEntries = 3
  MaxDraws = 2
  None = None
  Undecided = undecided
  Orders = {fifthA, fifthB}
  Tied = Tied
  Historical = historical
  MaxResults = 2
  MaxRulings = 2
  Teams = {a, b}
  Last <- LastOf
  MaxGrand = 2
CONSTRAINT SettledBeforePlay
CHECK_DEADLOCK FALSE
INVARIANTS ActiveSeasonIsSetUp AwardsAreRight
PROPERTIES FrozenOrderIsRight DraftedOnDecidedRules
