SPECIFICATION SeriesSpec
CONSTANTS
  None = None
  Outcomes <- MCOutcomes
  Submitters = {4}
  Ruled = {"first_semi"}
  Triggered = {2}
  MaxVersion = 2
  MaxReview <- MCMaxReview
  MaxFixes = 1
CHECK_DEADLOCK FALSE
INVARIANTS BracketFollowsResults ResultsOfTheirPairing LineupsOfFinalists OpenWeeksAreComplete
PROPERTIES CorrectionsEnd
