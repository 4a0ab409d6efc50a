SPECIFICATION MCSpec
CONSTANTS
  Starters = {F}
  Interchange = I
  Vacant = Vacant
  Players = {p1, p2}
  Doubtful = {}
  NumMatchups = 1
  Entries = {e1, e2, e3, e4}
  Draw <- MCDraw
  TeamSheets <- MCSheets
  Contested <- MCContested
  Scorers = {s1, s2}
  Nobody = Nobody
  NotCalculated = NotCalculated
  StaleWindow <- AnyMayBeStale
  MaxFacts = 2
  MaxLineup <- MCMaxLineup
  MaxReview <- MCMaxReview
  MaxOfficial = 3
  s1 = s1  s2 = s2  Duties <- RecalculatorDuties
  e1 = e1  e2 = e2  e3 = e3  e4 = e4
  p1 = p1  p2 = p2  F = F  I = I
CHECK_DEADLOCK FALSE
PROPERTIES OlderFactsOnlyFromOthers CalculationNeverRegresses
