SPECIFICATION MCSpec
CONSTANTS
  Starters = {F}
  Interchange = I
  Vacant = Vacant
  Players = {p1, p2}
  Doubtful = {p2}
  NumMatchups = 2
  Entries = {e1, e2, e3, e4}
  Draw <- MCDraw
  TeamSheets <- MCSheets
  Contested <- MCContested
  Scorers = {s1, s2}
  Nobody = Nobody
  NotCalculated = NotCalculated
  StaleWindow <- NeverStale
  MaxFacts = 0
  MaxLineup <- MCMaxLineup
  MaxReview <- MCMaxReview
  MaxOfficial = 3
  s1 = s1  s2 = s2  Duties <- MCDuties
  e1 = e1  e2 = e2  e3 = e3  e4 = e4
  p1 = p1  p2 = p2  F = F  I = I
CHECK_DEADLOCK FALSE
PROPERTIES FrozenDecisionsCurrent SignoffOnCurrentLineup ImplementsLedger
