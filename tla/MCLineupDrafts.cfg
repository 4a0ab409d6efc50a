SPECIFICATION Spec
CONSTANTS
  sel = sel  main = main  m1 = m1  m2 = m2  m3 = m3
  p1 = p1  p3 = p3  n = n  r1 = r1  r2 = r2  F = F  I = I
  Nobody = Nobody  Vacant = Vacant  NoMatch = NoMatch
  Slots = {F, I}
  Players = {p1, p3, n}
  Matches = {m1, m2, m3}
  PlaysIn <- MCPlaysIn
  Start <- MCStart
  MayStartEarly = {m2}
  Triggers = {sel, main}
  Main = main
  TriggerMatches <- MCTriggerMatches
  Earlier = 1
  Requests = {r1, r2}
  Casts <- MCCasts
  Sheets <- MCSheets
  Nominees = {n}
  InitialEarlier <- MCInitialEarlier
  MaxTime = 3
  MaxRevision = 3
  MaxLineup = 2
  MaxEarlier = 2
CONSTRAINT LastInstantForCaptures
PROPERTIES SubmittedAsSeen CopiesCurrentSource NominationsHonoured CaptureIsPreLock
