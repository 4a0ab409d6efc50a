SPECIFICATION Spec
CONSTANTS
  sel = sel  main = main  m1 = m1  m2 = m2  r1 = r1  b1 = b1  b2 = b2
  p1 = p1  p2 = p2  p3 = p3  F = F  I = I
  Nobody = Nobody  Vacant = Vacant  NoMatch = NoMatch
  Keys = {sel, main}
  Matches = {m1, m2}
  AflRounds = {r1}
  RoundMatches <- MCRoundMatches
  Configs <- MCConfigs
  Operators = {}
  Tasks <- MCTasks
  Observers = {b1, b2}
  Slots = {F, I}
  Players = {p1, p2, p3}
  Sheets <- MCSheets
  PlaysIn <- MCPlaysIn
  Roles <- MCRoles
  InitialPlan <- MCInitialPlan
  MaxMapping = 1
  MaxRevision = 2
  MaxLineup = 3
PROPERTIES SubmissionKeepsEvidence SubmissionKeepsEarlierLocks LockedCorrectionsMarked
