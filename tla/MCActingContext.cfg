SPECIFICATION ContextSpec
CONSTANTS
  c1 = c1  c2 = c2  e1 = e1  e2 = e2  t1 = t1  t2 = t2
  q1 = q1  q2 = q2  q3 = q3  g1 = g1  g2 = g2  s1 = s1  s2 = s2
  Coaches = {c1, c2}
  WithLogin = {c1}
  Entries = {e1, e2}
  Seasons = {t1, t2}
  SeasonOf <- MCSeasonOf
  FirstHolder <- MCFirstHolder
  Roles = {"scorer", "admin"}
  Requests = {q1, q2, q3}
  GrantIds = {g1}
  SessionIds = {s1, s2}
  MaxCredential = 3
  None = None
  AllSeasons = AllSeasons
CONSTRAINT ContextBounds
SYMMETRY ContextSymmetry
CHECK_DEADLOCK FALSE
INVARIANTS ActsWithinAuthority 
