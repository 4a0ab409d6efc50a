SPECIFICATION PlanSpec
CONSTANTS
  k1 = k1  k2 = k2  m1 = m1
  r1 = r1  r2 = r2  o1 = o1  o2 = o2  b1 = b1
  Nobody = Nobody
  Keys = {k1, k2}
  Matches = {m1}
  AflRounds = {r1, r2}
  RoundMatches <- MCRoundMatches
  Configs <- MCConfigs
  Operators = {o1, o2}
  Tasks <- MCTasks
  Observers = {b1}
  MaxMapping = 2
  MaxRevision = 2
SYMMETRY KeySymmetry
INVARIANTS ActivatedPlanFrozen PlanWellOrdered
PROPERTIES DecisionsSeeTheirTrigger FollowsMapping
