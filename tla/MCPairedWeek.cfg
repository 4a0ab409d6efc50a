SPECIFICATION MCPairSpec
CONSTANTS
  Keys <- TwoKeys
  Configs <- FewConfigs
  AflRounds = {1, 2}
  Never = never
  Removed = removed
  NoRow = noRow
  MaxMapping = 3
  MaxEdits = 1
CHECK_DEADLOCK FALSE
INVARIANTS PlannerFindsOrder
PROPERTIES SyncMirrorsFinals
