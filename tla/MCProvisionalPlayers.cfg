SPECIFICATION Spec
CONSTANTS
  Provisionals = {v1, v2}
  Canonicals = {c1, c2}
  NoCanonical = NoCanonical
SYMMETRY MCSymmetry
CHECK_DEADLOCK FALSE
INVARIANTS QuarantineIsExact OwnedMatchQuarantines
PROPERTIES RejectedForGood
