SPECIFICATION Spec
CONSTANTS
  IsMac = FALSE
  MaxActs = 4
CHECK_DEADLOCK FALSE
INVARIANTS
  LabelsTellTheTruth
