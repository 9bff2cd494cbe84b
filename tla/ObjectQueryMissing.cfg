SPECIFICATION Spec
CONSTANTS
  Object = {1, 2, 3}
  Value = {1, 2}
  Sorts <- OneField
  Limit = 1
  MaxWrites = 0
INVARIANTS
  GapFree
CHECK_DEADLOCK FALSE
