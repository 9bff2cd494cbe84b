SPECIFICATION Spec
CONSTANTS
  Object = {a, b}
  Caller = {p, q}
  MaxEvents = 2
INVARIANTS
  NoParentCycle
CHECK_DEADLOCK FALSE
