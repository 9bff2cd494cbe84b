SPECIFICATION Spec
CONSTANTS
  Caller = {c1, c2}
  Budget = 1
  MaxOutcomes = 4
  MaxMishaps = 1
CHECK_DEADLOCK FALSE
INVARIANT
  OverBudgetPaidFor
