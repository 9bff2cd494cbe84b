SPECIFICATION Spec
CONSTANTS
  Item = {i1, i2, i3}
  Pair = {p, q}
  One = {d}
SYMMETRY Symmetric
CHECK_DEADLOCK FALSE
INVARIANTS
  TypeOK
  RelationsHold
  FieldsHold
  ObjectHolds
  RecordsHold
  SuggestionsHold
  FederationHolds
  BudgetsHold
  ViewsHold
PROPERTIES
  StepsHold
