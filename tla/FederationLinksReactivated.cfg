SPECIFICATION Spec
CONSTANTS
  Workspace = {v, w}
  User = {a, b}
  Caller = {p, q}
  MaxLinks = 1
CHECK_DEADLOCK FALSE
PROPERTY
  RevokedStaysRevoked
