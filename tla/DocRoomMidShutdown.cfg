SPECIFICATION Spec
CONSTANTS
  Conn = {c1}
  Edit = {e1, e2, e3}
  Room = {r1, r2, r3}
  NoRoom = NoRoom
  MaxUpdates = 2
  MaxFailures = 0
  MaxJoins = 3
CHECK_DEADLOCK FALSE
INVARIANT
  EveryRestartLossless
