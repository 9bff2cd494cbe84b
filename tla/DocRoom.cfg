SPECIFICATION FairSpec
CONSTANTS
  Conn = {c1, c2}
  Edit = {e1, e2}
  Room = {r1, r2, r3}
  NoRoom = NoRoom
  MaxUpdates = 2
  MaxFailures = 1
  MaxJoins = 4
CHECK_DEADLOCK FALSE
INVARIANTS
  TypeOK
  SingleAuthority
  EditsSurvive
  LosslessRestart
PROPERTIES
  SnapshotsGrow
  EventuallySaved
