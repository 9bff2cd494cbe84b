SPECIFICATION WorkersSpec
CONSTANTS
  Webhook = {h}
  Mention = {m, n}
  First = {m}
  Run = {r1, r2}
  Process = {p1, p2}
  Nobody = Nobody
  MaxAttempts = 2
  MaxActions = 2
  MaxSlots = 1
  MaxMishaps = 1
  Trigger = {t}
  Interval = 2
  MaxNow = 5
  Object = {a, b}
  MaxNewMatchesPerTick = 1
  MaxChanges = 3
  MaxClashes = 1
  c1 = c1
  c2 = c2
  c3 = c3
  proposals = proposals
  records = records
  workspace = workspace
  Conn = Conn
  Capacity = 5
  MaxReads = 2
CHECK_DEADLOCK FALSE
INVARIANTS
  TypesOK
  JobsHold
  LimitsHold
  FiringsPaidFor
PROPERTIES
  EveryJobEnds
  WorkGetsDone
