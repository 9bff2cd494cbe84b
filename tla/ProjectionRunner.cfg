SPECIFICATION FairSpec
CONSTANTS
  Writer = {w1, w2}
  Runner = {r1, r2}
  Rebuilder = {r1}
  RebuildAlone = TRUE
  MaxPosition = 4
  PageSize = 2
  MaxFailures = 2
  Handled = {1, 3, 4}
  Nobody = Nobody
INVARIANTS
  TypeOK
  EffectivelyOnce
  NothingSkipped
PROPERTIES
  CheckpointMonotone
  EventuallyApplied
