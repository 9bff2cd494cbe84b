SPECIFICATION Spec
CONSTANTS
  Writer = {w1, w2}
  Runner = {r1}
  Rebuilder = {}
  RebuildAlone = TRUE
  MaxPosition = 3
  PageSize = 2
  MaxFailures = 0
  Handled = {1, 3}
  Nobody = Nobody
INVARIANT
  NothingEverSkipped
