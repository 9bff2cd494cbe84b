SPECIFICATION Spec
CONSTANTS
  Writer = {w1, w2}
  Stream = {s1, s2}
  EventId = {e1, e2}
  Batch <- ShortLists
  MaxVersion = 1
  MaxPosition = 3
SYMMETRY Symmetry
INVARIANTS
  TypeOK
  GapFree
  PositionsFollowVersions
  AckedIsStored
PROPERTIES
  RefusedOnlyIfAbsent
  ImplementsStreamLog
  ImplementsGlobalFeed
