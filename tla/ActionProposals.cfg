SPECIFICATION FairSpec
CONSTANTS
  Action = {split, assign}
  Titles <- TwoTitles
  Subtasks = {split}
  Decisions <- Lists
  Caller = {p, q}
  Proposer = p
  MaxFailures = 1
INVARIANTS
  TypeOK
  OnlyWhenAllowed
  LedgerIsTrue
  UndoneOnce
PROPERTIES
  ImplementsContract
  ApprovedIsCarriedOut
