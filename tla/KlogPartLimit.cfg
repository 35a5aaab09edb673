CONSTANTS
  MaxParts = 2
  PartSize = 4
  Lengths = {2, 3}
  MaxRecords = 12
  MaxAfterFailure = 0
  Crashes = FALSE
SPECIFICATION Spec
INVARIANTS PartCountLimit
CHECK_DEADLOCK FALSE
