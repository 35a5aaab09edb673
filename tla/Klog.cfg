CONSTANTS
  MaxParts = 2
  PartSize = 4
  Lengths = {2, 3}
  MaxRecords = 10
  MaxAfterFailure = 4
  Crashes = TRUE
SPECIFICATION Spec
CONSTRAINT FewAfterFailure
INVARIANTS TypeOK FileBounded PartsOrdered
PROPERTIES OldestGoes
CHECK_DEADLOCK FALSE
