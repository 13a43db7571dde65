SPECIFICATION Spec
CONSTANTS
  w1 = w1
  Kinds = {"file", "mysql"}
  Keyed = TRUE
  Workers = {w1}
  NTables = 2
  MaxCalls = 5
  MaxFaults = 1
  MaxStarts = 2
INVARIANTS
  TypeOK
  ArchiveIsCurrent
CHECK_DEADLOCK FALSE
