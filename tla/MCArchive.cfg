SPECIFICATION FairSpec
CONSTANTS
  w1 = w1
  Kinds = {"file", "mysql"}
  Keyed = TRUE
  Workers = {w1}
  NTables = 2
  MaxCalls = 4
  MaxFaults = 1
  MaxStarts = 2
INVARIANTS
  TypeOK
  ArchiveIsCurrent
PROPERTIES
  NobodyHangs
CHECK_DEADLOCK FALSE
