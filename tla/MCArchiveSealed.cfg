SPECIFICATION Spec
CONSTANTS
  w1 = w1
  Kinds = {"file", "mysql"}
  Keyed = TRUE
  Workers = {w1}
  NTables = 1
  MaxCalls = 5
  MaxFaults = 0
  MaxStarts = 2
INVARIANT
  GivesUpForAReason
CHECK_DEADLOCK FALSE
