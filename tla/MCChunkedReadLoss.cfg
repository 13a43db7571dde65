SPECIFICATION Spec
CONSTANTS
  Keys = {1, 2, 4, 5}
  TargetChunks = 1
  MinStep = 1
  BatchRows = 2
  TwoPhases = {TRUE}
  MaxChanges = 3
  NoCursor = NoCursor
INVARIANTS StableRowsRead
CHECK_DEADLOCK FALSE
