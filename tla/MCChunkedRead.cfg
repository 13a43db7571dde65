SPECIFICATION Spec
CONSTANTS
  Keys = {1, 2, 4, 5}
  TargetChunks = 3
  MinStep = 1
  BatchRows = 2
  TwoPhases = {TRUE, FALSE}
  MaxChanges = 2
  NoCursor = NoCursor
INVARIANTS TypeOK KeyOnce PlainReadsStable
CHECK_DEADLOCK FALSE
