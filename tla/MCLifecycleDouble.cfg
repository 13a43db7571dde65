SPECIFICATION Spec
CONSTANTS
  t1 = t1
  Tables = {t1}
  Modes = {"FULL"}
  InitMode = "FULL"
  Rebuilds = {FALSE}
  Stagings = {FALSE}
  Ops = {"pause"}
  Faults = {}
  Patient = TRUE
  MaxStarts = 2
  MaxHead = 0
  MaxFaults = 1
INVARIANTS NoDoubleCopy
CHECK_DEADLOCK FALSE
