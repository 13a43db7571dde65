SPECIFICATION Spec
CONSTANTS
  t1 = t1
  Tables = {t1}
  Modes = {"FULL"}
  InitMode = "FULL"
  Rebuilds = {TRUE}
  Stagings = {FALSE}
  Ops = {"pause"}
  Faults = {}
  Patient = FALSE
  MaxStarts = 1
  MaxHead = 0
  MaxFaults = 1
PROPERTIES PauseKeepsPhase
CHECK_DEADLOCK FALSE
