SPECIFICATION Spec
CONSTANTS
  t1 = t1
  Tables = {t1}
  Modes = {"ALL"}
  InitMode = "ALL"
  Rebuilds = {TRUE}
  Stagings = {FALSE}
  Ops = {"pause", "end"}
  Faults = {}
  Patient = FALSE
  MaxStarts = 1
  MaxHead = 1
  MaxFaults = 1
PROPERTIES StoppedIsFinal
CHECK_DEADLOCK FALSE
