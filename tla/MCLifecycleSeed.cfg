SPECIFICATION Spec
CONSTANTS
  t1 = t1
  Tables = {t1}
  Modes = {"FULL", "INCREMENTAL"}
  InitMode = "FULL"
  Rebuilds = {TRUE}
  Stagings = {FALSE}
  Ops = {"edit"}
  Faults = {}
  Patient = FALSE
  MaxStarts = 2
  MaxHead = 1
  MaxFaults = 1
INVARIANTS NoGap
CHECK_DEADLOCK FALSE
