SPECIFICATION Spec
CONSTANTS
  t1 = t1
  t2 = t2
  Tables = {t1, t2}
  Modes = {"ALL"}
  InitMode = "ALL"
  Rebuilds = {TRUE}
  Stagings = {TRUE, FALSE}
  Ops = {"pause", "skip", "end"}
  Faults = {"crash", "save", "db", "lock", "checkpoint"}
  Patient = TRUE
  MaxStarts = 3
  MaxHead = 1
  MaxFaults = 1
INVARIANTS NoGap PublishedIsThere
SYMMETRY TableSymmetry
CHECK_DEADLOCK FALSE
