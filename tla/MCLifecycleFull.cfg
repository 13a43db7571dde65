SPECIFICATION Spec
CONSTANTS
  t1 = t1
  Tables = {t1}
  Modes = {"FULL", "ALL"}
  InitMode = "FULL"
  Rebuilds = {TRUE, FALSE}
  Stagings = {FALSE}
  Ops = {"pause", "cancel", "repeat", "cron", "edit"}
  Faults = {"crash", "save", "db"}
  Patient = TRUE
  MaxStarts = 2
  MaxHead = 0
  MaxFaults = 1
INVARIANTS TypeOK CompletedMeansCopied RebuildNeverDoubles
CHECK_DEADLOCK FALSE
