SPECIFICATION FairSpec
CONSTANTS
  ta = ta
  tb = tb
  c1 = c1
  c2 = c2
  Chunks = {c1, c2}
  Tables = {ta, tb}
  Writers = {w1}
  TableOf <- TwoTables
  BatchesOf <- TwoAndOne
  Weight <- HeavyB
  GlobalMax = 2
  SoftCap = 2
  CommitBatches = 2
  Faults = {"stop", "read", "write", "commit"}
INVARIANTS ReadyWithoutErrors BufferBound
PROPERTIES Terminates
CHECK_DEADLOCK FALSE
