SPECIFICATION Spec
CONSTANTS
  ta = ta
  tb = tb
  c1 = c1
  c2 = c2
  Chunks = {c1, c2}
  Tables = {ta, tb}
  Writers = {w1, w2}
  TableOf <- TwoTables
  BatchesOf <- TwoAndOne
  Weight <- LightAB
  GlobalMax = 4
  SoftCap = 1
  CommitBatches = 2
  Faults = {}
INVARIANTS NoSilentLoss
CHECK_DEADLOCK FALSE
