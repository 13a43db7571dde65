SPECIFICATION Spec
CONSTANTS
  ta = ta
  tb = tb
  c1 = c1
  c2 = c2
  Chunks = {c1, c2}
  Tables = {ta}
  Writers = {w1, w2}
  TableOf <- OneTable
  BatchesOf <- TwoAndOne
  Weight <- LightA
  GlobalMax = 2
  SoftCap = 2
  CommitBatches = 2
  Faults = {"stop", "read", "write", "commit"}
INVARIANTS TypeOK NoSilentLoss OkAnnouncesAll
CHECK_DEADLOCK FALSE
