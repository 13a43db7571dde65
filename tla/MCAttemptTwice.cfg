SPECIFICATION Spec
CONSTANTS
  r1 = r1
  r2 = r2
  w1 = w1
  Chunks = {1, 2}
  BatchesOf <- OneBatchEach
  Readers = {r1, r2}
  Writers = {w1}
  MaxRetries = 1
  BufferSize = 2
  Faults = {"read"}
  MaxFaults = 1
  MaxRuns = 2
  FaultyRuns = 2
INVARIANT NothingTwice
SYMMETRY Symmetric
CHECK_DEADLOCK FALSE
