SPECIFICATION Spec
CONSTANTS
  r1 = r1
  r2 = r2
  w1 = w1
  Chunks = {1, 2}
  BatchesOf <- OneBatchEach
  Readers = {r1, r2}
  Writers = {w1}
  MaxRetries = 1
  BufferSize = 2
  Faults = {"read", "plan", "write", "ddl", "save", "other", "stop", "crash"}
  MaxFaults = 1
  MaxRuns = 2
  FaultyRuns = 2
PROPERTY Terminates
CHECK_DEADLOCK FALSE
