SPECIFICATION FairSpec
CONSTANTS
  NoBatch = NoBatch
  Batches = {b1, b2, b3}
  MaxConnRetries = 2
INVARIANTS TypeOK NeverTwice AckedIsDurable DoneIsComplete StopIsClean
PROPERTIES WriterEnds ImplementsAtomicApply
CHECK_DEADLOCK FALSE
