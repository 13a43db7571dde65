SPECIFICATION Spec
CONSTANTS
  ui = ui
  pk2 = pk2
  ix = ix
  au = au
  Tables = {1, 2}
  Indexes = {ui, pk2, ix, au}
  SourceIndexes <- Source
  OwnIndexes <- Own
  Existing = {2}
  Unique = {ui, pk2, au}
  Identity = {pk2}
  AutoInc = {au}
  TypeOf <- Types
  Configs <- FourConfigs
  RestoreWorkers = 2
  ConnRetries = 1
  Faults = {}
  Keys <- RowsOf
  Identified <- KeyOf
  Estimate <- Rows4
  BatchSize = 1
  IntraWorkers = 2
  TableWorkers = 2
  CommitEvery = 2
  CommitAlone = 2
  LockRetries = 1
INVARIANT UniqueOffWhileCopying
CHECK_DEADLOCK FALSE
