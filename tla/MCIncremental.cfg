SPECIFICATION FairSpec
CONSTANTS
  mysql = mysql
  kafka = kafka
  webhook = webhook
  Sinks = {mysql, kafka, webhook}
  Durable = {mysql}
  Schemas = {db1}
  Size <- Sizes
  Until = 1
  Faults = {"stop", "crash", "read", "cpread", "sink", "commit", "save"}
  MaxHead = 4
  MaxFaults = 3
INVARIANTS TypeOK NothingSkipped MarkMeansDelivered TransactionsInOrder
PROPERTIES CatchUpStops ExactlyOnce StreamDrains
CHECK_DEADLOCK FALSE
