SPECIFICATION FairSpec
CONSTANTS
  mysql = mysql
  kafka = kafka
  webhook = webhook
  Sinks = {mysql}
  Durable = {mysql}
  Schemas = {db1}
  Size <- SizesOf2
  Until = 1
  Faults = {}
  MaxHead = 2
  MaxFaults = 0
PROPERTIES CatchUpEnds
CHECK_DEADLOCK FALSE
