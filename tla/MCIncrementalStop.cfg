SPECIFICATION Spec
CONSTANTS
  mysql = mysql
  kafka = kafka
  webhook = webhook
  Sinks = {mysql}
  Durable = {mysql}
  Schemas = {db1}
  Size <- Sizes
  Until = 0
  Faults = {"stop"}
  MaxHead = 4
  MaxFaults = 1
INVARIANTS CommittedBeforeSaved
CHECK_DEADLOCK FALSE
