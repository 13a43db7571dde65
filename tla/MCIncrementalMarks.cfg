SPECIFICATION Spec
CONSTANTS
  mysql = mysql
  kafka = kafka
  webhook = webhook
  Sinks = {mysql}
  Durable = {mysql}
  Schemas = {db1, db2}
  Size <- SizesOf2
  Until = 0
  Faults = {"save"}
  MaxHead = 2
  MaxFaults = 1
INVARIANTS NoDuplicate
CHECK_DEADLOCK FALSE
