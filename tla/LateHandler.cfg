\* A shutdown that gives up while an undecodable message is forwarded.
SPECIFICATION Spec
CONSTANTS
  orders = orders
  retry = retry
  m1 = m1
  m2 = m2
  Partitions = {orders}
  Messages = {m1, m2}
  Level <- MCLevel
  Backlog <- TwoBacklog
  Size = 2
  Concurrency = 1
  Dlq = TRUE
  Undecodable = {m2}
  Overrun = FALSE
  StopWaits = FALSE
  MaxFaults = 1
CHECK_DEADLOCK FALSE
PROPERTIES NoLateHandler
