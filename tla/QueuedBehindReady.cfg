\* A partition revoked while start() is still joining the other levels.
SPECIFICATION Spec
CONSTANTS
  orders = orders
  retry = retry
  retry2 = retry2
  m1 = m1
  m2 = m2
  m3 = m3
  NONE = NONE
  Partitions = {orders, retry}
  Messages = {m1}
  Works = {w1, w2}
  Level <- MCLevel
  Backlog <- OneMessage
  Concurrency = 1
  Dlq = TRUE
  SharedDlq = TRUE
  Undecodable = {}
  Unplaced = {}
  Overrun = TRUE
  PauseLeaks = FALSE
  MaxFaults = 1
CHECK_DEADLOCK FALSE
PROPERTIES StaleDeliveryNotRun
