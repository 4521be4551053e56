\* Every message gets somewhere: one fault on the way, or a client that delivers through its pause.
SPECIFICATION FairSpec
CONSTANTS
  orders = orders
  retry = retry
  retry2 = retry2
  m1 = m1
  m2 = m2
  m3 = m3
  NONE = NONE
  Partitions = {orders, retry}
  Messages = {m1, m2}
  Works = {w1, w2}
  Level <- MCLevel
  Backlog <- WaitingBacklog
  Concurrency = 1
  Dlq = TRUE
  SharedDlq = TRUE
  Undecodable = {m2}
  Unplaced = {}
  Overrun = FALSE
  PauseLeaks = TRUE
  MaxFaults = 1
CHECK_DEADLOCK FALSE
INVARIANTS BehindAParkedOne
PROPERTIES EveryMessageResolved
