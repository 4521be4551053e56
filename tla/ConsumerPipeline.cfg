\* The pipeline under a client that delays the release of a partition; a message that has no owner once it failed.
SPECIFICATION Spec
CONSTANTS
  orders = orders
  retry = retry
  retry2 = retry2
  m1 = m1
  m2 = m2
  m3 = m3
  NONE = NONE
  Partitions = {orders, retry}
  Messages = {m1, m2}
  Works = {w1, w2}
  Level <- MCLevel
  Backlog <- OrdersBacklog
  Concurrency = 1
  Dlq = TRUE
  SharedDlq = TRUE
  Undecodable = {}
  Unplaced = {m2}
  Overrun = FALSE
  PauseLeaks = FALSE
  MaxFaults = 1
CHECK_DEADLOCK FALSE
SYMMETRY WorkSymmetry
INVARIANTS NothingLost InOrder OneAtATime PausedWhileParked
PROPERTIES PromiseSpec CommitsMoveForward
