\* A client that releases a partition before it tells, and parked records on it.
SPECIFICATION Spec
CONSTANTS
  orders = orders
  retry = retry
  retry2 = retry2
  m1 = m1
  m2 = m2
  m3 = m3
  NONE = NONE
  Partitions = {retry}
  Messages = {m1, m2, m3}
  Works = {w1, w2, w3}
  Level <- MCLevel
  Backlog <- RetryBacklog
  Concurrency = 1
  Dlq = TRUE
  SharedDlq = TRUE
  Undecodable = {}
  Unplaced = {}
  Overrun = TRUE
  PauseLeaks = FALSE
  MaxFaults = 1
CHECK_DEADLOCK FALSE
SYMMETRY WorkSymmetry
INVARIANTS NothingLost
