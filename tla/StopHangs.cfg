\* An adapter whose stop() waits for the deliveries in flight.
SPECIFICATION FairSpec
CONSTANTS
  orders = orders
  retry = retry
  m1 = m1
  m2 = m2
  Partitions = {orders}
  Messages = {m1, m2}
  Level <- MCLevel
  Backlog <- TwoBacklog
  Size = 2
  Concurrency = 1
  Dlq = TRUE
  Undecodable = {}
  Overrun = FALSE
  StopWaits = TRUE
  MaxFaults = 1
CHECK_DEADLOCK FALSE
PROPERTIES ShutdownEnds
