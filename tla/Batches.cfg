\* A message on an original topic, an undecodable one on its retry topic: batches of two once they meet, of one before.
SPECIFICATION FairSpec
CONSTANTS
  orders = orders
  retry = retry
  m1 = m1
  m2 = m2
  Partitions = {orders, retry}
  Messages = {m1, m2}
  Level <- MCLevel
  Backlog <- SplitBacklog
  Size = 2
  Concurrency = 1
  Dlq = TRUE
  Undecodable = {m2}
  Overrun = FALSE
  StopWaits = FALSE
  MaxFaults = 1
CHECK_DEADLOCK FALSE
INVARIANTS OneBatchAtATime BatchesInOrder CollectsWhatItOwns
PROPERTIES PromiseSpec CommitsMoveForward EveryMessageResolved ShutdownEnds
