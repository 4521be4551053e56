\* Two partitions, a queue of one, and two troubles of any kind.
SPECIFICATION Spec
CONSTANTS
  orders = orders
  payments = payments
  Partitions = {orders, payments}
  Records <- MCRecords
  Concurrency = 1
  fromBeginning = FALSE
  bufferedMessages = 1
  ClientBuffer = 1
  MaxTroubles = 2
CHECK_DEADLOCK FALSE
INVARIANTS Consistent CommittedIsDone
PROPERTIES ImplementsContract EverythingSettles
