\* A partition that comes back before its first commit.
SPECIFICATION Spec
CONSTANTS
  orders = orders
  payments = payments
  Partitions = {orders, payments}
  Records <- MCRecords
  Concurrency = 1
  fromBeginning = FALSE
  bufferedMessages = 1
  ClientBuffer = 1
  MaxTroubles = 2
CHECK_DEADLOCK FALSE
PROPERTY DroppedComesAgain
