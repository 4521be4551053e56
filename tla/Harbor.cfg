\* Two transactions, one send, a shutdown, and another instance with the same id.
SPECIFICATION FairSpec
CONSTANTS
  t1 = t1
  t2 = t2
  s1 = s1
  Transactions = {t1, t2}
  TxSends <- MCTxSends
  Consuming = {t1}
  Sends = {s1}
  MaxCalls = 2
  MaxTakes = 1
  MaxFaults = 1
CHECK_DEADLOCK FALSE
INVARIANTS AllOrNothing OutcomeHolds OneAtATime FencedByAnother ClientReleased
PROPERTIES FencedStaysQuiet ReleasedWhenDrained ShutdownProceeds QueueReleased
