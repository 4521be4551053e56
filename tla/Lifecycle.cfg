\* Three partitions of a retry topic, one slot for them, and every mix of subscriptions.
SPECIFICATION Spec
CONSTANTS
  r1 = r1
  r2 = r2
  r3 = r3
  Partitions = {r1, r2, r3}
  Topic <- MCTopic
  Requests <- MCRequests
  RetryNaming <- MCRetryNaming
  DlqNaming <- MCDlqNaming
  Batch = {"returns"}
  Guarded = {"orders", "audit"}
  Strangers = {"elsewhere"}
  Levels = {0, 1, 2}
  concurrency = 1
  Records = 1
  MaxFaults = 2
CHECK_DEADLOCK FALSE
INVARIANTS SubscriptionsAgree FailuresEnd OwnersKept SlotsHandedOn NothingLeftOpen JoinsWhatExists
PROPERTIES StopWaitsForHandlers EverythingEnds
