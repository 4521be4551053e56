\* A dead-letter topic of two partitions, three dead letters, two runs and one fault.
SPECIFICATION Spec
CONSTANTS
  d1 = d1
  d2 = d2
  Partitions = {d1, d2}
  concurrency = 1
  Options <- MCOptions
  Backlog <- MCBacklog
  Arrivals = 1
  MaxRuns = 2
  MaxFaults = 1
CHECK_DEADLOCK FALSE
INVARIANTS NoDeadLetterLost OnceUnlessUncommitted StopsAtMax
PROPERTIES RedriveEnds
