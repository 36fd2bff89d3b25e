SPECIFICATION Spec
CONSTANTS
  PerSecond = 2
  Timeout = 2
  Variation = 4
  QueueSize = 2
  Rate = 2
INVARIANTS TypeOK CleanupPeriod StopDelay
PROPERTIES Stops CleansAgain NetworkServed
CHECK_DEADLOCK FALSE
