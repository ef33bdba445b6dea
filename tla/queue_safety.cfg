\* Two jobs, two workers, every fault: the queue drains in the end.
SPECIFICATION QSpec
CONSTANTS
  Jobs = {j1, j2}
  Workers = {w1, w2}
  NoWorker = noWorker
  NoJob = noJob
  Attempts = 3
  MaxStalled = 1
  KeepCompleted = 1
  KeepFailed = 1
  HandlerMayThrow = TRUE
  QueueFaults = {"crash", "stall"}
CHECK_DEADLOCK FALSE
INVARIANTS
  QueueOK
  BoundedNotifications
  CompletedMeansSent
  FailedMeansExhausted
  RetentionBounded
PROPERTIES
  EveryJobSettles
