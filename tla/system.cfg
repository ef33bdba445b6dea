\* One post, two requests that create, read, change and delete it, two
\* workers; API and workers crash, the handler may throw.
SPECIFICATION SSpec
CONSTANTS
  Ids = {p1}
  NoId = noId
  Reqs = {r1, r2}
  MaxVer = 2
  Faults = {"crash", "reject", "lost"}
  Workers = {w1, w2}
  NoWorker = noWorker
  Attempts = 2
  MaxStalled = 1
  KeepCompleted = 1
  KeepFailed = 1
  HandlerMayThrow = TRUE
  QueueFaults = {"crash"}
INVARIANTS
  NotifiedMeansCommitted
  AckedMeansQueued
  OneRunAtATime
PROPERTIES
  AckedIsFollowedUp
