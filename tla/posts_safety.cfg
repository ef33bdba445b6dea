\* One post, three requests in flight at once, every fault.
SPECIFICATION HSpec
CONSTANTS
  Ids = {p1}
  NoId = noId
  Reqs = {r1, r2, r3}
  MaxVer = 3
  Faults = {"crash", "reject", "lost"}
INVARIANTS
  HistoryOK
  ServesCommitted
  StaleHasCause
PROPERTIES
  ImplementsStore
  EventuallyFresh
