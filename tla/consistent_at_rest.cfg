\* One post, two requests, an environment without faults.
SPECIFICATION HSpec
CONSTANTS
  Ids = {p1}
  NoId = noId
  Reqs = {r1, r2}
  MaxVer = 3
  Faults = {}
INVARIANT
  ConsistentAtRest
