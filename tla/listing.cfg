\* Four ids, two seeded posts, pages of one or two, two deletes and restores.
SPECIFICATION LSpec
CONSTANTS
  MaxId = 4
  SeedPosts = 2
  MaxTake = 2
  Limits <- ClientLimits
  MaxChanges = 2
INVARIANTS
  LTypeOK
  WalkAccounted
  KeysetComplete
  PagesCoverLive
