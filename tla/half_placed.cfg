\* One order of domain code, with lines in dollars and euros.
SPECIFICATION OSpec
CONSTANTS
  Ids = {o1}
  NoId = noId
  Reqs = {r1}
  UnitPrices = {20}
  Quantities = {2}
  Currencies = {"USD", "EUR"}
  MaxLines = 2
  PublisherMayReject = TRUE
  MaxNumber = 20000
  Parts = 2
  Precision = 1000
  Infinity = infinity
  NaN = nan
  Throws = throws
INVARIANT EventsFollowStatus
