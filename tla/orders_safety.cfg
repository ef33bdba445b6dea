\* Two orders, two requests, domain code using every method, a publisher that
\* may reject, lines of half a piece, and lines that cannot be totalled in
\* every way the code knows.
SPECIFICATION OSpec
CONSTANTS
  Ids = {o1, o2}
  NoId = noId
  Reqs = {r1, r2}
  UnitPrices = {20}
  Quantities = {0, 1, nan}
  Currencies = {"USD", "EUR"}
  MaxLines = 2
  PublisherMayReject = TRUE
  MaxNumber = 20000
  Parts = 2
  Precision = 1000
  Infinity = infinity
  NaN = nan
  Throws = throws
SYMMETRY Symmetry
INVARIANTS
  OrdersOK
  EventsTellStory
  StoredCanBeShown
  RepliesAgree
  AckedMeansPublished
PROPERTIES
  AnnouncedOrRefused
