\* Carts of up to three lines: prices of two cents, of one and a half and one
\* too large to be multiplied by 100; half a piece, three, and quantities that
\* are infinite or no number; every number as far off as it can be, up or down.
SPECIFICATION Spec
CONSTANTS
  MaxNumber = 9600
  Parts = 4
  Precision = 20
  Infinity = infinity
  NaN = nan
  Throws = throws
  Prices = {16, 12, 1000}
  Currencies = {"USD", "EUR"}
  Quantities = {2, 12, infinity, nan}
  Slips <- Extremes
  MaxLines = 3
CHECK_DEADLOCK FALSE
INVARIANTS
  CentExact
  TotalThrows
