SPECIFICATION Spec
CONSTANTS
  x = x
  y = y
  z = z
  Ticker <- Tickers
  Lots = {1}
  Price = {5, 20}
  Key <- TickerSides
  Target = {}
  Capital = 33
  FeeRate = 10
  MinFee = 1
  Day = {0, 1}
  None = None
  Wanted <- ThreeActions
  Lossy = TRUE
  MaxStrange = 2
CHECK_DEADLOCK FALSE
INVARIANTS
  ReportIsTrue
  FrozenAccountOrNothing
