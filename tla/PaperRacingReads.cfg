SPECIFICATION Spec
CONSTANTS
  Proc = {p1, p2}
  Ticker = {x}
  Lots = {1}
  Price = {5}
  Key = {}
  Target = {}
  Capital = 12
  FeeRate = 10
  MinFee = 1
  Day = {0, 1, 2}
  None = None
  Given = {None}
  MaxTrades = 2
  MaxResets = 0
CHECK_DEADLOCK FALSE
INVARIANTS
  T1Settlement
