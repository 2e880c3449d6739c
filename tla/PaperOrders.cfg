SPECIFICATION Spec
CONSTANTS
  Proc = {p1, p2}
  Ticker = {x}
  Lots = {1}
  Price = {5}
  Key = {i1}
  Target = {}
  Capital = 11
  FeeRate = 10
  MinFee = 1
  Day = {0, 1}
  None = None
  Given = {None}
  MaxTrades = 3
  MaxResets = 1
SYMMETRY Interchangeable
CHECK_DEADLOCK FALSE
INVARIANTS
  TypeOK
  OneFillPerIntent
  OneFillPerSnapshot
  NobodyOwes
  TradesExplainAccount
PROPERTIES
  RetryIsReplayed
