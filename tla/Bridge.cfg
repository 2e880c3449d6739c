SPECIFICATION FairSpec
CONSTANTS
  MaxCalls = 3
  Faults = {"spawn", "death", "garbage", "hang"}
CHECK_DEADLOCK FALSE
INVARIANTS
  TypeOK
  WaitingIsPending
PROPERTIES
  ImplementsService
  EveryCallSettles
  CloseReturns
