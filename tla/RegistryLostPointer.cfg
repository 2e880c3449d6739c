SPECIFICATION Spec
CONSTANTS
  Client = {c1, c2}
  Release = {r1, r2}
  Operator = {op1}
  Reason = {drill}
  None = None
  Faults = {"io"}
INVARIANTS
  RollbackMovesPointer
