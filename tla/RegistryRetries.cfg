SPECIFICATION FairSpec
CONSTANTS
  Client = {c1}
  Release = {r1, r2}
  Operator = {op1}
  Reason = {drill, fix}
  None = None
  Faults = {"io", "kill"}
INVARIANTS
  SuccessIsComplete
  RetryAgreesWithAudit
  AuditIsTrue
PROPERTIES
  LifecycleIsMonotone
  PointerMovesAlongLineage
  LockIsReleased
