SPECIFICATION Spec
CONSTANTS
  Client = {c1, c2}
  Release = {r1, r2, r3}
  Operator = {op1}
  Reason = {drill}
  None = None
  Faults = {}
SYMMETRY Interchangeable
INVARIANTS
  TypeOK
  AuditIsComplete
PROPERTIES
  ImplementsLifecycle
