SPECIFICATION FairSpec
CONSTANTS
  Proc = {p1, p2}
  Candidates = 2
  Pair = {s1}
  Score <- Scores
  MinDelta = 1
  MaxAttempts = 2
  Lanes = 1
  MaxFaults = 2
  None = None
CHECK_DEADLOCK FALSE
INVARIANTS
  TypeOK
  OneHoldout
  EvidenceIsRuns
PROPERTIES
  ResultsAreFinal
  ImplementsBudget
  FamilyIsDecided
