\* The same instance, with publications in any order.
SPECIFICATION Spec
CONSTANTS
    None = None
    Publisher = {p1, p2}
    Revision = {r1}
    Member = {a, b}
    LastDay = 3
    Asked <- PublishTwice
    Slot = {1, 2}
    CycleDay = {1, 2}
    WindowSize = 1
    PeerMinimum = 1
    Score <- FirstLeads
    a = a
    b = b
    MaxLabels = 2
    MaxBatches = 3
SYMMETRY Interchangeable
INVARIANT NoScoreReapplied
CHECK_DEADLOCK FALSE
