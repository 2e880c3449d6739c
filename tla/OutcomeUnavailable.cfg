\* One cycle whose macro agent loses its sources.
SPECIFICATION Spec
CONSTANTS
    None = None
    Proc = {p1, p2}
    Operator = {o1}
    LastDay = 1
    LastCutoff = 2
    FixedDue <- MacroDue
    EventAgent <- AlphaOnly
    LastEvent = 1
    Coverage <- OneEvent
    LiveAgent <- MacroOnly
    MayBeEmpty <- AlphaOnly
    Candidate = {x}
    sector = sector
    alpha = alpha
    macro = macro
INVARIANT UnavailableIsRecorded
CHECK_DEADLOCK FALSE
