\* Two cycles and two operators, one fixed and one event-triggered agent.
SPECIFICATION FairSpec
CONSTANTS
    None = None
    Proc = {p1, p2}
    Operator = {o1, o2}
    LastDay = 2
    LastCutoff = 3
    FixedDue <- SectorDue
    EventAgent <- AlphaOnly
    LastEvent = 2
    Coverage <- BothEvents
    LiveAgent <- SectorOnly
    MayBeEmpty <- AlphaOnly
    Candidate = {x}
    sector = sector
    alpha = alpha
    macro = macro
INVARIANTS TypeOK ScheduledOnce SealedRunIsWhole JudgedAsFrozen JudgementIsDocumented
PROPERTIES KeepsPromise SealedDayMatures
CHECK_DEADLOCK FALSE
