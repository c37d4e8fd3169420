SPECIFICATION FairAuditSpec
CONSTANTS
    e1 = e1
    e2 = e2
    e3 = e3
    Events <- ThreeEvents
    Oversized <- OneEvent
    Retention = 1
    WriteOutcomes <- AnyOutcome
    MaxTime = 3
    MaxCrashes = 1
CHECK_DEADLOCK FALSE
INVARIANTS
    UnexpiredIsKept
PROPERTIES
    AuditRetention
    ExpiredGoes
