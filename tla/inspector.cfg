SPECIFICATION Spec
CONSTANTS
    r1 = r1
    r2 = r2
    r3 = r3
    NoRequest = NoRequest
    NoContent = NoContent
    Requests <- ThreeRequests
    Sensitive <- TwoSensitive
    RevealTTL = 1
    AuditOutcomes <- AuditWorks
    MaxQueued = 2
INVARIANTS
    TypeOK
    CursorInRange
    IDsNumberTheHistory
    GrantIsCurrentOrOvertaken
    GrantEndIsScheduled
    TitleTellsTheGrant
    OnlyRevealedIsUnmasked
PROPERTY HistoryRefined
