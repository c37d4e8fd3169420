SPECIFICATION FairSpec
CONSTANTS
    r1 = r1
    r2 = r2
    r3 = r3
    NoRequest = NoRequest
    NoContent = NoContent
    Requests <- TwoRequests
    Sensitive <- OneSensitive
    RevealTTL = 1
    AuditOutcomes <- AuditWorks
    MaxQueued = 2
PROPERTY WindowEnds
