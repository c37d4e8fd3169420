SPECIFICATION FairGuardSpec
CONSTANTS
    e1 = e1
    e2 = e2
    s1 = s1
    c1 = c1
    c2 = c2
    NoCapture = NoCapture
    Events <- SomeEvents
    Oversized <- OneLongEvent
    SweepEvents <- OneSweepEvent
    Captures <- OneCapture
    Retention = 1
    TTL = 1
    WriteOutcomes <- WrittenOrFailed
    MaxTime = 2
    MaxCrashes = 1
CHECK_DEADLOCK FALSE
INVARIANT StartEnforcesRetention
PROPERTIES
    ComponentsImplemented
    CapturesGoUnlessJammed
