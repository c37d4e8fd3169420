SPECIFICATION FairStoreSpec
CONSTANTS
    c1 = c1
    c2 = c2
    c3 = c3
    NoCapture = NoCapture
    Captures <- TwoCaptures
    TTL = 1
    MaxTime = 3
    MaxCrashes = 1
CHECK_DEADLOCK FALSE
INVARIANTS
    PersistedIsThere
PROPERTIES
    StoreRetention
    ExpiredCaptureGoes
