SPECIFICATION FairServingSpec
CONSTANTS
    r1 = r1
    r2 = r2
    typed = typed
    Requests = {r1, r2}
    Statuses = {404}
    Inputs = {typed}
    Length = 2
    MaxKeys = 3
INVARIANTS
    AnswerWasInUse
    FileIsSentWhole
PROPERTY
    EveryRequestAnswered
CHECK_DEADLOCK FALSE
