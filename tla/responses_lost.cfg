SPECIFICATION Spec
CONSTANTS
    Names <- TwoNames
    Statuses <- TwoStatuses
    Delays <- TwoDelays
    Millisecond = 10
    MaxKeys = 4
CHECK_DEADLOCK FALSE
PROPERTY SavingKeepsOthers
