CONSTANTS
    Keys = {"a", "b"}
    Policy <- MCPolicy
    MaxTokens = 5
    Chars = {"p"}
    FieldNames <- MCFieldNames
    FieldLevel = 2
    MaxChars = 4
    Rules = {0, 1, 2, 3}
    MethodLen = 1
    PathLen = 1
    RestLen = 1
    OpaqueLen = 2
    Queries <- MCQueries
    MaskLevels = {0, 2}
    OtherLevels = {3}
    MaxOthers = 1
    MaxOther = 9
    Headers <- MCHeaders
    Values <- MCValues
    PartLevel = 3
    MaxParts = 2
SPECIFICATION CaptureSpec
INVARIANTS
    ScalarsAreTagged
    FieldsAreTagged
    PartsAreTagged
    HidesExactlySpans
    UnionsAreGraded
    RenderHidesSensitive
CHECK_DEADLOCK FALSE
