SPECIFICATION Spec
CONSTANTS
    Loads <- AnyLoad
    Saves <- AnySave
    MaxHelps = 4
CHECK_DEADLOCK FALSE
INVARIANTS
    TypeOK
    OpenPopupExists
    KeysBoundOnce
    CursorFollowsPopup
PROPERTY BuilderKeepsTheRest
