CONSTANTS
    Chats <- OneChat
    Public <- NoChat
    MaxMsgs = 2
    MaxEdits = 0
    MaxForeign = 0
    MaxUserChanges = 1
    MaxPrivChanges = 2
    MaxDrops = 1
    MaxCrashes = 0
    MaxTime = 0
    SlowKeys = FALSE
SPECIFICATION FairSpec
INVARIANTS TypeOK KeyBeforeMessage AssertionsHold
PROPERTIES ImplementsOutbox EverySubmitSettles
CHECK_DEADLOCK FALSE
