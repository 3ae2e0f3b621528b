CONSTANTS
    Chats <- OneChat
    Public <- OneChat
    MaxMsgs = 2
    MaxEdits = 2
    MaxForeign = 1
    MaxUserChanges = 0
    MaxPrivChanges = 0
    MaxDrops = 1
    MaxCrashes = 0
    MaxTime = 1
    SlowKeys = FALSE
SPECIFICATION Spec
INVARIANTS HistoryAgrees DbMirrorsQueue
CHECK_DEADLOCK FALSE
