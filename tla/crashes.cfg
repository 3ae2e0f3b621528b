CONSTANTS
    Chats <- TwoChats
    Public <- SecondChat
    MaxMsgs = 2
    MaxEdits = 0
    MaxForeign = 0
    MaxUserChanges = 1
    MaxPrivChanges = 0
    MaxDrops = 0
    MaxCrashes = 1
    MaxTime = 0
    SlowKeys = TRUE
SPECIFICATION Spec
PROPERTIES CommittedKept
CHECK_DEADLOCK FALSE
