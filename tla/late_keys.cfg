SPECIFICATION FairSpec
CONSTANTS
    OldLog = 3
    MaxLog = 5
    LateKeys <- SomeLate
    initialHistoryFetchCount = 1
    Counts <- OneOrTwo
    MaxOwn = 0
    MaxDrops = 0
    MaxRestarts = 0
    MaxSessions = 2
    MaxCalls = 3
    MaxQueued = 1
    MaxTruncates = 0
    MaxRejects = 0
INVARIANTS HaveAllIsRight
PROPERTIES EverythingStored LoadsEnd
CHECK_DEADLOCK FALSE
