SPECIFICATION Spec
CONSTANTS
    OldLog = 3
    MaxLog = 3
    LateKeys <- OneOldLate
    initialHistoryFetchCount = 1
    Counts <- OneOrTwo
    MaxOwn = 0
    MaxDrops = 0
    MaxRestarts = 0
    MaxSessions = 1
    MaxCalls = 2
    MaxQueued = 1
    MaxTruncates = 0
    MaxRejects = 0
INVARIANT LoadedInOrder
CHECK_DEADLOCK FALSE
