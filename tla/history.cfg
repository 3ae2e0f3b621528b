SPECIFICATION FairSpec
CONSTANTS
    OldLog = 3
    MaxLog = 4
    LateKeys <- AllKeysKnown
    initialHistoryFetchCount = 1
    Counts <- OneOrTwo
    MaxOwn = 1
    MaxDrops = 1
    MaxRestarts = 1
    MaxSessions = 1
    MaxCalls = 2
    MaxQueued = 1
    MaxTruncates = 1
    MaxRejects = 1
INVARIANTS WindowContiguous RowsFollowWindow HasMoreIsRight TruncatedGone
PROPERTIES CatchesUp
CHECK_DEADLOCK FALSE
