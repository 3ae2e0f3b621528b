CONSTANTS
    Ordered <- OrderedNamesMC
    Parts <- PartsNamesMC
    Failed = Failed
    Unknown = Unknown
    MaxChanges = 1
    MaxGets = 2
    MaxFaults = 1
    MaxRestarts = 1
SPECIFICATION FairSpec
INVARIANTS TypeOK Fresh SubscribersUpToDate
PROPERTIES EveryPromiseSettles
CHECK_DEADLOCK FALSE
