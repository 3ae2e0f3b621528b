CONSTANTS
    Users <- OneUser
    Timeouts <- HalfMinute
    MaxEvents = 4
SPECIFICATION FairSpec
INVARIANTS PrefsAgree PeersAgree
PROPERTIES PrefsSettle
CHECK_DEADLOCK FALSE
