CONSTANTS
    Me = me
    Peers = {p}
    Privs <- TwoPrivs
    Moderator = 3
    MaxVersions = 3
    MaxRequests = 1
    MaxDrops = 1
    MaxCrashes = 1
    MaxReloads = 1
SPECIFICATION FairSpec
INVARIANTS RowsMatchRoom RoomAgrees
PROPERTIES JoinedInTheEnd
CHECK_DEADLOCK FALSE
