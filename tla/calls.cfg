CONSTANTS
    WaitingRooms <- WaitingRoomsMC
    MaxFaults = 1
    MaxSlow = 1
    MaxCalls = 3
    MaxMessages = 1
SPECIFICATION FairSpec
INVARIANTS TypeOK LeftMeansClosed Supervised
PROPERTIES NeverLeavesSilently DestroyedEventually
CHECK_DEADLOCK FALSE
