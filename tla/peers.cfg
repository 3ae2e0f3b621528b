CONSTANTS
    Cids <- TwoPeers
    LastKeyId = 2
    MaxDrops = 1
    MaxFaults = 1
SPECIFICATION Spec
INVARIANTS TypeOK SessionsMatchMeeting KeysConverge FramesReadable
CHECK_DEADLOCK FALSE
