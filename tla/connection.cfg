CONSTANTS
    kMaxConnSuceeded = 1
    Addresses <- AddressesMC
    IPs <- IPsMC
    MaxFaults = 3
    MaxSlow = 2
    MaxCalls = 1
    MaxQueries = 2
SPECIFICATION FairSpec
INVARIANTS TypeOK Supervised CleanHandover OneUrlRequest
PROPERTIES EventuallyOnline
CHECK_DEADLOCK FALSE
