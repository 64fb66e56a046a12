SPECIFICATION DaemonSpec
CONSTANTS
    kraken = kraken
    Venues <- OnlyKraken
    Checksummed <- OnlyKraken
    ChanCap = 2
    MaxFaults = 3
    Junky <- NoVenue
    MayShutDown = TRUE
    QueueCap = 1
INVARIANTS
    RecorderClosesLast
PROPERTIES
    Stabilises
    DaemonExits
CHECK_DEADLOCK FALSE
