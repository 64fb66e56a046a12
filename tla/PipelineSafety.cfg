SPECIFICATION Spec
CONSTANTS
    coinbase = coinbase
    kraken = kraken
    Venues <- BothVenues
    Checksummed <- OnlyKraken
    ChanCap = 2
    MaxFaults = 3
    Junky <- OnlyKraken
    MayShutDown = TRUE
INVARIANTS
    TypeOK
    SuspectBookIsRepaired
    DarkBookIsRepaired
    RepairInv
PROPERTIES
    NoFalseAlarm
CHECK_DEADLOCK FALSE
