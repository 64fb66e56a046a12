SPECIFICATION FairSpec
CONSTANTS
    coinbase = coinbase
    kraken = kraken
    Venues <- OnlyCoinbase
    Checksummed <- NoVenue
    ChanCap = 2
    MaxFaults = 1
    Junky <- NoVenue
    MayShutDown = FALSE
PROPERTIES
    LostSessionDarkens
