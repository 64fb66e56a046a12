SPECIFICATION TapeSpec
CONSTANTS
    Coinbase = Coinbase
    Kraken = Kraken
    Scale = 1
    MaxInt64 = 100
    Side = "ask"
    Sizes <- TwoSizes
    Slices = 3
    Horizon = 3
    Every = 2
    Ladders <- AnyBooks
    MaxWall = 8
    MaxStep = 2
    MaxBack = 1
    Capacity = 2
    MaxOffers = 7
INVARIANTS
    RowsAccountedFor
    SlicesAddUp
    SlicesKeepSchedule
    HolesAnnouncedFirst
PROPERTIES
    NothingPricedAcrossGap
CHECK_DEADLOCK FALSE
