SPECIFICATION TapeSpec
CONSTANTS
    Coinbase = Coinbase
    Kraken = Kraken
    Scale = 1
    MaxInt64 = 100
    Side = "ask"
    Sizes <- OneSize
    Slices = 2
    Horizon = 2
    Every = 2
    Ladders <- AnyBooks
    MaxWall = 6
    MaxStep = 2
    MaxBack = 0
    Capacity = 2
    MaxOffers = 6
INVARIANTS
    NoErrorMeansPriced
CHECK_DEADLOCK FALSE
