SPECIFICATION FunctionsSpec
CONSTANTS
    Numerals = {"101.5", "0.25", "0"}
    Flawed = {"1e-7"}
    Malformed = Malformed
    MaxChanges = 2
    ScaleDigits = 2
    MaxInt = 511
    Coinbase = Coinbase
    Kraken = Kraken
    Scale = 2
    MaxInt64 = 7
    RateUnit = 10
    VenueBooks <- SmallBooks
    Orders <- SmallOrders
    Volumes <- SomeVolumes
    ScheduleSets <- SomeSchedules
    Observations <- SomeObservations
    MaxEvents = 3
    Interval = 2
    Trackable = 8
    ApplyTimes <- SomeTimes
    LongestFeed = 6
    Prices <- FourPrices
    LiveDepth = 2
    ReplayDepth = 3
    Checksums <- Tops
    Messages <- SomeMessages
    ChecksumDepth = 1
INVARIANTS
    VenuesAgree
    WholeOrRefused
    ParsesExactly
    FormatParses
    WalkIsBestExecution
    RefusesBeyondDisplay
    SlicingWithinBand
    FeesFollowFills
    RecoveriesAddUp
    StallIsCharged
    DeeperOnlyAddsGhosts
CHECK_DEADLOCK FALSE
