SPECIFICATION FairSpec
CONSTANTS
    Offerers = {engine}
    BufSize = 1
    MaxEvents = 4
    MaxFiles = 3
    CloseOrders <- AnyOrder
    IOErrors <- AllErrors
    Kills <- AnyMoment
INVARIANTS
    NothingUnaccounted
    CleanCloseIsComplete
    StatsLagBounded
    GapNeverLate
    OrderedOfferNeverPanics
    KilledTapeReplaysButRotating
PROPERTIES
    ImplementsRecorder
    CloseTerminates
CHECK_DEADLOCK FALSE
