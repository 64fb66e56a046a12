SPECIFICATION Spec
CONSTANTS
    Offerers = {engine}
    BufSize = 1
    MaxEvents = 2
    MaxFiles = 1
    CloseOrders <- AnyOrder
    IOErrors <- NoErrors
    Kills <- NoErrors
INVARIANTS
    OfferNeverPanics
CHECK_DEADLOCK FALSE
