SPECIFICATION Spec
CONSTANTS
    Offerers = {engine}
    BufSize = 1
    MaxEvents = 3
    MaxFiles = 2
    CloseOrders <- Ordered
    IOErrors <- NoErrors
    Kills <- Rotating
INVARIANTS
    KilledTapeReplays
CHECK_DEADLOCK FALSE
