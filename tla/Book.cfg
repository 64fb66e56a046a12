SPECIFICATION Spec
CONSTANTS
    Prices <- ThreePrices
    Batches <- SmallBatches
    Depths <- SomeDepths
INVARIANTS
    SidesConsistent
PROPERTIES
    ImplementsMap
