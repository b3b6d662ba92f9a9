SPECIFICATION FairSpec
CONSTANTS
    MaxBytes = 3
    Pipe = 2
    Window = 1
INVARIANTS
    OkMeansDelivered
PROPERTIES
    Delivered
    RelayEnds
