\* max_connections = 0: no semaphore.
SPECIFICATION FairSpec
CONSTANTS
    Conn = {c1, c2, c3}
    MaxConnections = 0
    Backlog = 2
INVARIANTS
    GracefulMeansClosed
PROPERTIES
    ImplementsService
    UnlimitedQueueServed
    EverythingReleased
