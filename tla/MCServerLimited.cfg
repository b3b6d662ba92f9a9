\* More clients than permits, and a kernel queue that fills.
SPECIFICATION FairSpec
CONSTANTS
    Conn = {c1, c2, c3}
    MaxConnections = 2
    Backlog = 2
INVARIANTS
    ServerInv
    ConnectionLimit
    GracefulMeansClosed
PROPERTIES
    ImplementsService
    ShutdownEnds
    GracefulDrain
    QueueServed
    EverythingReleased
