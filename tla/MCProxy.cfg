SPECIFICATION ProxyFairSpec
CONSTANTS
    Conn = {c1, c2}
    Focus = c1
    MaxConnections = 1
    Backlog = 1
    Messages <- FewMessages
    MaxUnread = 1
    MaxAttempts = 1
INVARIANTS
    ProxyInv
    SocketsCounted
    GracefulMeansReleased
    GrantsKept
PROPERTIES
    ImplementsServer
    OnlyClientsBlockQueue
