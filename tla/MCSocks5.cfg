SPECIFICATION FairSpec
CONSTANTS
    Messages <- AnyMessages
    MaxUnread = 2
    MaxAttempts = 2
INVARIANTS
    HandlerInv
    AuthorizedOnly
    RejectionTold
    SuccessIsTrue
PROPERTIES
    ImplementsSession
    OnlyClientStalls
    ShutdownEndsHandshake
