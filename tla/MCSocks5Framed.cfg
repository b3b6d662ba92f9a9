SPECIFICATION Spec
CONSTANTS
    MaxByte = 9
    Ipv4Len = 2
    Ipv6Len = 3
    Utf8 <- NoNine
    Scripts <- AnyScripts
    Responses <- AnyResponses
INVARIANTS
    FramingInv
    BufferBounded
    Faithful
    RepliesUnderstood
