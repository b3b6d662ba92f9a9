SPECIFICATION Spec
CONSTANTS
    MaxByte = 9
    Ipv4Len = 2
    Ipv6Len = 3
    Utf8 <- NoNine
    Scripts <- GoodScripts
    Responses <- AnyResponses
INVARIANT
    TooLargeIsTooLarge
