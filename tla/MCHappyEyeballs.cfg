SPECIFICATION FairSpec
CONSTANTS
    Ipv6Answers <- AaaaAnswers
    Ipv4Answers <- AAnswers
    AttemptKinds <- Kinds
    ResolutionDelay = 1
    FirstFamilyTimeout = 2
    AttemptDelay = 2
    ConnectTimeout = 5
    Prompt = FALSE
INVARIANTS
    TypeOK
    EveryAddressTried
    InterleavedOrder
    ReplyIndependentOfRace
    ErrorsAsHandled
PROPERTIES
    AnswersKept
    Staggered
    ConnectEnds
