CONSTANTS
    q1 = q1
    q2 = q2
    q3 = q3
    None = None
    Threads <- MCThreads
    Configs <- GatewayConfigs
    FailureThreshold = 2
    SuccessThreshold = 1
SPECIFICATION FairSpec
INVARIANTS
    TypeOK
    AdmittedHaveTokens
    TokensComeBack
    NotStuckClosed
    NotStuckHalfOpen
PROPERTIES
    FreeTokenIsTaken
    EveryoneAnswered
