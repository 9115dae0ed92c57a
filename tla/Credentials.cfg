SPECIFICATION LiveSpec
CONSTANTS
    sa1 = sa1
    sa2 = sa2
    n1 = n1
    n2 = n2
    Sources <- MCSources
    Capacity = 2
    Cost = 2
    SourceIdleTTL = 2
    PruneInterval = 1
    HarborAccesses <- MCHarborAccesses
    ServiceAccounts <- MCServiceAccounts
    Replicas <- MCReplicas
    Plans <- MCPlans
    MaxPasswords = 5
    Second = 2
    PasswordRotationInterval = 4
    RotationSafetyMargin = 2
    RequestTimeout = 1
    MaxCacheDuration = 4
    Hour = 6
    Skew = 1
    NoPassword = NoPassword
    NoPromise = NoPromise
    NoRobot = NoRobot
    NoSecret = NoSecret
    Gone = Gone
INVARIANTS
    TypeOK
    PromiseKept
    RightRobot
PROPERTIES
    PullEnds
    CredentialsArrive
    LimiterKeepsRate
CHECK_DEADLOCK FALSE
