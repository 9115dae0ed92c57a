CONSTANTS
    Plans <- AllKinds
    robotPrefix <- Configured
    Sigil = "$"
    Names <- AllNames
    Wanted <- Asked
    pageSize = 2
    maxPages = 2
    adminCredsReadAttempts = 2
    Incomplete = {3}
    MaxID = 6
    MaxVersion = 4
    MaxChanges = 3
SPECIFICATION LiveSpec
INVARIANTS TypeOK ListingComplete NotFoundMeansAbsent MismatchIsReal CredentialsOfOneVersion ReadSurvivesSwaps
PROPERTY CallReturns
