SPECIFICATION FairSpec
CONSTANTS
    MaxUp = 2
    Retries = 1
    MaxChanges = 2
    NoData = NoData
INVARIANTS
    TypeOK
    PendingOrSent
    StartsBounded
PROPERTIES
    Reopens
    ServerLearns
