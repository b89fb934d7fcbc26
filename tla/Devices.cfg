SPECIFICATION FairSpec
CONSTANTS
    BiosA = 38
    BiosB = 2
    Frequencies <- Requests
    MaxNest = 3
INVARIANTS
    TypeOK
    InService
    ControllersReady
    RateTakesHold
PROPERTIES
    ReadWaits
    ReadReturns
    
