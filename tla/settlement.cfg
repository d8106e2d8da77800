SPECIFICATION FairSpec
CONSTANTS
    MaxTrades = 3
    BatchSize = 2
    PendingLimit = 2
    MaxAutoAttempts = 2
    Deployments <- MCDeployments
    NoRow = NoRow
    NoClaim = NoClaim
    NoCall = NoCall
INVARIANTS
    
    
    ConfirmedMeansSettled
    ClaimsMatchManifests
PROPERTY
    EventuallyResolved
