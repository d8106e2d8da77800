SPECIFICATION Spec
CONSTANTS
    MaxTrades = 3
    BatchSize = 2
    PendingLimit = 2
    MaxAutoAttempts = 2
    Deployments <- MCRebuilding
    NoRow = NoRow
    NoClaim = NoClaim
    NoCall = NoCall
INVARIANT
    OneIdentityPerTrade
