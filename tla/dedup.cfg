SPECIFICATION Spec
CONSTANTS
    RequestIds = {1, 2, 3}
    Fingerprints = {"f", "g"}
    Outcomes = {"accepted", "rejected"}
    DedupWindow = 3
    NoEntry = NoEntry
    MaxRecords = 5
INVARIANTS
    IndexLeadsHome
    LookupIsLatestRecent
