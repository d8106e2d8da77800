SPECIFICATION Spec
CONSTANTS
    MaxRecords = 3
    Damages <- MCDamages
    Clients = {c1, c2, c3}
    max_connections = 2
    Workloads <- MCWorkloads
    Limits = {1, 2}
    KeptJobs = 2
    MaxJobs = 4
    MaxSnapshots = 3
    MaxSpawnFailures = 1
    None = None
INVARIANTS
    TailAgreesWithRecovery
    SlotsAccounted
    ReplayTableHonest
PROPERTIES
    ReplayEnds
