SPECIFICATION FairSpec
CONSTANTS
    Source <- CutShort
    BatchSizes = {0, 1, 2}
    InputCapacity = 1
    OutputCapacity = 1
    CommandCapacity = 1
    SnapshotCapacity = 1
    SnapshotInterval = 0
    JournalSyncs = {"Buffered", "GroupCommit", "Durable"}
    GroupSize = 2
    MaxCommands = 0
    MaxKillChanges = 0
    NoInput = NoInput
INVARIANTS
    JournalIsPrefix
    InputsInOrder
    ResultIsHonest
    StopsAfterFailure
    SyncContract
PROPERTY
    RunEnds
