SPECIFICATION Spec
CONSTANTS
    Source <- TwoInputs
    BatchSizes = {1}
    InputCapacity = 2
    OutputCapacity = 1
    CommandCapacity = 1
    SnapshotCapacity = 1
    SnapshotInterval = 1
    JournalSyncs = {"Buffered"}
    GroupSize = 2
    MaxCommands = 1
    MaxKillChanges = 2
    NoInput = NoInput
INVARIANTS
    ControlNotOvertaken
