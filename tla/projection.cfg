SPECIFICATION Spec
CONSTANTS
    BatchSize = 2
    MaxOutputs = 3
    MaxRestarts = 1
    MaxApiRestarts = 1
    MaxLosses = 1
    MaxRebuilds = 1
    MaxRollbacks = 1
INVARIANTS
    AppliedInOrder
    PositionIsHonest
PROPERTY
    LatchedUntilResync
