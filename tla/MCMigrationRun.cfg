SPECIFICATION FairSpec
CONSTANTS
    Kinds <- MCKinds
    Sizes <- MCSizes
    BatchSize = 2
    PageSize = 3
    MaxSnapshots = 2
    MaxTemplates = 2
    MaxRuns = 3
    MaxFaults = 1
INVARIANTS
    RowsOnceInOrder
    OneSnapshotOneTemplate
    CompleteWhenOk
    EarlierBatchesPinned
    InvalidOnlyIfReplaced
PROPERTIES
    PositionAdvances
    Finishes
