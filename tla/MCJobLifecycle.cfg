CONSTANTS
    MaxRows = 2
    Request = {q1}
    MaxRequests = 1
    MaxRetries = 1
    MaxFaults = 1
SPECIFICATION Spec
INVARIANTS
    OutcomeFromRows
    RepairOnlyOrphans
PROPERTIES
    OutcomeKept
    KeepsPromise
CHECK_DEADLOCK FALSE
