CONSTANTS
    K = 3
    Quarantine = {3}
    Fire = {f, g}
    MaxCursor = 1
    MaxPuts = 2
    MaxFaults = 1
SPECIFICATION Spec
INVARIANTS
    TypeOK
    SeenWasStarted
PROPERTIES
    MigratedAgainOnlyIf
    ArrivalStarts
