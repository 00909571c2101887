CONSTANTS
    Replica = {a, b}
    Interval = 2
    Grace = 3
    Retry = 1
    TrialLength = 3
    SoldLength = 5
    MaxTime = 4
    MaxAdmin = 2
    MaxFaults = 1
SPECIFICATION Spec
INVARIANTS
    TypeOK
    RevocationWithinGrace
    RevocationTakesEffect
    BlockedOnlyIfRefused
    OneTrialOneEnd
SYMMETRY ReplicaSymmetry
CHECK_DEADLOCK FALSE
