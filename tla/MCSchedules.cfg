CONSTANTS
    Schedule = {s}
    Request = {p, q, r}
    Timing = {c1, c2, weeks}
    Foreign = {weeks}
    Zone = {paris}
    MaxFaults = 1
SPECIFICATION Spec
INVARIANTS
    ExistenceAgrees
    DeletedStaysDeleted
PROPERTY SoloRequestSettles
SYMMETRY Interchangeable
CHECK_DEADLOCK FALSE
