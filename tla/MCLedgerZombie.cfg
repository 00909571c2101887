CONSTANTS
    Attempt = {a1, a2, a3}
    NoAttempt = NoAttempt
    Payload = {p1, p2}
    NoPayload = NoPayload
    Modes = {"idempotent", "lookup", "manual"}
    MaxTries = 2
    MaxCalls = 2
    Deadline = 2
    Lease = 1
    Retention = 1
    MaxTime = 2
SYMMETRY Symmetry
SPECIFICATION Spec
CHECK_DEADLOCK FALSE
INVARIANTS
    SuccessIsReal
PROPERTY LiveLeaseIsExclusive
