CONSTANTS
    MaxRows = 1
    Request = {q1}
    MaxRequests = 1
    MaxRetries = 0
    MaxFaults = 0
SPECIFICATION Spec
INVARIANT DirectCancelIsQuiet
CHECK_DEADLOCK FALSE
