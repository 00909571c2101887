CONSTANTS
    MaxRows = 1
    Request = {q1}
    MaxRequests = 2
    MaxRetries = 0
    MaxFaults = 1
SPECIFICATION FairSpec
PROPERTY Settles
CHECK_DEADLOCK FALSE
