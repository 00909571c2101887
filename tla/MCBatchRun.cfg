CONSTANTS
    N = 3
    MaxRuns = 2
    MaxFaults = 2
SPECIFICATION Spec
INVARIANTS
    StagesInOrder
    OutcomeFromStages
PROPERTIES
    NoStartAfterStop
    WorkflowEnds
CHECK_DEADLOCK FALSE
