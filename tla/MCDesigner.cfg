SPECIFICATION SessionSpec
CONSTANTS
  ByteCap = 4
  RecordSize = {2, 3}
  MaxRecords = 3
  RowCap = {1, 2}
  StepName = {"a", "b", "c"}
  MaxSteps = 3
  MaxPasses = 3
INVARIANTS
  
  ReferencesExecuted
  SucceededChainCoherent
PROPERTY SucceededStepsKept
CHECK_DEADLOCK FALSE
