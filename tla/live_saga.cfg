SPECIFICATION FairSpec
CONSTANTS
  w1 = w1
  w2 = w2
  Workers <- MCWorkers
  WorkflowType = "SAGA"
  TotalSteps = 2
  Compensable <- MCUndo12
  MaxAttempts <- MCOneRetryThenNone
PROPERTIES
  Terminates
