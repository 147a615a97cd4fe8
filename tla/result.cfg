SPECIFICATION Spec
CONSTANTS
  w1 = w1
  w2 = w2
  Workers <- MCWorkers
  WorkflowType = "CHAIN"
  TotalSteps = 2
  Compensable <- MCNoCompensation
  MaxAttempts <- MCOneRetryThenNone
INVARIANTS
  ResultSaved
SYMMETRY Symmetry
