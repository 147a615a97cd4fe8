SPECIFICATION Spec
CONSTANTS
  w1 = w1
  w2 = w2
  Workers <- MCWorkers
  WorkflowType = "SAGA"
  TotalSteps = 4
  Compensable <- MCUndo13
  MaxAttempts <- MCOneRetryThenNone
INVARIANTS
  TypeOK
  CompensatesInReverse
  RolledBackMeansUndone
  NoStepAfterCompensation
  ReadsStillTrue
PROPERTIES
  PromiseKept
  OutcomeFrozen
SYMMETRY Symmetry
