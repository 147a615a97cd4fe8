SPECIFICATION Spec
CONSTANTS
  w1 = w1
  w2 = w2
  Workers <- MCWorkers
  WorkflowType = "CHAIN"
  TotalSteps = 3
  Compensable <- MCNoCompensation
  MaxAttempts <- MCTwoOneNoRetries
INVARIANTS
  StepsCompleteOnceInOrder
  CheckpointCoversCompleted
  RetriesBounded
PROPERTIES
  RecoveryAddsNothing
SYMMETRY Symmetry
