SPECIFICATION FairSpec
CONSTANTS
  w1 = w1
  w2 = w2
  Workers <- MCWorkers
  WorkflowType = "INDEPENDENT"
  TotalSteps = 2
  Compensable <- MCNoCompensation
  MaxAttempts <- MCOneRetryThenNone
INVARIANTS
  WorkToDo
  OutcomeMatchesHistory
  CompletedStepsCounted
  LockDiscipline
  OnlyPairsDeadlock
PROPERTIES
  OutcomeFrozen
  Terminates
