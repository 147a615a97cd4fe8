SPECIFICATION Spec
CONSTANTS
  TotalSteps = 2
  Streams = {s1}
  MaxEvents = 3
INVARIANTS
  NothingSkipped
