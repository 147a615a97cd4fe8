SPECIFICATION FairSpec
CONSTANTS
  TotalSteps = 2
  Streams = {s1}
  MaxEvents = 3
INVARIANTS
  TypeOK
  OnlyOvertakenSkipped
  SentIsHistory
  CompletedComesLast
PROPERTIES
  PromiseKept
  StreamsEnd
