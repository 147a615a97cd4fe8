SPECIFICATION FairSpec
CONSTANTS
  q1 = q1
  s1 = s1
  s2 = s2
  s3 = s3
  t1 = t1
  t2 = t2
  t3 = t3
  h1 = h1
  h2 = h2
  Queues = {q1}
  Streams = {s1, s2}
  Tasks = {t1, t3}
  Handlers = {h1, h2}
  LineOf <- Line
INVARIANTS
  TypeOK
  ListedWhileStreaming
  NoRaceWindow
  NotLeftToTimer
PROPERTIES
  EveryTaskTaken
