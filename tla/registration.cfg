SPECIFICATION FairSpec
CONSTANTS
  Clients = {c1, c2, c3}
  Others = {o1}
  MaxOpenConns = 3
  MaxVersions = 3
INVARIANTS
  TypeOK
  VersionsInOrder
  RefusedOnlyIfOvertaken
PROPERTIES
  PoolRespected
  RegistrationsEnd
