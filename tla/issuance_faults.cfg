SPECIFICATION FairSpec
CONSTANTS
  alice = alice  bob = bob  engine = engine  app = app
  Request = {r1}
  Endpoint = {e1}
  Id = {i1}
  Key = {k1, k2}
  User <- MCUser
  EngineUser = engine
  App <- MCApp
  Policies <- MCPolicies
  NoConn = NoConn  NoToken = NoToken  None = None
  MaxFaults = 3
  SlowRequests = TRUE
CHECK_DEADLOCK FALSE
INVARIANTS
  TypeOK
  Accounted
  Protected
  OneOwner
  LosingTakesTwo
PROPERTIES
  RecordsDropSafely
  RollbackResolves
