SPECIFICATION FairSpec
CONSTANTS
  alice = alice  bob = bob  engine = engine  app = app
  Request = {r1}
  Endpoint = {e1, e2}
  Id = {i1}
  Key = {k1}
  User <- MCUser
  EngineUser = engine
  App <- MCApp
  Policies <- PlainPolicy
  NoConn = NoConn  NoToken = NoToken  None = None
  MaxFaults = 0
  SlowRequests = FALSE
CHECK_DEADLOCK FALSE
PROPERTY LeaseEndsWithToken
