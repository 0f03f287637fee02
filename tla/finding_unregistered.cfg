SPECIFICATION Spec
CONSTANTS
  alice = alice  bob = bob  engine = engine  app = app
  Request = {r1}
  Endpoint = {e1}
  Id = {i1}
  Key = {k1}
  User <- MCUser
  EngineUser = engine
  App <- MCApp
  Policies <- PlainPolicy
  NoConn = NoConn  NoToken = NoToken  None = None
  MaxFaults = 1
  SlowRequests = FALSE
CHECK_DEADLOCK FALSE
INVARIANT LeaseStoredOrRolledBack
