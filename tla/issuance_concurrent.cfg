SPECIFICATION Spec
CONSTANTS
  alice = alice  bob = bob  engine = engine  app = app
  Request = {r1, r2}
  Endpoint = {e1}
  Id = {i1, i2}
  Key = {k1}
  User <- MCUser
  EngineUser = engine
  App <- MCApp
  Policies <- MCPolicies
  NoConn = NoConn  NoToken = NoToken  None = None
  MaxFaults = 2
  SlowRequests = FALSE
SYMMETRY Symmetry
CHECK_DEADLOCK FALSE
INVARIANTS
  GuardedResponse
  HandedOutLive
PROPERTY KeepsLedger
