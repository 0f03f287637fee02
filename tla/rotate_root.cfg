SPECIFICATION FairSpec
CONSTANTS
  Proc = {p1, p2}
  e1 = e1
  e2 = e2
  Endpoint = {e1, e2}
  Id = {1, 2, 3, 4}
  Minted <- MCMinted
  Supplied <- MCSupplied
  Basic = {e2}
  NoConfig = NoConfig
  NoToken = NoToken
  NoId = NoId
  NoProc = NoProc
  MaxFaults = 2
INVARIANTS
  TypeOK
  RootAccounted
  ConfiguredLive
  StrayDeletes
  RotateLosingTakesTwo
PROPERTIES
  LockReleased
  RetryResolves
