SPECIFICATION Spec
CONSTANTS
    a1 = a1  a2 = a2  s1 = s1  u1 = u1  w1 = w1  p1 = p1  ca1 = ca1
    Address = {a1, a2}
    Secret = {s1}
    Username = {u1}
    Password = {w1}
    Path = {p1}
    CACert = {ca1}
    Empty = Empty
    DefaultPath = DefaultPath
    DefaultTimeout = 30
    Mantissa = 3
    AppId = {1, 2}
    UserId = {1, 2}
    Name = {x, y}
    TokenIds = {7, 9}
    Configs <- MCConfigs
    None = None
    NoToken = NoToken
    NoRecord = NoRecord
    NoCall = NoCall
    NoConfig = NoConfig
    MaxChanges = 2
INVARIANTS TypeOK BoundAsNamed OwnedAsNamed SameClient DeletesOwnId NeverStuck
