SPECIFICATION FairSpec
CONSTANTS
    l1 = l1  u1 = u1  b1 = b1
    Proc = {p1, p2}
    Name = {n1, n2}
    Lock = {l1}
    StripeOf <- MCStripeOf
    User = {u1}
    Bootstrap = {b1}
    Ttls = {0, 1, 2}
    Absent = Absent
    Empty = Empty
    NoRole = NoRole
    NoProc = NoProc
    NoName = NoName
    Asked <- MCAsked
    MaxFaults = 1
INVARIANTS MintUsesStoredRole RolesUsable NoLostField
PROPERTY RequestsEnd
