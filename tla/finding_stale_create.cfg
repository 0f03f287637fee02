SPECIFICATION Spec
CONSTANTS
    Proc = {p1, p2}
    Conn = {c1, c2}
    Given = {g1}
    Minted = {t1, t2}
    User = {u1}
    Pass = {w1}
    Absent = Absent
    Empty = Empty
    NoConfig = NoConfig
    NoId = NoId
    NoProc = NoProc
    Asked <- MCAsked
    MaxFaults = 1
SYMMETRY Symmetry
INVARIANT CredentialStays
