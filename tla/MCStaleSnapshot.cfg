CONSTANTS
    n1 = n1
    n2 = n2
    k1 = k1
    k2 = k2
    a1 = a1
    s1 = s1
    Node = {n1}
    Key = {k1, k2}
    Attr = {a1}
    Sensor = {s1}
    TokenId = {t1}
    Handler = {h1, h2}
    Admin = {ad1}
    Payload <- MCPayload
    Minute = 2
    MaxAhead = 1
    MaxLate = 1
    ReqTimeout = 1
    RegTimeout = 1
    MaxTime = 2
    MaxGen = 2
    None = None
SYMMETRY HandlerSymmetry
SPECIFICATION Spec
INVARIANTS
    OldSnapshotIgnored
