CONSTANTS
    n1 = n1
    n2 = n2
    k1 = k1
    k2 = k2
    a1 = a1
    s1 = s1
    Node = {n1, n2}
    Key = {k1}
    Attr = {a1}
    Sensor = {s1}
    TokenId = {t1, t2}
    Handler = {h1}
    Admin = {ad1, ad2}
    Payload <- MCOnePayload
    Minute = 2
    MaxAhead = 1
    MaxLate = 3
    ReqTimeout = 1
    RegTimeout = 1
    MaxTime = 3
    MaxGen = 2
    None = None
SYMMETRY TokenSymmetry
SPECIFICATION Spec
INVARIANTS
    OneLiveToken
    RevokedTokenLapses
