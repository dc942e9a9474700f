CONSTANTS
    n1 = n1
    k1 = k1
    a1 = a1
    Node = {n1}
    Key = {k1}
    Attr = {a1}
    Sensor = {s1}
    TokenId = {t1}
    Handler = {h1}
    Admin = {ad1}
    Reader = {q1}
    Payload <- MCPayload
    Minute = 1
    MaxAhead = 1
    MaxLate = 3
    ReqTimeout = 1
    RegTimeout = 1
    OfflineAfter = 1
    MaxTime = 2
    MaxGen = 2
    None = None
SPECIFICATION QSpec
INVARIANTS
    OnlineMeansReported
    DetailNotOlder
PROPERTIES
    ChoiceNotRevived
