CONSTANTS
    Request = {r1, r2}
    linux = linux
    Asset = {linux}
    Sums = Sums
    Latest = Latest
    Asked = {1, 2}
    MaxRelease = 2
    Listed <- MCListed
    bad = bad
    Empty = Empty
    Garbage = {bad, Empty}
    Bundle <- MCBundle
    TTL = 2
    FetchTimeout = 1
    MaxTime = 1
    None = None
SPECIFICATION Spec
INVARIANTS
    TypeOK
    NumberedVersionsExact
PROPERTIES
    EveryRequestAnswered
