\* The run ends when the last request is answered and the clock at its bound.
CHECK_DEADLOCK FALSE
CONSTANTS
    Key = {k1, k2}
    Client = {c1, c2}
    None = None
    TTL = 2
    MaxEntries = 1
    Deadline = 1
    EncodeTime = 1
    MaxTime = 2
SPECIFICATION Spec
INVARIANTS
    TypeOK
    CacheBounded
    NoRedundantLoad
    AnswersFresh
PROPERTIES
    EveryFlightEnds
