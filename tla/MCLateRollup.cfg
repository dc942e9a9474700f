CONSTANTS
    Value = {v}
    Handler = {h1}
    None = None
    Hour = 3
    Day = 6
    Month = 12
    Window = 3
    RawKeep = 2
    HourlyKeep = 2
    AheadDays = 1
    MaxAhead = 1
    MaxLate = 6
    ReqTimeout = 1
    CycleTimeout = 1
    MaxTime = 15
    MaxReports = 1
SPECIFICATION Spec
INVARIANTS
    LateReportsCovered
