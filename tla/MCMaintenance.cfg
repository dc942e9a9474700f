CONSTANTS
    Value = {v}
    Handler = {h1}
    None = None
    Hour = 2
    Day = 4
    Month = 4
    Window = 3
    RawKeep = 2
    HourlyKeep = 2
    AheadDays = 1
    MaxAhead = 1
    MaxLate = 4
    ReqTimeout = 1
    CycleTimeout = 1
    MaxTime = 12
    MaxReports = 2
SPECIFICATION Spec
INVARIANTS
    TypeOK
    PartitionReady
    TimelyReportsCovered
PROPERTIES
    AggregateOutlivesRaw
