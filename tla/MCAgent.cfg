CONSTANTS
    None = None
    Disk = {"sda"}
    Net = {"eth0"}
    Platforms = {"linux", "windows"}
    SysBlock <- MCSysBlock
    Scans <- MCScans
    Mounts <- MCMounts
    Width = 2
    MaxInterval = 1
    MaxMoved = 2
    MaxPhantom = 1
    MaxTime = 2
    MaxAttempts = 2
    MinuteLength = 2
    MaxLate = 1
    MaxRestarts = 1
SPECIFICATION FairSpec
INVARIANTS TrafficConserved ReportsValid
PROPERTY KeepsCollecting
CHECK_DEADLOCK TRUE
